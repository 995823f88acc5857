------------------------ MODULE GovernedRunnerProofs ------------------------
(***************************************************************************)
(* Proofs about GovernedRunner for every set of calls, nonces, plans and   *)
(* files and every bound on time.                                          *)
(***************************************************************************)
EXTENDS GovernedRunner, SequenceTheorems, TLAPS

Points == {"start", "consume", "mark", "write", "unlink", "sync", "revalidate", "spawn",
           "poll", "term", "kill", "await", "join"} \cup Final

\* The call has created a marker and not yet its nonce.
Marking(c) == pc[c] \in {"write", "unlink", "sync"}

Lasting == {"synced", "durable"}

\* The call is past the consumption of its nonce.
Admitted(c) == pc[c] \in {"revalidate", "spawn", "poll", "term", "kill", "await", "join"}

Typed ==
  /\ markers \in [Nonces -> Marker]
  /\ plan \in Workloads \cup {NoPlans}
  /\ pc \in [Calls -> Points]
  /\ owner \in [Nonces -> Calls \cup {NoCall}]
  /\ spawned \subseteq Calls

\* A marker is made by one call at a time, and never by a production call.  Of the nonces that
\* are kept: a consumed one has a marker that lasts, in a new directory a durable one, and who
\* runs commands of a replay-sensitive plan owns its nonce.
NonceInv ==
  /\ Typed
  /\ \A c \in Calls : pc[c] # "start" \/ c \in spawned => plan # NoPlans
  /\ plan = NoPlans => \A n \in Nonces : owner[n] = NoCall /\ markers[n] = "none"
  /\ \A c \in Calls : pc[c] = "mark" \/ Marking(c) => ~plan[c].strict
  /\ \A c \in Calls : Marking(c) => markers[Nonce(c)] # "none"
  /\ \A c, d \in Calls : Marking(c) /\ Marking(d) /\ Nonce(c) = Nonce(d) => c = d
  /\ \A n \in Nonces : Kept(n) => /\ owner[n] # NoCall => markers[n] \in Lasting
                                  /\ NewDirectory => markers[n] \in {"none", "durable"}
  /\ \A c \in Calls : Kept(Nonce(c)) =>
       /\ Marking(c) => owner[Nonce(c)] = NoCall
       /\ (Admitted(c) \/ c \in spawned) /\ RequiresNonce(plan[c]) => owner[Nonce(c)] = c

\* What is kept is a matter of the plans.
LEMMA KeptFrame ==
  ASSUME UNCHANGED plan
  PROVE  /\ \A n : Kept(n)' <=> Kept(n)
         /\ NewDirectory' <=> NewDirectory
         /\ \A c \in Calls : Nonce(c)' = Nonce(c) /\ (RequiresNonce(plan[c])' <=> RequiresNonce(plan[c]))
<1>1. NewDirectory' <=> NewDirectory
  BY DEF NewDirectory
<1>2. \A c \in Calls : Nonce(c)' = Nonce(c) /\ (RequiresNonce(plan[c])' <=> RequiresNonce(plan[c]))
  BY DEF Nonce, RequiresNonce
<1>3. \A n : Kept(n)' <=> Kept(n)
  BY <1>1, <1>2 DEF Kept
<1>4. QED BY <1>1, <1>2, <1>3

\* The nonce of a call with a plan.
LEMMA NonceTyped ==
  ASSUME RunnerAssumption, plan \in Workloads \cup {NoPlans}, plan # NoPlans, NEW c \in Calls
  PROVE  Nonce(c) \in Nonces /\ plan \in Workloads
BY DEF RunnerAssumption, Nonce

\* A step that leaves the markers alone, and does not begin a marker or a consumption.
LEMMA NonceFrame ==
  ASSUME NonceInv, UNCHANGED <<markers, owner, plan>>, pc' \in [Calls -> Points], spawned' \subseteq Calls,
         \A c \in Calls : /\ pc'[c] # "start" => plan # NoPlans
                          /\ Marking(c)' => Marking(c)
                          /\ pc'[c] = "mark" => pc[c] = "mark" \/ ~plan[c].strict
                          /\ Admitted(c)' /\ RequiresNonce(plan[c]) => Admitted(c)
                          /\ c \in spawned' => c \in spawned \/ Admitted(c)
  PROVE  NonceInv'
<1>1. \A c \in Calls : Nonce(c)' = Nonce(c) /\ (RequiresNonce(plan[c])' <=> RequiresNonce(plan[c]))
  BY KeptFrame
<1>2. \A c \in Calls : Admitted(c) => pc[c] # "start"
  BY DEF Admitted
<1>3. /\ \A n \in Nonces : Kept(n)' <=> Kept(n)
      /\ \A c \in Calls : Kept(Nonce(c))' <=> Kept(Nonce(c))
      /\ NewDirectory' <=> NewDirectory
  BY <1>1, KeptFrame DEF Kept
<1>4. \A c \in Calls : pc'[c] = "mark" \/ Marking(c)' => ~plan'[c].strict
  BY DEF NonceInv
<1>5. Typed'
  BY DEF NonceInv, Typed
<1>6. QED BY <1>1, <1>2, <1>3, <1>4, <1>5 DEF NonceInv

\* A step of a call at its marker, which goes on at l and leaves the marker as m.
LEMMA MarkKeeps ==
  ASSUME RunnerAssumption, NonceInv, NEW c \in Calls, plan # NoPlans, NEW k \in BOOLEAN, k = Kept(Nonce(c)),
         NEW m \in Marker, NEW l \in Points \ {"start", "mark"}, MarkTo(c, m, l),
         l \notin {"spawn", "poll", "term", "kill", "await", "join"},
         k /\ owner[Nonce(c)] # NoCall => m \in Lasting,
         k /\ NewDirectory => m \in {"none", "durable"},
         l = "revalidate" => /\ m \in Lasting /\ (k => owner[Nonce(c)] = NoCall)
                             /\ \A d \in Calls \ {c} : Marking(d) => Nonce(d) # Nonce(c),
         m = "none" => \A d \in Calls \ {c} : Marking(d) => Nonce(d) # Nonce(c),
         l \in {"write", "unlink", "sync"} => /\ m # "none" /\ (k => owner[Nonce(c)] = NoCall) /\ ~plan[c].strict
                                              /\ \A d \in Calls \ {c} : Marking(d) => Nonce(d) # Nonce(c)
  PROVE  NonceInv'
<1>1. Nonce(c) \in Nonces /\ plan \in Workloads
  BY NonceTyped DEF NonceInv, Typed
<1>2. UNCHANGED <<plan, spawned>>
  BY DEF MarkTo
<1>3. /\ pc' = [pc EXCEPT ![c] = l] /\ markers' = [markers EXCEPT ![Nonce(c)] = m]
      /\ owner' = IF l = "revalidate" THEN [owner EXCEPT ![Nonce(c)] = c] ELSE owner
  BY DEF MarkTo, To
<1>4. Typed'
  BY <1>1, <1>2, <1>3 DEF NonceInv, Typed
<1>5. /\ pc'[c] = l /\ \A d \in Calls \ {c} : pc'[d] = pc[d]
      /\ markers'[Nonce(c)] = m /\ \A n \in Nonces \ {Nonce(c)} : markers'[n] = markers[n] /\ owner'[n] = owner[n]
      /\ owner'[Nonce(c)] = IF l = "revalidate" THEN c ELSE owner[Nonce(c)]
  BY <1>1, <1>3 DEF NonceInv, Typed
<1>6. \A d \in Calls \ {c} : (Marking(d)' <=> Marking(d)) /\ (Admitted(d)' <=> Admitted(d))
  BY <1>5 DEF Marking, Admitted
<1>7. /\ \A d \in Calls : Nonce(d)' = Nonce(d) /\ (RequiresNonce(plan[d])' <=> RequiresNonce(plan[d]))
      /\ \A n \in Nonces : Kept(n)' <=> Kept(n)
      /\ NewDirectory' <=> NewDirectory
      /\ \A d \in Calls : Nonce(d) \in Nonces
  BY <1>2, KeptFrame, NonceTyped DEF NonceInv, Typed
<1>8. \A d \in Calls : Kept(Nonce(d))' <=> Kept(Nonce(d))
  BY <1>7 DEF Kept
<1>9. \A d \in Calls : pc'[d] = "mark" \/ Marking(d)' => ~plan'[d].strict
  <2> SUFFICES ASSUME NEW d \in Calls, pc'[d] = "mark" \/ Marking(d)' PROVE ~plan[d].strict
    BY <1>2
  <2>1. CASE d = c
    BY <1>5, <2>1 DEF Marking
  <2>2. CASE d # c
    BY <1>5, <1>6, <2>2 DEF NonceInv
  <2>3. QED BY <2>1, <2>2
<1>10. \A d \in Calls : Marking(d)' => markers'[Nonce(d)] # "none"
  <2> SUFFICES ASSUME NEW d \in Calls, Marking(d)' PROVE markers'[Nonce(d)] # "none"
    BY <1>7
  <2>1. CASE d = c
    BY <1>5, <2>1 DEF Marking
  <2>2. CASE d # c
    BY <1>5, <1>6, <1>7, <2>2 DEF NonceInv
  <2>3. QED BY <2>1, <2>2
<1>11. \A d, e \in Calls : Marking(d)' /\ Marking(e)' /\ Nonce(d) = Nonce(e) => d = e
  BY <1>5, <1>6 DEF NonceInv, Marking
<1>12. \A n \in Nonces : Kept(n) => /\ owner'[n] # NoCall => markers'[n] \in Lasting
                                    /\ NewDirectory => markers'[n] \in {"none", "durable"}
  <2> SUFFICES ASSUME NEW n \in Nonces, Kept(n)
               PROVE  /\ owner'[n] # NoCall => markers'[n] \in Lasting
                      /\ NewDirectory => markers'[n] \in {"none", "durable"}
    OBVIOUS
  <2>1. CASE n = Nonce(c)
    BY <1>5, <2>1
  <2>2. CASE n # Nonce(c)
    BY <1>5, <2>2 DEF NonceInv
  <2>3. QED BY <2>1, <2>2
<1>13. ASSUME NEW d \in Calls, Kept(Nonce(d)), Marking(d)' PROVE owner'[Nonce(d)] = NoCall
  <2>1. CASE d = c
    BY <1>5, <1>13, <2>1 DEF Marking
  <2>2. CASE d # c
    BY <1>5, <1>6, <1>7, <1>13, <2>2 DEF NonceInv
  <2>3. QED BY <2>1, <2>2
<1>14. ASSUME NEW d \in Calls, Kept(Nonce(d)), Admitted(d)' \/ d \in spawned, RequiresNonce(plan[d])
       PROVE  owner'[Nonce(d)] = d
  <2>1. Nonce(d) \in Nonces /\ d # NoCall
    BY <1>7 DEF RunnerAssumption
  <2>2. CASE d = c /\ l = "revalidate"
    BY <1>5, <2>2
  <2>3. CASE d = c /\ l # "revalidate"
    BY <1>5, <1>14, <2>3 DEF NonceInv, Admitted
  <2>4. CASE d # c
    <3>1. owner[Nonce(d)] = d
      BY <1>6, <1>14, <2>4 DEF NonceInv
    <3>2. CASE Nonce(d) = Nonce(c)
      BY <1>5, <1>14, <2>1, <3>1, <3>2
    <3>3. QED BY <1>5, <2>1, <3>1, <3>2
  <2>5. QED BY <2>2, <2>3, <2>4
<1>15. QED BY <1>2, <1>4, <1>7, <1>8, <1>9, <1>10, <1>11, <1>12, <1>13, <1>14 DEF NonceInv

LEMMA MarkStepKeeps ==
  ASSUME RunnerAssumption, NonceInv, NEW c \in Calls,
         TrustedConsume(c) \/ CreateMarker(c) \/ WriteMarker(c) \/ UnlinkMarker(c) \/ SyncDirectory(c)
  PROVE  NonceInv'
<1> DEFINE k == Kept(Nonce(c))
<1>1. plan # NoPlans /\ pc[c] # "start" /\ k \in BOOLEAN
  BY DEF NonceInv, TrustedConsume, CreateMarker, WriteMarker, UnlinkMarker, SyncDirectory, Kept
<1>2. /\ Nonce(c) \in Nonces /\ markers[Nonce(c)] \in Marker
      /\ k /\ owner[Nonce(c)] # NoCall => markers[Nonce(c)] \in Lasting
      /\ k /\ NewDirectory => markers[Nonce(c)] \in {"none", "durable"}
  BY <1>1, NonceTyped DEF NonceInv, Typed
<1>3. markers[Nonce(c)] = "none" =>
        (k => owner[Nonce(c)] = NoCall) /\ \A d \in Calls : Marking(d) => Nonce(d) # Nonce(c)
  BY <1>2 DEF NonceInv, Lasting
<1>4. Marking(c) => /\ markers[Nonce(c)] # "none" /\ (k => owner[Nonce(c)] = NoCall) /\ ~plan[c].strict
                    /\ \A d \in Calls \ {c} : Marking(d) => Nonce(d) # Nonce(c)
  BY DEF NonceInv
<1>5. /\ {"write", "sync", "unlink", "raised", "revalidate"} \subseteq Points \ {"start", "mark"}
      /\ Lasting \subseteq Marker /\ {"none", "present"} \subseteq Marker
  BY DEF Points, Final, Lasting, Marker
<1>6. pc[c] \in {"mark", "write", "unlink", "sync"} => ~plan[c].strict /\ ~(k /\ NewDirectory)
  BY <1>1, <1>2 DEF NonceInv, Marking, Kept
<1> HIDE DEF k
<1>7. k = Kept(Nonce(c))
  BY DEF k
<1>8. MarkTo(c, markers[Nonce(c)], "raised") => NonceInv'
  BY <1>1, <1>2, <1>3, <1>5, <1>7, MarkKeeps
<1>9. CASE TrustedConsume(c)
  <2>1. CASE markers[Nonce(c)] = "none" /\ MarkTo(c, "durable", "revalidate")
    BY <1>1, <1>3, <1>5, <1>7, <2>1, MarkKeeps DEF Lasting
  <2>2. CASE MarkTo(c, "durable", "raised")
    BY <1>1, <1>5, <1>7, <2>2, MarkKeeps DEF Lasting
  <2>3. QED BY <1>8, <1>9, <2>1, <2>2 DEF TrustedConsume
<1>10. CASE CreateMarker(c)
  <2>1. CASE markers[Nonce(c)] = "none" /\ MarkTo(c, "present", "write")
    <3>1. pc[c] = "mark"
      BY <1>10 DEF CreateMarker
    <3>2. QED BY <1>1, <1>3, <1>5, <1>6, <1>7, <2>1, <3>1, MarkKeeps
  <2>2. QED BY <1>8, <1>10, <2>1 DEF CreateMarker
<1>11. CASE WriteMarker(c)
  <2>1. PICK l \in {"sync", "unlink"} : MarkTo(c, markers[Nonce(c)], l)
    BY <1>11 DEF WriteMarker
  <2>2. Marking(c)
    BY <1>11 DEF WriteMarker, Marking
  <2>3. QED BY <1>1, <1>2, <1>4, <1>5, <1>7, <2>1, <2>2, MarkKeeps
<1>12. CASE UnlinkMarker(c)
  <2>1. Marking(c)
    BY <1>12 DEF UnlinkMarker, Marking
  <2>2. CASE MarkTo(c, "none", "raised")
    BY <1>1, <1>4, <1>5, <1>7, <2>1, <2>2, MarkKeeps
  <2>3. QED BY <1>8, <1>12, <2>2 DEF UnlinkMarker
<1>13. CASE SyncDirectory(c)
  <2>1. Marking(c) /\ pc[c] = "sync"
    BY <1>13 DEF SyncDirectory, Marking
  <2>2. CASE MarkTo(c, "synced", "revalidate")
    BY <1>1, <1>4, <1>5, <1>6, <1>7, <2>1, <2>2, MarkKeeps DEF Lasting
  <2>3. QED BY <1>8, <1>13, <2>2 DEF SyncDirectory
<1>14. QED BY <1>9, <1>10, <1>11, <1>12, <1>13

LEMMA PrepareKeeps ==
  ASSUME NonceInv, NEW c \in Calls, PreparePlan(c)
  PROVE  NonceInv'
<1>1. /\ plan # NoPlans /\ UNCHANGED <<markers, owner, plan, spawned>>
      /\ \E l \in {"revalidate", "consume", "mark", "raised"} :
           To(c, l) /\ (l = "revalidate" => ~RequiresNonce(plan[c])) /\ (l = "mark" => ~plan[c].strict)
  BY DEF PreparePlan, histVars
<1>2. PICK l \in {"revalidate", "consume", "mark", "raised"} :
        To(c, l) /\ (l = "revalidate" => ~RequiresNonce(plan[c])) /\ (l = "mark" => ~plan[c].strict)
  BY <1>1
<1>3. pc' \in [Calls -> Points] /\ pc'[c] = l /\ \A d \in Calls \ {c} : pc'[d] = pc[d]
  BY <1>2 DEF NonceInv, Typed, To, Points, Final
<1>4. QED BY <1>1, <1>2, <1>3, NonceFrame DEF NonceInv, Typed, Marking, Admitted

\* Recording a command receipt goes on with the next command or returns.
LEMMA RecordGoes ==
  ASSUME NonceInv, NEW c \in Calls, NEW r, Record(c, r)
  PROVE  pc' \in [Calls -> Points] /\ pc'[c] \in {"revalidate", "returned"} /\ \A d \in Calls \ {c} : pc'[d] = pc[d]
BY DEF NonceInv, Typed, Record, To, Points, Final

LEMMA CommandKeeps ==
  ASSUME NonceInv, NEW c \in Calls,
         Revalidate(c) \/ Spawn(c) \/ Poll(c) \/ Terminate(c) \/ AwaitStop(c) \/ Join(c)
  PROVE  NonceInv'
<1>1. Admitted(c) /\ UNCHANGED <<markers, owner, plan>> /\ plan # NoPlans
  BY DEF NonceInv, Revalidate, Spawn, Poll, Watch, Terminate, AwaitStop, Signalled, Join, Admitted, histVars
<1>2. spawned' = spawned \/ spawned' = spawned \cup {c}
  BY DEF Revalidate, Spawn, Poll, Watch, Terminate, AwaitStop, Signalled, Join, histVars
<1>3. \/ \E r : Record(c, r)
      \/ \E l \in {"spawn", "poll", "join", "term", "kill", "await", "raised"} : To(c, l)
  <2>1. CASE Poll(c)
    BY <2>1 DEF Poll, Watch
  <2>2. CASE Terminate(c) \/ AwaitStop(c)
    BY <2>2 DEF Terminate, AwaitStop, Signalled
  <2>3. CASE Revalidate(c) \/ Spawn(c) \/ Join(c)
    BY <2>3 DEF Revalidate, Spawn, Join
  <2>4. QED BY <2>1, <2>2, <2>3
<1>4. pc' \in [Calls -> Points] /\ ~Marking(c)' /\ pc'[c] # "mark" /\ \A d \in Calls \ {c} : pc'[d] = pc[d]
  BY <1>3, RecordGoes DEF NonceInv, Typed, To, Points, Final, Marking
<1>5. QED BY <1>1, <1>2, <1>4, NonceFrame DEF NonceInv, Typed, Marking, Admitted

LEMMA OtherKeeps ==
  ASSUME RunnerAssumption, NonceInv,
         \/ \E c \in Calls : Crash(c)
         \/ \E c \in Calls : Inspect(c) \/ Seal(c) \/ Exec(c) \/ Payload(c) \/ RuntimeMax(c) \/ ClientDies(c)
         \/ Submit \/ Tick \/ Edit \/ PowerLoss \/ UNCHANGED vars
  PROVE  NonceInv'
<1>1. CASE UNCHANGED <<markers, owner, plan, pc, spawned>>
  BY <1>1, NonceFrame DEF NonceInv, Typed, Marking, Admitted
<1>2. CASE Submit
  <2>1. \A c \in Calls : pc[c] = "start" /\ c \notin spawned
    BY <1>2 DEF NonceInv, Submit
  <2>2. plan' \in Workloads /\ UNCHANGED <<markers, owner, pc, spawned>>
    BY <1>2 DEF Submit, histVars
  <2>3. plan' # NoPlans \/ \A c \in Calls : pc'[c] = "start" /\ c \notin spawned'
    BY <2>1, <2>2
  <2>4. \A c \in Calls : ~Marking(c)' /\ ~Admitted(c)' /\ c \notin spawned' /\ pc'[c] = "start"
    BY <2>1, <2>2 DEF Marking, Admitted
  <2>5. \A n \in Nonces : owner'[n] = NoCall /\ markers'[n] = "none"
    BY <1>2, <2>2 DEF NonceInv, Submit
  <2>6. QED BY <2>1, <2>2, <2>4, <2>5 DEF NonceInv, Typed
<1>3. CASE PowerLoss
  <2>1. UNCHANGED <<owner, plan, spawned>>
    BY <1>3 DEF PowerLoss, histVars
  <2>2. pc' \in [Calls -> Points] /\ \A c \in Calls : pc'[c] = pc[c] \/ pc'[c] = "dead"
    BY <1>3 DEF PowerLoss, NonceInv, Typed, Points, Final
  <2>3. \A c \in Calls : /\ ~Marking(c)' /\ ~Admitted(c)' /\ pc'[c] # "mark"
                         /\ (pc'[c] = "start" <=> pc[c] = "start")
    BY <1>3 DEF PowerLoss, Marking, Admitted, NonceInv, Typed, Final
  <2>4. /\ markers' \in [Nonces -> Marker]
        /\ \A n \in Nonces : \/ markers'[n] = markers[n]
                             \/ markers[n] = "present" /\ markers'[n] = "none"
                             \/ NewDirectory /\ markers[n] # "durable" /\ markers'[n] = "none"
    <3>1. PICK lost \in Losses : markers' = [n \in Nonces |-> IF n \in lost THEN "none" ELSE markers[n]]
      BY <1>3 DEF PowerLoss
    <3>2. \/ lost \subseteq {n \in Nonces : markers[n] = "present"}
          \/ NewDirectory /\ lost = {n \in Nonces : markers[n] # "durable"}
      BY DEF Losses
    <3>3. QED BY <3>1, <3>2 DEF NonceInv, Typed, Marker
  <2>5. /\ \A c \in Calls : Nonce(c)' = Nonce(c) /\ (RequiresNonce(plan[c])' <=> RequiresNonce(plan[c]))
        /\ \A n \in Nonces : Kept(n)' <=> Kept(n)
        /\ NewDirectory' <=> NewDirectory
    BY <2>1, KeptFrame
  <2>6. \A c \in Calls : Kept(Nonce(c))' <=> Kept(Nonce(c))
    BY <2>1, <2>5, KeptFrame DEF Kept
  <2>7. \A n \in Nonces : Kept(n) => /\ owner'[n] # NoCall => markers'[n] \in Lasting
                                     /\ NewDirectory => markers'[n] \in {"none", "durable"}
    <3> SUFFICES ASSUME NEW n \in Nonces, Kept(n)
                 PROVE  /\ owner'[n] # NoCall => markers'[n] \in Lasting
                        /\ NewDirectory => markers'[n] \in {"none", "durable"}
      OBVIOUS
    <3>1. /\ owner[n] # NoCall => markers[n] \in Lasting
          /\ NewDirectory => markers[n] \in {"none", "durable"}
      BY DEF NonceInv
    <3>2. QED BY <2>1, <2>4, <3>1 DEF Lasting
  <2>8. Typed' /\ \A c \in Calls : pc'[c] # "start" \/ c \in spawned' => plan' # NoPlans
    BY <2>1, <2>2, <2>3, <2>4 DEF NonceInv, Typed
  <2>9. plan' = NoPlans => \A n \in Nonces : owner'[n] = NoCall /\ markers'[n] = "none"
    BY <2>1, <2>4 DEF NonceInv
  <2>10. \A c \in Calls : Kept(Nonce(c)) /\ c \in spawned /\ RequiresNonce(plan[c]) => owner[Nonce(c)] = c
    BY DEF NonceInv
  <2>11. \A n \in Nonces : (Kept(n) => /\ owner[n] # NoCall => markers[n] \in Lasting
                                       /\ NewDirectory => markers[n] \in {"none", "durable"})'
    BY <2>5, <2>7
  <2>12. \A c \in Calls : (pc[c] = "mark" \/ Marking(c) => ~plan[c].strict)'
    BY <2>3
  <2>13. \A c \in Calls : (Marking(c) => markers[Nonce(c)] # "none")'
    BY <2>3
  <2>14. \A c, d \in Calls : (Marking(c) /\ Marking(d) /\ Nonce(c) = Nonce(d) => c = d)'
    BY <2>3
  <2>15. ASSUME NEW c \in Calls, Kept(Nonce(c))'
         PROVE  (/\ Marking(c) => owner[Nonce(c)] = NoCall
                 /\ (Admitted(c) \/ c \in spawned) /\ RequiresNonce(plan[c]) => owner[Nonce(c)] = c)'
    <3>1. Kept(Nonce(c)) /\ ~Marking(c)' /\ ~Admitted(c)'
      BY <2>3, <2>6, <2>15
    <3>2. c \in spawned /\ RequiresNonce(plan[c]) => owner[Nonce(c)] = c
      BY <2>10, <3>1
    <3>3. UNCHANGED <<owner, spawned>> /\ Nonce(c)' = Nonce(c) /\ (RequiresNonce(plan[c])' <=> RequiresNonce(plan[c]))
      BY <2>1, <2>5
    <3>4. QED BY <3>1, <3>2, <3>3
  <2>16. QED BY <2>8, <2>9, <2>11, <2>12, <2>13, <2>14, <2>15 DEF NonceInv
<1>4. CASE \E c \in Calls : Crash(c)
  <2>1. PICK c \in Calls : Crash(c)
    BY <1>4
  <2>2. /\ UNCHANGED <<markers, owner, plan, spawned>> /\ pc[c] # "start"
        /\ pc' \in [Calls -> Points] /\ pc'[c] = "dead" /\ \A d \in Calls \ {c} : pc'[d] = pc[d]
    BY <2>1 DEF Crash, To, NonceInv, Typed, Points, Final, histVars
  <2>3. QED BY <2>2, NonceFrame DEF NonceInv, Typed, Marking, Admitted
<1>5. QED BY <1>1, <1>2, <1>3, <1>4
  DEF Inspect, Seal, Exec, Payload, RuntimeMax, ClientDies, UnitStep, Tick, Edit, vars, callVars, histVars

LEMMA NextNonceInv == RunnerAssumption /\ NonceInv /\ [Next]_vars => NonceInv'
BY MarkStepKeeps, PrepareKeeps, CommandKeeps, OtherKeeps DEF Next, CallStep

LEMMA InitNonceInv == RunnerAssumption /\ Init => NonceInv
<1> SUFFICES ASSUME RunnerAssumption, Init PROVE NonceInv
  OBVIOUS
<1>1. /\ plan = NoPlans /\ spawned = {} /\ \A c \in Calls : pc[c] = "start"
      /\ \A n \in Nonces : owner[n] = NoCall /\ markers[n] = "none"
  BY DEF Init
<1>2. Typed
  BY DEF Init, Typed, Points, Marker
<1>3. \A c \in Calls : ~Marking(c) /\ ~Admitted(c)
  BY <1>1 DEF Marking, Admitted
<1>4. QED BY <1>1, <1>2, <1>3 DEF NonceInv

\* Every step claims a nonce, acts on one that is owned, or is not seen.
LEMMA StepImplements ==
  RunnerAssumption /\ NonceInv /\ [Next]_vars => [Once!Next]_(Once!vars)
<1> SUFFICES ASSUME RunnerAssumption, NonceInv, [Next]_vars PROVE [Once!Next]_(Once!vars)
  OBVIOUS
<1> DEFINE kept == [n \in Nonces |-> IF Kept(n) THEN owner[n] ELSE NoCall]
           acts(c) == c \in spawned /\ RequiresNonce(plan[c]) /\ Kept(Nonce(c))
           acted == {<<c, Nonce(c)>> : c \in {d \in spawned : RequiresNonce(plan[d]) /\ Kept(Nonce(d))}}
<1>1. CASE UNCHANGED <<owner, plan, spawned>>
  <2>1. /\ \A n \in Nonces : Kept(n)' <=> Kept(n)
        /\ \A c : Nonce(c)' = Nonce(c) /\ (RequiresNonce(plan[c])' <=> RequiresNonce(plan[c]))
        /\ \A c : Kept(Nonce(c))' <=> Kept(Nonce(c))
    BY <1>1 DEF Kept, NewDirectory, Nonce, RequiresNonce
  <2>2. kept' = kept /\ acted' = acted
    BY <1>1, <2>1
  <2>3. QED BY <2>2 DEF Once!vars
<1>2. CASE Submit
  <2>1. spawned = {} /\ spawned' = {} /\ owner' = owner /\ \A n \in Nonces : owner[n] = NoCall
    BY <1>2 DEF NonceInv, Typed, Submit, histVars
  <2>2. kept' = kept /\ acted' = acted
    BY <2>1
  <2>3. QED BY <2>2 DEF Once!vars
<1>3. ASSUME NEW c \in Calls, NEW m, NEW l, MarkTo(c, m, l), l = "revalidate",
             Kept(Nonce(c)) => owner[Nonce(c)] = NoCall, Nonce(c) \in Nonces
      PROVE  [Once!Next]_(Once!vars)
  <2>1. owner' = [owner EXCEPT ![Nonce(c)] = c] /\ UNCHANGED <<plan, spawned>>
    BY <1>3 DEF MarkTo
  <2>2. /\ \A n \in Nonces : Kept(n)' <=> Kept(n)
        /\ \A d : Nonce(d)' = Nonce(d) /\ (RequiresNonce(plan[d])' <=> RequiresNonce(plan[d]))
        /\ \A d : Kept(Nonce(d))' <=> Kept(Nonce(d))
    BY <2>1 DEF Kept, NewDirectory, Nonce, RequiresNonce
  <2>3. acted' = acted
    BY <2>1, <2>2
  <2>4. owner' \in [Nonces -> Calls \cup {NoCall}] /\ owner \in [Nonces -> Calls \cup {NoCall}]
    BY <1>3, <2>1 DEF NonceInv, Typed
  <2>5. CASE ~Kept(Nonce(c))
    <3>1. kept' = kept
      BY <2>1, <2>2, <2>4, <2>5
    <3>2. QED BY <2>3, <3>1 DEF Once!vars
  <2>6. CASE Kept(Nonce(c))
    <3>1. kept' = [kept EXCEPT ![Nonce(c)] = c] /\ kept[Nonce(c)] = NoCall
      BY <1>3, <2>1, <2>2, <2>4, <2>6
    <3>2. ASSUME NEW n \in Nonces, n = Nonce(c) PROVE Once!Claim(c, n)
      BY <2>3, <3>1, <3>2 DEF Once!Claim
    <3>3. QED BY <1>3, <3>2 DEF Once!Next
  <2>7. QED BY <2>5, <2>6
<1>4. ASSUME NEW c \in Calls,
             TrustedConsume(c) \/ CreateMarker(c) \/ WriteMarker(c) \/ UnlinkMarker(c) \/ SyncDirectory(c)
      PROVE  [Once!Next]_(Once!vars)
  <2>1. Nonce(c) \in Nonces
    BY <1>4, NonceTyped DEF NonceInv, Typed, TrustedConsume, CreateMarker, WriteMarker, UnlinkMarker, SyncDirectory
  <2>2. PICK m, l : /\ MarkTo(c, m, l)
                    /\ l = "revalidate" => markers[Nonce(c)] = "none" \/ Marking(c)
    BY <1>4 DEF TrustedConsume, CreateMarker, WriteMarker, UnlinkMarker, SyncDirectory, Marking
  <2>3. l = "revalidate" => (Kept(Nonce(c)) => owner[Nonce(c)] = NoCall)
    BY <2>1, <2>2 DEF NonceInv, Lasting
  <2>4. CASE l = "revalidate"
    BY <1>3, <2>1, <2>2, <2>3, <2>4
  <2>5. CASE l # "revalidate"
    BY <1>1, <2>2, <2>5 DEF MarkTo
  <2>6. QED BY <2>4, <2>5
<1>5. ASSUME NEW c \in Calls, Spawn(c), spawned' # spawned
      PROVE  [Once!Next]_(Once!vars)
  <2>1. spawned' = spawned \cup {c} /\ c \notin spawned /\ UNCHANGED <<owner, plan>> /\ Admitted(c) /\ plan # NoPlans
    BY <1>5 DEF Spawn, Admitted, NonceInv
  <2>2. /\ \A n \in Nonces : Kept(n)' <=> Kept(n)
        /\ \A d : Nonce(d)' = Nonce(d) /\ (RequiresNonce(plan[d])' <=> RequiresNonce(plan[d]))
        /\ \A d : Kept(Nonce(d))' <=> Kept(Nonce(d))
    BY <2>1 DEF Kept, NewDirectory, Nonce, RequiresNonce
  <2>3. kept' = kept
    BY <2>1, <2>2
  <2>4. CASE ~(RequiresNonce(plan[c]) /\ Kept(Nonce(c)))
    <3>1. acted' = acted
      BY <2>1, <2>2, <2>4
    <3>2. QED BY <2>3, <3>1 DEF Once!vars
  <2>5. CASE RequiresNonce(plan[c]) /\ Kept(Nonce(c))
    <3>1. owner[Nonce(c)] = c /\ Nonce(c) \in Nonces
      BY <2>1, <2>5, NonceTyped DEF NonceInv, Typed
    <3>2. kept[Nonce(c)] = c
      BY <2>5, <3>1
    <3>3. acted' = acted \cup {<<c, Nonce(c)>>}
      BY <2>1, <2>2, <2>5
    <3>4. <<c, Nonce(c)>> \notin acted
      BY <2>1
    <3>5. ASSUME NEW n \in Nonces, n = Nonce(c) PROVE Once!Act(c, n)
      BY <2>3, <3>2, <3>3, <3>4, <3>5 DEF Once!Act
    <3>6. QED BY <3>1, <3>5 DEF Once!Next
  <2>6. QED BY <2>4, <2>5
<1>6. ASSUME NEW c \in Calls,
             PreparePlan(c) \/ Revalidate(c) \/ Poll(c) \/ Terminate(c) \/ AwaitStop(c) \/ Join(c) \/ Crash(c)
      PROVE  UNCHANGED <<owner, plan, spawned>>
  BY <1>6 DEF PreparePlan, Revalidate, Poll, Watch, Terminate, AwaitStop, Signalled, Join, Crash, histVars
<1>7. ASSUME NEW c \in Calls,
             Inspect(c) \/ Seal(c) \/ Exec(c) \/ Payload(c) \/ RuntimeMax(c) \/ ClientDies(c)
      PROVE  UNCHANGED <<owner, plan, spawned>>
  BY <1>7 DEF Inspect, Seal, Exec, Payload, RuntimeMax, ClientDies, UnitStep, callVars
<1>8. Tick \/ Edit \/ PowerLoss \/ UNCHANGED vars => UNCHANGED <<owner, plan, spawned>>
  BY DEF Tick, Edit, PowerLoss, vars, callVars, histVars
<1>9. ASSUME NEW c \in Calls, Spawn(c), spawned' = spawned PROVE UNCHANGED <<owner, plan, spawned>>
  BY <1>9 DEF Spawn
<1>10. QED BY <1>1, <1>2, <1>4, <1>5, <1>6, <1>7, <1>8, <1>9 DEF Next, CallStep

\* A nonce that is kept (the directory of its markers is not new, or only production calls use
\* it) is consumed by one call, whatever crashes and whatever of the markers a power loss
\* takes, and only that call spawns commands of a replay-sensitive plan.
THEOREM RunnerIsSingleUse == RunnerAssumption => (Spec => ImplementsSingleUse)
<1> SUFFICES ASSUME RunnerAssumption PROVE Spec => ImplementsSingleUse
  OBVIOUS
<1>1. Init => Once!Init
  <2> SUFFICES ASSUME Init PROVE Once!Init
    OBVIOUS
  <2>1. \A n \in Nonces : owner[n] = NoCall
    BY DEF Init
  <2>2. QED BY <2>1 DEF Init, Once!Init
<1>2. Init => NonceInv
  BY InitNonceInv
<1>3. NonceInv /\ [Next]_vars => NonceInv' /\ [Once!Next]_(Once!vars)
  BY NextNonceInv, StepImplements
<1>4. QED BY <1>1, <1>2, <1>3, PTL DEF Spec, ImplementsSingleUse, Once!Spec

-----------------------------------------------------------------------------
\* Receipts, units and what they run.

UnitType == [phase : {"none", "starting", "inspected", "sealed", "running", "ended"},
             image : {0, 1}, code : {0, 1}, flood : BOOLEAN, client : {"up", "dead"}, until : Time]
ReceiptType == [exit : {-1, 0, 1}, timedOut : BOOLEAN, flooded : BOOLEAN]

\* The call watches a unit.
Watching(c) == pc[c] \in {"poll", "term", "kill", "await", "join"}

\* What a command receipt claims of the i-th command of the call.
Claimed(r) == r.exit = 0 /\ ~r.timedOut

\* There is a receipt for each command the call is past, and for the one it is at
\* when it returned.
Receipts(c) ==
  /\ receipt[c] \in Seq(ReceiptType)
  /\ Len(receipt[c]) = IF pc[c] = "returned" THEN at[c] ELSE at[c] - 1
  /\ \A i \in DOMAIN receipt[c] : Claimed(receipt[c][i]) => i \in done[c]
  /\ done[c] \subseteq 1..at[c] /\ 1..(at[c] - 1) \subseteq done[c]
  /\ status[c] = "IMPLEMENTED" => pc[c] = "returned" /\ at[c] = Len(plan[c].commands) /\ at[c] \in done[c]

\* A unit is alive only while it is watched or its call has ended; an end with 0
\* is that of the command the call is at; the watch ends with the unit or its client.
Units(c) ==
  /\ Alive(c) => Watching(c) \/ pc[c] \in Final
  /\ Watching(c) => unit[c].phase # "none" /\ (~Alive(c) /\ unit[c].code = 0 => at[c] \in done[c])
  /\ pc[c] \in {"join", "returned"} => Polled(c)
  /\ unit[c].phase \in {"sealed", "running"} => unit[c].image = identity[c].content

\* A call that was prepared, and what it left behind, is of admitted commands.
Preparations(c) ==
  pc[c] \notin {"start"} \cup Final \/ Alive(c) =>
    \A i \in DOMAIN plan[c].commands : Prepared(plan[c].commands[i], plan[c].grant, plan[c].strict)

CallInv(c) ==
  /\ plan = NoPlans => pc[c] = "start"
  /\ pc[c] = "start" => at[c] = 1
  /\ Receipts(c) /\ Units(c) /\ Preparations(c)

TypeInv ==
  TypeOK /\ at \in [Calls -> Nat] /\ receipt \in [Calls -> Seq(ReceiptType)]

RunnerInv == TypeInv /\ \A c \in Calls : CallInv(c)

\* The step changes nothing of the other calls.
OnlyOf(c) == \A d \in Calls \ {c} :
  /\ pc'[d] = pc[d] /\ at'[d] = at[d] /\ identity'[d] = identity[d] /\ unit'[d] = unit[d]
  /\ receipt'[d] = receipt[d] /\ status'[d] = status[d] /\ done'[d] = done[d]

\* What is typed of one call.
LEMMA CallTyped ==
  ASSUME RunnerAssumption, TypeInv, NEW c \in Calls
  PROVE  /\ unit[c] \in UnitType /\ now \in Nat /\ now \in Time /\ deadline[c] \in Time /\ Time \subseteq Nat
         /\ pc[c] \in Points /\ done[c] \subseteq Nat /\ identity[c] \in Files
         /\ disk \in Files /\ \A f \in Files : f \in [meta : {0, 1}, content : {0, 1}]
         /\ plan # NoPlans => /\ plan \in Workloads /\ plan[c].commands \in Seq(Command)
                              /\ Len(plan[c].commands) \in Nat \ {0} /\ plan[c].timeout \in Nat
                              /\ at[c] \in 1..Len(plan[c].commands) /\ at[c] \in Nat \ {0}
                              /\ DOMAIN plan[c].commands = 1..Len(plan[c].commands)
<1>1. Time \subseteq Nat
  BY DEF RunnerAssumption, Time
<1>2. ASSUME plan # NoPlans
      PROVE  /\ plan \in Workloads /\ plan[c].commands \in Seq(Command)
             /\ Len(plan[c].commands) \in Nat \ {0} /\ plan[c].timeout \in Nat
             /\ at[c] \in 1..Len(plan[c].commands) /\ at[c] \in Nat \ {0}
             /\ DOMAIN plan[c].commands = 1..Len(plan[c].commands)
  <2>1. plan \in Workloads /\ at[c] \in DOMAIN plan[c].commands
    BY <1>2 DEF TypeInv, TypeOK
  <2>2. plan[c].commands \in Seq(Command) /\ Len(plan[c].commands) > 0 /\ plan[c].timeout \in Nat
    BY <2>1 DEF RunnerAssumption
  <2>3. DOMAIN plan[c].commands = 1..Len(plan[c].commands) /\ Len(plan[c].commands) \in Nat
    BY <2>2
  <2>4. QED BY <2>1, <2>2, <2>3
<1>3. QED BY <1>1, <1>2 DEF TypeInv, TypeOK, UnitType, Points, RunnerAssumption

\* A step of one call keeps the invariant if it does for that call.
LEMMA CallFrame ==
  ASSUME RunnerInv, NEW c \in Calls, OnlyOf(c), UNCHANGED plan, TypeInv', CallInv(c)'
  PROVE  RunnerInv'
<1> SUFFICES ASSUME NEW d \in Calls, d # c PROVE CallInv(d)'
  BY DEF RunnerInv
<1>1. CallInv(d)
  BY DEF RunnerInv
<1>2. /\ pc'[d] = pc[d] /\ at'[d] = at[d] /\ identity'[d] = identity[d] /\ unit'[d] = unit[d]
      /\ receipt'[d] = receipt[d] /\ status'[d] = status[d] /\ done'[d] = done[d]
  BY DEF OnlyOf
<1>3. (Alive(d)' <=> Alive(d)) /\ (Watching(d)' <=> Watching(d)) /\ (Polled(d)' <=> Polled(d))
  BY <1>2 DEF Alive, Watching, Polled
<1>4. Receipts(d)' /\ Units(d)' /\ Preparations(d)'
  BY <1>1, <1>2, <1>3 DEF CallInv, Receipts, Units, Preparations
<1>5. QED BY <1>1, <1>2, <1>4 DEF CallInv

\* A call that goes on at l, with nothing else changed that the invariant looks at.
LEMMA GoKeeps ==
  ASSUME RunnerInv, NEW c \in Calls, NEW l \in Points, To(c, l),
         UNCHANGED <<plan, at, receipt, status, unit, done>>,
         now' \in Time, disk' \in Files, markers' \in [Nonces -> Marker],
         owner' \in [Nonces -> Calls \cup {NoCall}], spawned' \subseteq Calls,
         identity' \in [Calls -> Files], deadline' \in [Calls -> Time],
         flags' \in [Calls -> [timedOut : BOOLEAN, cleanup : BOOLEAN]],
         identity' = identity \/ (pc[c] = "start" /\ \A d \in Calls \ {c} : identity'[d] = identity[d]),
         plan # NoPlans, l \notin {"start", "returned"}, pc[c] # "returned",
         Alive(c) => pc[c] # "start" /\ l \in {"poll", "term", "kill", "await", "join"} \cup Final,
         l \in {"poll", "term", "kill", "await", "join"} => Watching(c),
         l = "join" => Polled(c),
         pc[c] # "start" \/ l \in Final \/ \A i \in DOMAIN plan[c].commands : Prepared(plan[c].commands[i], plan[c].grant, plan[c].strict),
         pc[c] \in Final => l \in Final
  PROVE  RunnerInv'
<1>1. TypeInv /\ TypeOK /\ CallInv(c)
  BY DEF RunnerInv, TypeInv
<1>2. /\ pc' = [pc EXCEPT ![c] = l] /\ pc'[c] = l /\ \A d \in Calls \ {c} : pc'[d] = pc[d]
  BY <1>1 DEF To, TypeOK
<1>3. TypeInv'
  <2>1. pc' \in [Calls -> Points]
    BY <1>1, <1>2 DEF TypeOK, Points
  <2>2. QED BY <1>1, <2>1 DEF TypeInv, TypeOK, Points
<1>4. OnlyOf(c)
  BY <1>2 DEF OnlyOf
<1>5. (Alive(c)' <=> Alive(c)) /\ (Polled(c)' <=> Polled(c)) /\ (Watching(c)' => Watching(c))
  BY <1>2 DEF Alive, Polled, Watching
<1>6. Alive(c) => Watching(c)' \/ l \in Final
  BY <1>2 DEF Watching
<1>7. unit[c].phase \in {"sealed", "running"} => Alive(c)
  BY DEF Alive
<1>8. Receipts(c)'
  BY <1>1, <1>2 DEF CallInv, Receipts
<1>9. Units(c)'
  BY <1>1, <1>2, <1>5, <1>6, <1>7 DEF CallInv, Units
<1>10. Preparations(c)'
  BY <1>1, <1>2, <1>5 DEF CallInv, Preparations
<1>11. CallInv(c)'
  BY <1>2, <1>8, <1>9, <1>10 DEF CallInv
<1>12. QED BY <1>3, <1>4, <1>11, CallFrame

\* Appending to a sequence.
LEMMA Appended ==
  ASSUME NEW S, NEW s \in Seq(S), NEW x \in S
  PROVE  /\ Append(s, x) \in Seq(S) /\ Len(Append(s, x)) = Len(s) + 1
         /\ \A i \in DOMAIN Append(s, x) : (i \in DOMAIN s /\ Append(s, x)[i] = s[i]) \/ (i = Len(s) + 1 /\ Append(s, x)[i] = x)
<1>1. Append(s, x) \in Seq(S) /\ Len(Append(s, x)) = Len(s) + 1
  BY AppendProperties
<1>2. Len(s) \in Nat /\ DOMAIN s = 1..Len(s) /\ DOMAIN Append(s, x) = 1..(Len(s) + 1)
  BY <1>1, LenProperties
<1>3. \A i \in 1..(Len(s) + 1) : i \in 1..Len(s) \/ i = Len(s) + 1
  BY <1>2
<1>4. \A i \in 1..Len(s) : Append(s, x)[i] = s[i]
  BY AppendProperties
<1>5. Append(s, x)[Len(s) + 1] = x
  BY AppendProperties
<1> DEFINE t == Append(s, x)
<1>6. /\ t \in Seq(S) /\ Len(t) = Len(s) + 1 /\ DOMAIN t = 1..(Len(s) + 1)
      /\ \A i \in 1..Len(s) : t[i] = s[i]
      /\ t[Len(s) + 1] = x
  BY <1>1, <1>2, <1>4, <1>5
<1> HIDE DEF t
<1>7. ASSUME NEW i \in 1..(Len(s) + 1)
      PROVE  (i \in 1..Len(s) /\ t[i] = s[i]) \/ (i = Len(s) + 1 /\ t[i] = x)
  <2>1. CASE i \in 1..Len(s)
    BY <1>6, <2>1
  <2>2. CASE i = Len(s) + 1
    BY <1>6, <2>2
  <2>3. QED BY <1>3, <2>1, <2>2
<1>8. \A i \in DOMAIN t : (i \in DOMAIN s /\ t[i] = s[i]) \/ (i = Len(s) + 1 /\ t[i] = x)
  BY <1>2, <1>6, <1>7
<1>9. QED BY <1>6, <1>8 DEF t

\* A call that records a receipt goes on with the next command, or returns.
LEMMA RecordKeeps ==
  ASSUME RunnerAssumption, RunnerInv, NEW c \in Calls, NEW r \in ReceiptType, Record(c, r),
         UNCHANGED <<now, disk, markers, plan, identity, done, owner>>, spawned' \subseteq Calls,
         deadline' \in [Calls -> Time], flags' \in [Calls -> [timedOut : BOOLEAN, cleanup : BOOLEAN]],
         unit' \in [Calls -> UnitType], \A d \in Calls \ {c} : unit'[d] = unit[d],
         Alive(c)' => unit'[c] = unit[c],
         pc[c] \in {"revalidate", "spawn", "join"}, plan # NoPlans,
         Claimed(r) => at[c] \in done[c] /\ ~Alive(c)', Polled(c)'
  PROVE  RunnerInv'
<1>1. TypeInv /\ TypeOK /\ CallInv(c) /\ Receipts(c) /\ Units(c) /\ Preparations(c)
  BY DEF RunnerInv, CallInv, TypeInv
<1>2. /\ at[c] \in Nat \ {0} /\ at[c] \in 1..Len(plan[c].commands) /\ Len(plan[c].commands) \in Nat \ {0}
      /\ DOMAIN plan[c].commands = 1..Len(plan[c].commands)
  BY <1>1, CallTyped
<1> DEFINE ok == r.exit = 0 /\ ~r.timedOut /\ ~r.flooded
           last == at[c] = Len(plan[c].commands)
<1>3. /\ pc \in [Calls -> Points] /\ status \in [Calls -> {"NONE", "IMPLEMENTED", "FAILED"}]
      /\ at \in [Calls -> Nat] /\ receipt \in [Calls -> Seq(ReceiptType)] /\ receipt[c] \in Seq(ReceiptType)
      /\ \A d \in Calls : at[d] \in DOMAIN plan[d].commands
  BY <1>1 DEF TypeInv, TypeOK, Points
<1>4. CASE ok /\ ~last
  <2>1. /\ receipt' = [receipt EXCEPT ![c] = Append(receipt[c], r)]
        /\ at' = [at EXCEPT ![c] = at[c] + 1] /\ status' = status /\ To(c, "revalidate")
    BY <1>3, <1>4 DEF Record
  <2>2. /\ receipt'[c] = Append(receipt[c], r) /\ at'[c] = at[c] + 1 /\ pc'[c] = "revalidate"
        /\ receipt' \in [Calls -> Seq(ReceiptType)] /\ at' \in [Calls -> Nat] /\ pc' \in [Calls -> Points]
    BY <1>2, <1>3, <2>1 DEF To, Points
  <2>3. at'[c] \in 1..Len(plan[c].commands)
    BY <1>2, <1>4, <2>2
  <2>4. OnlyOf(c)
    BY <1>3, <2>1 DEF OnlyOf, To
  <2>5. TypeInv'
    <3>1. \A d \in Calls : at'[d] \in DOMAIN plan[d].commands
      BY <1>2, <1>3, <2>3, <2>4 DEF OnlyOf
    <3>2. QED BY <1>1, <2>1, <2>2, <3>1 DEF TypeInv, TypeOK, UnitType, Points
  <2>6. ~Alive(c)' /\ at[c] \in done[c] /\ Claimed(r)
    BY <1>4 DEF Claimed
  <2>7. Receipts(c)'
    <3>1. /\ receipt'[c] \in Seq(ReceiptType) /\ Len(receipt'[c]) = at'[c] - 1
          /\ \A i \in DOMAIN receipt'[c] : (i \in DOMAIN receipt[c] /\ receipt'[c][i] = receipt[c][i]) \/ i = at[c]
      BY <1>1, <1>2, <1>3, <2>2 DEF Receipts
    <3>2. done[c] \subseteq 1..at'[c] /\ 1..(at'[c] - 1) \subseteq done[c]
      BY <1>1, <1>2, <2>2, <2>6 DEF Receipts
    <3>3. status[c] # "IMPLEMENTED"
      BY <1>1 DEF Receipts
    <3>4. QED BY <1>1, <2>1, <2>2, <2>6, <3>1, <3>2, <3>3 DEF Receipts
  <2>8. Units(c)'
    BY <2>2, <2>6 DEF Units, Watching, Alive
  <2>9. Preparations(c)'
    BY <1>1, <2>2 DEF Preparations, Final
  <2>10. CallInv(c)'
    BY <2>2, <2>7, <2>8, <2>9 DEF CallInv
  <2>11. QED BY <2>4, <2>5, <2>10, CallFrame
<1>5. CASE ~(ok /\ ~last)
  <2> DEFINE v == IF ok THEN "IMPLEMENTED" ELSE "FAILED"
  <2>1. /\ receipt' = [receipt EXCEPT ![c] = Append(receipt[c], r)]
        /\ at' = at /\ status' = [status EXCEPT ![c] = v] /\ To(c, "returned")
    BY <1>3, <1>5 DEF Record
  <2>2. /\ receipt'[c] = Append(receipt[c], r) /\ at'[c] = at[c] /\ pc'[c] = "returned" /\ status'[c] = v
        /\ receipt' \in [Calls -> Seq(ReceiptType)] /\ pc' \in [Calls -> Points]
        /\ status' \in [Calls -> {"NONE", "IMPLEMENTED", "FAILED"}]
    BY <1>3, <2>1 DEF To, Points, Final
  <2>3. OnlyOf(c)
    BY <1>3, <2>1 DEF OnlyOf, To
  <2>4. TypeInv'
    BY <1>1, <2>1, <2>2 DEF TypeInv, TypeOK, UnitType, Points
  <2>5. Receipts(c)'
    <3>1. Len(receipt[c]) = at[c] - 1 /\ at'[c] = at[c]
      BY <1>1, <2>2 DEF Receipts
    <3>2. /\ receipt'[c] \in Seq(ReceiptType) /\ Len(receipt'[c]) = at'[c]
          /\ \A i \in DOMAIN receipt'[c] :
               (i \in DOMAIN receipt[c] /\ receipt'[c][i] = receipt[c][i]) \/ (i = at[c] /\ receipt'[c][i] = r)
      BY <1>2, <1>3, <2>2, <3>1, Appended
    <3>3. v = "IMPLEMENTED" => last /\ at[c] \in done[c]
      BY <1>5 DEF Claimed
    <3>4. QED BY <1>1, <2>2, <3>2, <3>3 DEF Receipts
  <2>6. Alive(c)' => unit'[c] = unit[c] /\ Alive(c)
    BY DEF Alive
  <2>7. Units(c)'
    <3>1. unit'[c].phase \in {"sealed", "running"} => Alive(c)'
      BY DEF Alive
    <3>2. QED BY <1>1, <2>2, <2>6, <3>1 DEF Units, Watching, Final, Alive
  <2>8. Preparations(c)'
    BY <1>1, <2>2, <2>6 DEF Preparations, Final
  <2>9. CallInv(c)'
    BY <2>2, <2>5, <2>7, <2>8 DEF CallInv, Receipts
  <2>10. QED BY <2>3, <2>4, <2>9, CallFrame
<1>6. QED BY <1>4, <1>5

\* A step of a live unit, with which the call may go on at l.
LEMMA UnitKeeps ==
  ASSUME RunnerAssumption, RunnerInv, NEW c \in Calls, Alive(c), NEW u \in UnitType, NEW l \in Points, To(c, l),
         unit' = [unit EXCEPT ![c] = u],
         UNCHANGED <<now, disk, markers, plan, at, identity, deadline, flags, receipt, status, owner, spawned>>,
         l = pc[c] \/ (Watching(c) /\ l \in {"kill", "await", "join"}),
         u.phase # "none", u.phase \in {"sealed", "running"} => u.image = identity[c].content,
         unit[c].client = "dead" => u.client = "dead",
         l = "join" => u.phase = "ended" \/ u.client = "dead",
         \/ done' = done /\ (u.phase = "ended" => u.code = 1)
         \/ done' = [done EXCEPT ![c] = done[c] \cup {at[c]}] /\ u.phase = "ended"
  PROVE  RunnerInv'
<1>1. TypeInv /\ TypeOK /\ CallInv(c) /\ Receipts(c) /\ Units(c) /\ Preparations(c)
  BY DEF RunnerInv, CallInv, TypeInv
<1>2. (Watching(c) \/ pc[c] \in Final) /\ pc[c] # "start" /\ plan # NoPlans
  BY <1>1 DEF Units, CallInv, Watching, Final
<1>3. /\ at[c] \in Nat \ {0} /\ at[c] \in 1..Len(plan[c].commands) /\ done[c] \subseteq Nat
      /\ DOMAIN plan[c].commands = 1..Len(plan[c].commands)
  BY <1>1, <1>2, CallTyped
<1>4. /\ pc' = [pc EXCEPT ![c] = l] /\ pc'[c] = l /\ \A d \in Calls \ {c} : pc'[d] = pc[d]
      /\ unit'[c] = u /\ \A d \in Calls \ {c} : unit'[d] = unit[d]
      /\ pc' \in [Calls -> Points] /\ unit' \in [Calls -> UnitType]
  BY <1>1 DEF To, TypeOK, Points, UnitType
<1>5. /\ done' \in [Calls -> SUBSET Nat] /\ done[c] \subseteq done'[c] /\ done'[c] \subseteq done[c] \cup {at[c]}
      /\ (u.phase = "ended" => u.code = 1 \/ at[c] \in done'[c])
      /\ \A d \in Calls \ {c} : done'[d] = done[d]
  <2>1. done \in [Calls -> SUBSET Nat]
    BY <1>1 DEF TypeOK
  <2>2. CASE done' = done /\ (u.phase = "ended" => u.code = 1)
    BY <2>1, <2>2
  <2>3. CASE done' = [done EXCEPT ![c] = done[c] \cup {at[c]}]
    <3>1. done[c] \cup {at[c]} \in SUBSET Nat
      BY <1>3
    <3>2. QED BY <2>1, <2>3, <3>1
  <2>4. QED BY <2>2, <2>3
<1>6. OnlyOf(c)
  BY <1>4, <1>5 DEF OnlyOf
<1>7. TypeInv'
  BY <1>1, <1>4, <1>5 DEF TypeInv, TypeOK, UnitType, Points
<1>8. Receipts(c)'
  <2>1. pc'[c] = "returned" <=> pc[c] = "returned"
    BY <1>4 DEF Watching
  <2>2. done'[c] \subseteq 1..at[c] /\ 1..(at[c] - 1) \subseteq done'[c]
    BY <1>1, <1>3, <1>5 DEF Receipts
  <2>3. QED BY <1>1, <1>5, <2>1, <2>2 DEF Receipts
<1>9. Units(c)'
  <2>1. Polled(c)' <=> (u.phase = "ended" \/ u.client = "dead")
    BY <1>4 DEF Polled, Alive, UnitType
  <2>2. Polled(c) <=> unit[c].client = "dead"
    BY DEF Polled
  <2>3. Watching(c)' \/ pc'[c] \in Final
    BY <1>2, <1>4 DEF Watching
  <2>4. ~Alive(c)' /\ unit'[c].code = 0 => at[c] \in done'[c]
    BY <1>4, <1>5 DEF Alive, UnitType
  <2>5. pc'[c] \in {"join", "returned"} => Polled(c)'
    BY <1>1, <1>4, <2>1, <2>2 DEF Units, Watching
  <2>6. QED BY <1>4, <2>3, <2>4, <2>5 DEF Units
<1>10. Preparations(c)'
  BY <1>1, <1>4 DEF Preparations
<1>11. CallInv(c)'
  BY <1>2, <1>4, <1>8, <1>9, <1>10 DEF CallInv, Watching
<1>12. QED BY <1>6, <1>7, <1>11, CallFrame

\* The end of a unit, other than by itself.
LEMMA EndedUnit ==
  ASSUME RunnerAssumption, RunnerInv, NEW c \in Calls, NEW k \in {0, 1}, End(c, k)
  PROVE  \E u \in UnitType : /\ unit' = [unit EXCEPT ![c] = u] /\ u.phase = "ended" /\ u.code = k
                             /\ u.client = unit[c].client /\ u.image = unit[c].image
<1>1. unit \in [Calls -> UnitType] /\ unit[c] \in UnitType
  BY DEF RunnerInv, TypeInv, TypeOK, UnitType
<1> DEFINE u == [unit[c] EXCEPT !.phase = "ended", !.code = k]
<1>2. u \in UnitType /\ u.phase = "ended" /\ u.code = k /\ u.client = unit[c].client /\ u.image = unit[c].image
  BY <1>1 DEF UnitType
<1>3. unit' = [unit EXCEPT ![c] = u]
  BY <1>1 DEF End
<1> HIDE DEF u
<1>4. QED BY <1>2, <1>3

\* A unit that is ended while its call goes on at l.
LEMMA EndKeeps ==
  ASSUME RunnerAssumption, RunnerInv, NEW c \in Calls, Alive(c), End(c, 1), NEW l \in Points, To(c, l),
         UNCHANGED <<now, disk, markers, plan, at, identity, deadline, flags, receipt, status, owner, spawned, done>>,
         l = pc[c] \/ (Watching(c) /\ l \in {"kill", "await", "join"})
  PROVE  RunnerInv'
<1>1. PICK u \in UnitType : /\ unit' = [unit EXCEPT ![c] = u] /\ u.phase = "ended" /\ u.code = 1
                            /\ u.client = unit[c].client /\ u.image = unit[c].image
  BY EndedUnit
<1>2. QED BY <1>1, UnitKeeps

\* The steps inside a unit and of its client.
LEMMA InsideKeeps ==
  ASSUME RunnerAssumption, RunnerInv, NEW c \in Calls,
         Inspect(c) \/ Seal(c) \/ Exec(c) \/ Payload(c) \/ RuntimeMax(c) \/ ClientDies(c)
  PROVE  RunnerInv'
<1>1. Alive(c) /\ UNCHANGED <<now, disk, markers, plan, pc, at, identity, deadline, flags, receipt, status, owner, spawned>>
  BY DEF Inspect, Seal, Exec, Payload, RuntimeMax, ClientDies, Alive, UnitStep, clockVars, callVars
<1>2. /\ pc \in [Calls -> Points] /\ pc[c] \in Points /\ unit \in [Calls -> UnitType] /\ unit[c] \in UnitType
      /\ disk.content \in {0, 1} /\ identity[c].content \in {0, 1} /\ Units(c) /\ done \in [Calls -> SUBSET Nat]
  BY CallTyped DEF RunnerInv, TypeInv, TypeOK, Points, UnitType, CallInv
<1>3. To(c, pc[c])
  BY <1>1, <1>2 DEF To
<1>4. ASSUME NEW u \in UnitType, unit' = [unit EXCEPT ![c] = u], UNCHANGED done,
             u.phase \in {"inspected", "sealed", "running", "starting"},
             u.phase \in {"sealed", "running"} => u.image = identity[c].content,
             unit[c].client = "dead" => u.client = "dead"
      PROVE  RunnerInv'
  <2>1. pc[c] = "join" => unit[c].client = "dead"
    BY <1>1, <1>2 DEF Units, Polled
  <2>2. QED BY <1>1, <1>2, <1>3, <1>4, <2>1, UnitKeeps
<1>5. CASE End(c, 1) /\ UNCHANGED done
  BY <1>1, <1>2, <1>3, <1>5, EndKeeps
<1>6. CASE Inspect(c) /\ ~End(c, 1)
  <2> DEFINE u == [unit[c] EXCEPT !.phase = "inspected", !.image = disk.content]
  <2>1. unit' = [unit EXCEPT ![c] = u] /\ UNCHANGED done
    BY <1>2, <1>6 DEF Inspect
  <2>2. u \in UnitType /\ u.phase = "inspected" /\ u.client = unit[c].client
    BY <1>2 DEF UnitType
  <2> HIDE DEF u
  <2>3. QED BY <1>4, <2>1, <2>2
<1>7. CASE Seal(c) /\ ~End(c, 1)
  <2>1. PICK k \in {unit[c].image, disk.content} :
          k = identity[c].content /\ unit' = [unit EXCEPT ![c].phase = "sealed", ![c].image = k]
    BY <1>7 DEF Seal
  <2> DEFINE u == [unit[c] EXCEPT !.phase = "sealed", !.image = k]
  <2>2. unit' = [unit EXCEPT ![c] = u] /\ UNCHANGED done
    BY <1>2, <1>7, <2>1 DEF Seal
  <2>3. u \in UnitType /\ u.phase = "sealed" /\ u.client = unit[c].client /\ u.image = identity[c].content
    BY <1>2, <2>1 DEF UnitType
  <2> HIDE DEF u
  <2>4. QED BY <1>4, <2>2, <2>3
<1>8. CASE Exec(c) /\ ~End(c, 1)
  <2> DEFINE u == [unit[c] EXCEPT !.phase = "running"]
  <2>1. unit' = [unit EXCEPT ![c] = u] /\ UNCHANGED done /\ unit[c].phase = "sealed"
    BY <1>2, <1>8 DEF Exec
  <2>2. u \in UnitType /\ u.phase = "running" /\ u.client = unit[c].client /\ u.image = unit[c].image
    BY <1>2 DEF UnitType
  <2>3. unit[c].image = identity[c].content
    BY <1>2, <2>1 DEF Units
  <2> HIDE DEF u
  <2>4. QED BY <1>4, <2>1, <2>2, <2>3
<1>9. CASE Payload(c)
  <2>1. CASE End(c, 0) /\ done' = [done EXCEPT ![c] = @ \cup {at[c]}]
    <3>1. PICK u \in UnitType : /\ unit' = [unit EXCEPT ![c] = u] /\ u.phase = "ended" /\ u.code = 0
                                /\ u.client = unit[c].client /\ u.image = unit[c].image
      BY <2>1, EndedUnit
    <3>2. done' = [done EXCEPT ![c] = done[c] \cup {at[c]}]
      BY <1>2, <2>1
    <3>3. QED BY <1>1, <1>2, <1>3, <3>1, <3>2, UnitKeeps
  <2>2. CASE unit' = [unit EXCEPT ![c].flood = TRUE] /\ UNCHANGED done
    <3> DEFINE u == [unit[c] EXCEPT !.flood = TRUE]
    <3>1. unit' = [unit EXCEPT ![c] = u] /\ unit[c].phase = "running"
      BY <1>2, <1>9, <2>2 DEF Payload
    <3>2. u \in UnitType /\ u.phase = "running" /\ u.client = unit[c].client /\ u.image = unit[c].image
      BY <1>2, <3>1 DEF UnitType
    <3>3. unit[c].image = identity[c].content
      BY <1>2, <3>1 DEF Units
    <3> HIDE DEF u
    <3>4. QED BY <1>4, <2>2, <3>1, <3>2, <3>3
  <2>3. QED BY <1>5, <1>9, <2>1, <2>2 DEF Payload
<1>10. CASE ClientDies(c)
  <2> DEFINE u == [unit[c] EXCEPT !.client = "dead"]
  <2>1. unit' = [unit EXCEPT ![c] = u] /\ UNCHANGED done
    BY <1>2, <1>10 DEF ClientDies
  <2>2. u \in UnitType /\ u.phase = unit[c].phase /\ u.client = "dead" /\ u.image = unit[c].image
    BY <1>2 DEF UnitType
  <2>3. unit[c].phase \in {"sealed", "running"} => unit[c].image = identity[c].content
    BY <1>2 DEF Units
  <2> HIDE DEF u
  <2>4. QED BY <1>1, <1>4, <2>1, <2>2, <2>3 DEF Alive
<1>11. QED BY <1>5, <1>6, <1>7, <1>8, <1>9, <1>10
  DEF Inspect, Seal, Exec, RuntimeMax

\* The steps of a call before its commands.
LEMMA AdmissionKeeps ==
  ASSUME RunnerAssumption, RunnerInv, NEW c \in Calls,
         \/ PreparePlan(c) \/ TrustedConsume(c) \/ CreateMarker(c) \/ WriteMarker(c) \/ UnlinkMarker(c)
         \/ SyncDirectory(c)
  PROVE  RunnerInv'
<1>1. TypeInv /\ TypeOK /\ CallInv(c) /\ Units(c) /\ Preparations(c)
  BY DEF RunnerInv, CallInv, TypeInv
<1>2. plan # NoPlans /\ pc[c] \notin Final /\ ~Watching(c) /\ ~Alive(c) /\ pc[c] \in Points
  BY <1>1, CallTyped
  DEF CallInv, Units, Watching, Final, PreparePlan, TrustedConsume, CreateMarker, WriteMarker, UnlinkMarker, SyncDirectory
<1>3. ASSUME NEW m \in Marker, NEW l \in {"write", "unlink", "sync", "revalidate", "raised"},
             pc[c] # "start", MarkTo(c, m, l)
      PROVE  RunnerInv'
  <2>1. /\ To(c, l) /\ l \in Points \ {"start", "returned"} /\ l \notin {"poll", "term", "kill", "await", "join"}
        /\ UNCHANGED <<now, disk, plan, at, identity, deadline, flags, receipt, status, unit, spawned, done>>
    BY <1>3 DEF MarkTo, clockVars, Points, Final
  <2>2. /\ markers' \in [Nonces -> Marker]
        /\ owner' \in [Nonces -> Calls \cup {NoCall}]
    <3>1. markers' = [markers EXCEPT ![Nonce(c)] = m]
      BY <1>3 DEF MarkTo
    <3>2. owner' = owner \/ owner' = [owner EXCEPT ![Nonce(c)] = c]
      BY <1>3 DEF MarkTo
    <3>3. QED BY <1>1, <3>1, <3>2 DEF TypeOK
  <2>3. /\ now' \in Time /\ disk' \in Files /\ spawned' \subseteq Calls /\ identity' \in [Calls -> Files]
        /\ deadline' \in [Calls -> Time] /\ flags' \in [Calls -> [timedOut : BOOLEAN, cleanup : BOOLEAN]]
    BY <1>1, <2>1 DEF TypeOK
  <2>4. QED BY <1>2, <1>3, <2>1, <2>2, <2>3, GoKeeps DEF Final
<1>4. CASE PreparePlan(c)
  <2>1. PICK l \in {"revalidate", "consume", "mark", "raised"} :
          /\ To(c, l)
          /\ \/ identity' = [identity EXCEPT ![c] = disk]
                /\ \A i \in DOMAIN plan[c].commands : Prepared(plan[c].commands[i], plan[c].grant, plan[c].strict)
             \/ l = "raised" /\ identity' = identity
    BY <1>4 DEF PreparePlan
  <2>2. /\ pc[c] = "start" /\ l \in Points \ {"start", "returned"} /\ l \notin {"poll", "term", "kill", "await", "join"}
        /\ UNCHANGED <<now, disk, markers, plan, at, deadline, flags, receipt, status, unit, owner, spawned, done>>
    BY <1>4 DEF PreparePlan, clockVars, histVars, Points, Final
  <2>3. identity' \in [Calls -> Files] /\ \A d \in Calls \ {c} : identity'[d] = identity[d]
    BY <1>1, <2>1 DEF TypeOK
  <2>4. /\ now' \in Time /\ disk' \in Files /\ spawned' \subseteq Calls
        /\ markers' \in [Nonces -> Marker] /\ owner' \in [Nonces -> Calls \cup {NoCall}]
        /\ deadline' \in [Calls -> Time] /\ flags' \in [Calls -> [timedOut : BOOLEAN, cleanup : BOOLEAN]]
    BY <1>1, <2>2 DEF TypeOK
  <2>5. QED BY <1>2, <2>1, <2>2, <2>3, <2>4, GoKeeps DEF Final
<1>5. markers[Nonce(c)] \in Marker
  <2>1. Nonce(c) \in Nonces
    BY <1>1, <1>2, NonceTyped DEF TypeOK
  <2>2. QED BY <1>1, <2>1 DEF TypeOK
<1>6. CASE TrustedConsume(c) \/ CreateMarker(c)
  <2>1. pc[c] # "start"
    BY <1>6 DEF TrustedConsume, CreateMarker
  <2>2. \E m \in Marker : \E l \in {"write", "revalidate", "raised"} : MarkTo(c, m, l)
    BY <1>5, <1>6 DEF TrustedConsume, CreateMarker, Marker
  <2>3. QED BY <1>3, <2>1, <2>2
<1>7. CASE WriteMarker(c) \/ UnlinkMarker(c) \/ SyncDirectory(c)
  <2>1. pc[c] # "start"
    BY <1>7 DEF WriteMarker, UnlinkMarker, SyncDirectory
  <2>2. \E m \in Marker : \E l \in {"sync", "unlink", "revalidate", "raised"} : MarkTo(c, m, l)
    BY <1>5, <1>7 DEF WriteMarker, UnlinkMarker, SyncDirectory, Marker
  <2>3. QED BY <1>3, <2>1, <2>2
<1>8. QED BY <1>4, <1>6, <1>7

\* The steps of a call that leave its unit alone or record that nothing ran.
LEMMA WatchKeeps ==
  ASSUME RunnerAssumption, RunnerInv, NEW c \in Calls, Poll(c) \/ AwaitStop(c) \/ Crash(c)
  PROVE  RunnerInv'
<1>1. TypeInv /\ TypeOK /\ CallInv(c) /\ Units(c) /\ Preparations(c) /\ pc[c] \in Points
  BY CallTyped DEF RunnerInv, CallInv, TypeInv
<1>2. /\ plan # NoPlans /\ pc[c] \notin {"start"} \cup Final
      /\ UNCHANGED <<now, disk, markers, plan, at, identity, deadline, receipt, status, unit, owner, spawned, done>>
  BY <1>1 DEF CallInv, Poll, Watch, AwaitStop, Signalled, Crash, Final, clockVars, histVars
<1>3. PICK l \in {"join", "term", "raised", "dead"} :
        /\ To(c, l) /\ (l \in {"join", "term"} => Watching(c)) /\ (l = "join" => Polled(c))
  BY DEF Poll, Watch, AwaitStop, Signalled, Crash, Watching
<1>4. flags' \in [Calls -> [timedOut : BOOLEAN, cleanup : BOOLEAN]]
  <2>1. \/ flags' = flags
        \/ \E f \in [timedOut : BOOLEAN, cleanup : BOOLEAN] : flags' = [flags EXCEPT ![c] = f]
    BY DEF Poll, Watch, AwaitStop, Signalled, Crash
  <2>2. QED BY <1>1, <2>1 DEF TypeOK
<1>5. /\ now' \in Time /\ disk' \in Files /\ spawned' \subseteq Calls /\ identity' \in [Calls -> Files]
      /\ markers' \in [Nonces -> Marker] /\ owner' \in [Nonces -> Calls \cup {NoCall}]
      /\ deadline' \in [Calls -> Time]
  BY <1>1, <1>2 DEF TypeOK
<1>6. l \in Points \ {"start", "returned"} /\ (l \in Final \/ l \in {"join", "term"})
  BY DEF Points, Final
<1>7. QED BY <1>1, <1>2, <1>3, <1>4, <1>5, <1>6, GoKeeps DEF Final

LEMMA TerminateKeeps ==
  ASSUME RunnerAssumption, RunnerInv, NEW c \in Calls, Terminate(c)
  PROVE  RunnerInv'
<1>1. TypeInv /\ TypeOK /\ CallInv(c) /\ Units(c) /\ Preparations(c) /\ pc[c] \in Points
  BY CallTyped DEF RunnerInv, CallInv, TypeInv
<1>2. /\ plan # NoPlans /\ pc[c] \notin {"start"} \cup Final /\ Watching(c)
      /\ UNCHANGED <<now, disk, markers, plan, at, identity, deadline, flags, receipt, status, owner, spawned, done>>
  BY <1>1 DEF CallInv, Terminate, Signalled, Final, Watching, clockVars, histVars
<1>3. PICK l \in {"join", "kill", "await"} : To(c, l) /\ (l = "join" => Polled(c)')
  BY DEF Terminate, Signalled
<1>4. CASE Alive(c) /\ End(c, 1)
  BY <1>2, <1>3, <1>4, EndKeeps DEF Points
<1>5. CASE UNCHANGED unit
  <2>1. Polled(c)' <=> Polled(c)
    BY <1>5 DEF Polled, Alive
  <2>2. /\ now' \in Time /\ disk' \in Files /\ spawned' \subseteq Calls /\ identity' \in [Calls -> Files]
        /\ markers' \in [Nonces -> Marker] /\ owner' \in [Nonces -> Calls \cup {NoCall}]
        /\ deadline' \in [Calls -> Time] /\ flags' \in [Calls -> [timedOut : BOOLEAN, cleanup : BOOLEAN]]
    BY <1>1, <1>2 DEF TypeOK
  <2>3. l \in Points \ {"start", "returned"}
    BY DEF Points, Final
  <2>4. QED BY <1>1, <1>2, <1>3, <1>5, <2>1, <2>2, <2>3, GoKeeps DEF Final
<1>6. QED BY <1>4, <1>5 DEF Terminate

LEMMA RevalidateKeeps ==
  ASSUME RunnerAssumption, RunnerInv, NEW c \in Calls, Revalidate(c)
  PROVE  RunnerInv'
<1>1. TypeInv /\ TypeOK /\ CallInv(c) /\ Units(c) /\ Preparations(c)
  BY DEF RunnerInv, CallInv, TypeInv
<1>2. /\ plan # NoPlans /\ pc[c] = "revalidate" /\ ~Alive(c) /\ Polled(c)
      /\ UNCHANGED <<now, disk, markers, plan, identity, deadline, flags, unit, owner, spawned, done>>
  BY <1>1 DEF CallInv, Units, Watching, Final, Polled, Revalidate, clockVars, histVars
<1>3. /\ now' \in Time /\ disk' \in Files /\ spawned' \subseteq Calls /\ identity' \in [Calls -> Files]
      /\ markers' \in [Nonces -> Marker] /\ owner' \in [Nonces -> Calls \cup {NoCall}]
      /\ deadline' \in [Calls -> Time] /\ flags' \in [Calls -> [timedOut : BOOLEAN, cleanup : BOOLEAN]]
      /\ unit' \in [Calls -> UnitType]
  BY <1>1, <1>2 DEF TypeOK, UnitType
<1>4. CASE To(c, "spawn") /\ UNCHANGED <<at, receipt, status>>
  BY <1>1, <1>2, <1>3, <1>4, GoKeeps DEF Points, Final
<1>5. CASE Record(c, NotRun)
  <2>1. NotRun \in ReceiptType /\ ~Claimed(NotRun)
    BY DEF NotRun, ReceiptType, Claimed
  <2>2. Polled(c)' /\ ~Alive(c)'
    BY <1>2 DEF Polled, Alive
  <2>3. QED BY <1>2, <1>3, <1>5, <2>1, <2>2, RecordKeeps
<1>6. QED BY <1>4, <1>5 DEF Revalidate

LEMMA SpawnKeeps ==
  ASSUME RunnerAssumption, RunnerInv, NEW c \in Calls, Spawn(c)
  PROVE  RunnerInv'
<1> DEFINE until == Min2(now + plan[c].timeout, MaxTime)
           u == [NoUnit EXCEPT !.phase = "starting", !.until = until]
<1>1. TypeInv /\ TypeOK /\ CallInv(c) /\ Receipts(c) /\ Units(c) /\ Preparations(c)
  BY DEF RunnerInv, CallInv, TypeInv
<1>2. /\ plan # NoPlans /\ pc[c] = "spawn" /\ ~Alive(c) /\ Polled(c)
      /\ UNCHANGED <<now, disk, markers, plan, identity, owner, done>>
  BY <1>1 DEF CallInv, Units, Watching, Final, Polled, Spawn, clockVars
<1>3. CASE Record(c, NotRun) /\ UNCHANGED <<unit, deadline, flags, spawned>>
  <2>1. NotRun \in ReceiptType /\ ~Claimed(NotRun)
    BY DEF NotRun, ReceiptType, Claimed
  <2>2. Polled(c)' /\ ~Alive(c)'
    BY <1>2, <1>3 DEF Polled, Alive
  <2>3. /\ spawned' \subseteq Calls /\ unit' \in [Calls -> UnitType]
        /\ deadline' \in [Calls -> Time] /\ flags' \in [Calls -> [timedOut : BOOLEAN, cleanup : BOOLEAN]]
    BY <1>1, <1>3 DEF TypeOK, UnitType
  <2>4. QED BY <1>2, <1>3, <2>1, <2>2, <2>3, RecordKeeps
<1>4. CASE ~(Record(c, NotRun) /\ UNCHANGED <<unit, deadline, flags, spawned>>)
  <2>1. /\ unit' = [unit EXCEPT ![c] = u] /\ deadline' = [deadline EXCEPT ![c] = until]
        /\ flags' = [flags EXCEPT ![c] = NoFlags] /\ spawned' = spawned \cup {c} /\ To(c, "poll")
        /\ UNCHANGED <<at, receipt, status>>
    BY <1>4 DEF Spawn
  <2>2. until \in Time
    BY <1>1, <1>2, CallTyped DEF Time, Min2, RunnerAssumption
  <2>3. u \in UnitType /\ u.phase = "starting" /\ u.client = "up"
    BY <2>2 DEF UnitType, NoUnit
  <2> HIDE DEF u, until
  <2>4. /\ unit' \in [Calls -> UnitType] /\ unit'[c] = u /\ \A d \in Calls \ {c} : unit'[d] = unit[d]
        /\ deadline' \in [Calls -> Time] /\ flags' \in [Calls -> [timedOut : BOOLEAN, cleanup : BOOLEAN]]
        /\ pc' \in [Calls -> Points] /\ pc'[c] = "poll" /\ \A d \in Calls \ {c} : pc'[d] = pc[d]
        /\ spawned' \subseteq Calls
    BY <1>1, <2>1, <2>2, <2>3 DEF TypeOK, UnitType, To, Points, NoFlags
  <2>5. OnlyOf(c)
    BY <1>2, <2>1, <2>4 DEF OnlyOf
  <2>6. TypeInv'
    BY <1>1, <1>2, <2>1, <2>4 DEF TypeInv, TypeOK, UnitType, Points
  <2>7. Receipts(c)'
    BY <1>1, <1>2, <2>1, <2>4 DEF Receipts
  <2>8. Units(c)'
    BY <2>3, <2>4 DEF Units, Watching, Alive, Final
  <2>9. Preparations(c)'
    BY <1>1, <1>2, <2>4 DEF Preparations, Final
  <2>10. CallInv(c)'
    BY <1>2, <2>4, <2>7, <2>8, <2>9 DEF CallInv
  <2>11. QED BY <1>2, <2>5, <2>6, <2>10, CallFrame
<1>5. QED BY <1>3, <1>4 DEF Spawn

LEMMA JoinKeeps ==
  ASSUME RunnerAssumption, RunnerInv, NEW c \in Calls, Join(c)
  PROVE  RunnerInv'
<1>1. TypeInv /\ TypeOK /\ CallInv(c) /\ Units(c) /\ Preparations(c) /\ unit[c] \in UnitType
  BY CallTyped DEF RunnerInv, CallInv, TypeInv
<1>2. /\ plan # NoPlans /\ pc[c] = "join" /\ Watching(c) /\ Polled(c)
      /\ UNCHANGED <<now, disk, markers, plan, identity, deadline, flags, owner, spawned, done>>
  BY <1>1 DEF CallInv, Units, Watching, Join, clockVars, histVars
<1>3. PICK drained \in BOOLEAN :
        /\ IF drained THEN ~Alive(c) /\ UNCHANGED unit ELSE UNCHANGED unit \/ End(c, 1)
        /\ Record(c, [exit |-> IF unit[c].client = "dead" THEN 1 ELSE unit[c].code,
                      timedOut |-> flags[c].timedOut \/ ~drained, flooded |-> unit[c].flood])
  BY DEF Join
<1> DEFINE r == [exit |-> IF unit[c].client = "dead" THEN 1 ELSE unit[c].code,
                 timedOut |-> flags[c].timedOut \/ ~drained, flooded |-> unit[c].flood]
<1>4. r \in ReceiptType
  BY <1>1 DEF ReceiptType, UnitType, TypeOK
<1>5. UNCHANGED unit \/ \E u \in UnitType : unit' = [unit EXCEPT ![c] = u] /\ u.phase = "ended"
  BY <1>3, EndedUnit
<1>6. /\ unit' \in [Calls -> UnitType] /\ \A d \in Calls \ {c} : unit'[d] = unit[d]
      /\ unit'[c] = unit[c] \/ unit'[c].phase = "ended"
  BY <1>1, <1>5 DEF TypeOK, UnitType
<1>7. (Alive(c)' => unit'[c] = unit[c]) /\ Polled(c)'
  BY <1>2, <1>6 DEF Alive, Polled
<1>8. Claimed(r) => at[c] \in done[c] /\ ~Alive(c)'
  <2> SUFFICES ASSUME Claimed(r) PROVE at[c] \in done[c] /\ ~Alive(c)'
    OBVIOUS
  <2>1. r.exit = 0 /\ ~r.timedOut
    BY DEF Claimed
  <2>2. r.exit = (IF unit[c].client = "dead" THEN 1 ELSE unit[c].code) /\ (r.timedOut = (flags[c].timedOut \/ ~drained))
    OBVIOUS
  <2>3. unit[c].client # "dead" /\ unit[c].code = 0 /\ drained
    <3> HIDE DEF r
    <3>1. unit[c].client # "dead" /\ unit[c].code = 0
      BY <2>1, <2>2
    <3>2. ~(flags[c].timedOut \/ ~drained)
      BY <2>1, <2>2, Zenon
    <3>3. QED BY <3>1, <3>2
  <2>4. ~Alive(c) /\ UNCHANGED unit
    BY <1>3, <2>3
  <2>5. QED BY <1>1, <1>2, <2>3, <2>4 DEF Units, Alive
<1>9. /\ spawned' \subseteq Calls /\ deadline' \in [Calls -> Time]
      /\ flags' \in [Calls -> [timedOut : BOOLEAN, cleanup : BOOLEAN]]
  BY <1>1, <1>2 DEF TypeOK
<1>10. Record(c, r)
  BY <1>3
<1> HIDE DEF r
<1>11. QED BY <1>2, <1>4, <1>6, <1>7, <1>8, <1>9, <1>10, RecordKeeps

\* The environment: a plan, time, edits of the file, and power loss.
LEMMA EnvironmentKeeps ==
  ASSUME RunnerAssumption, RunnerInv, Submit \/ Tick \/ Edit \/ PowerLoss \/ UNCHANGED vars
  PROVE  RunnerInv'
<1>1. TypeInv /\ TypeOK /\ \A c \in Calls : CallInv(c)
  BY DEF RunnerInv, TypeInv
<1>2. ASSUME UNCHANGED <<markers, callVars, unit, histVars>>, now' \in Time, disk' \in Files
      PROVE  RunnerInv'
  <2>1. TypeInv'
    BY <1>1, <1>2 DEF TypeInv, TypeOK, callVars, histVars
  <2>2. ASSUME NEW c \in Calls PROVE CallInv(c)'
    BY <1>1, <1>2
    DEF CallInv, Receipts, Units, Preparations, Alive, Watching, Polled, callVars, histVars
  <2>3. QED BY <2>1, <2>2 DEF RunnerInv
<1>3. CASE Tick \/ Edit \/ UNCHANGED vars
  <2>1. now' \in Time /\ disk' \in Files
    BY <1>1, <1>3 DEF Tick, Edit, vars, clockVars, TypeOK, Time, RunnerAssumption
  <2>2. QED BY <1>2, <1>3, <2>1 DEF Tick, Edit, vars
<1>4. CASE Submit
  <2>1. /\ plan = NoPlans /\ plan' \in Workloads
        /\ UNCHANGED <<now, disk, markers, pc, at, identity, deadline, flags, receipt, status, unit, owner, spawned, done>>
    BY <1>4 DEF Submit, clockVars, histVars
  <2>2. \A c \in Calls : pc[c] = "start" /\ at[c] = 1 /\ ~Alive(c) /\ ~Watching(c) /\ status[c] # "IMPLEMENTED"
    BY <1>1, <2>1 DEF CallInv, Units, Receipts, Watching, Final
  <2>3. \A c \in Calls : at[c] \in DOMAIN plan'[c].commands
    <3> SUFFICES ASSUME NEW c \in Calls PROVE at[c] \in DOMAIN plan'[c].commands
      OBVIOUS
    <3>1. plan'[c].commands \in Seq(Command) /\ Len(plan'[c].commands) > 0
      BY <2>1 DEF RunnerAssumption
    <3>2. DOMAIN plan'[c].commands = 1..Len(plan'[c].commands) /\ Len(plan'[c].commands) \in Nat
      BY <3>1, LenProperties
    <3>3. QED BY <2>2, <3>1, <3>2
  <2>4. TypeInv'
    BY <1>1, <2>1, <2>3 DEF TypeInv, TypeOK
  <2>5. ASSUME NEW c \in Calls PROVE CallInv(c)'
    <3>1. ~Alive(c)' /\ ~Watching(c)' /\ pc'[c] = "start" /\ at'[c] = 1 /\ (Polled(c)' <=> Polled(c))
      BY <2>1, <2>2 DEF Alive, Watching, Polled
    <3>2. Receipts(c)'
      BY <1>1, <2>1, <2>2 DEF CallInv, Receipts
    <3>3. Units(c)'
      BY <1>1, <2>1, <2>2, <3>1 DEF CallInv, Units
    <3>4. Preparations(c)'
      BY <3>1 DEF Preparations
    <3>5. QED BY <3>1, <3>2, <3>3, <3>4 DEF CallInv
  <2>6. QED BY <2>4, <2>5 DEF RunnerInv
<1>5. CASE PowerLoss
  <2>1. UNCHANGED <<now, disk, plan, at, identity, deadline, flags, receipt, status, owner, spawned, done>>
    BY <1>5 DEF PowerLoss, clockVars, histVars
  <2>2. /\ pc' \in [Calls -> Points] /\ unit' \in [Calls -> UnitType]
        /\ \A c \in Calls : /\ pc'[c] = IF pc[c] \in {"start"} \cup Final THEN pc[c] ELSE "dead"
                            /\ ~Alive(c)' /\ unit'[c].phase \notin {"sealed", "running"}
                            /\ unit[c].phase = "ended" => unit'[c].phase = "ended"
                            /\ unit'[c] = unit[c] \/ unit'[c].phase = "ended"
    <3>1. pc' \in [Calls -> Points] /\ \A c \in Calls : pc'[c] = IF pc[c] \in {"start"} \cup Final THEN pc[c] ELSE "dead"
      BY <1>1, <1>5 DEF PowerLoss, TypeOK, Points, Final
    <3>2. ASSUME NEW c \in Calls
          PROVE  /\ unit'[c] \in UnitType /\ ~Alive(c)' /\ unit'[c].phase \notin {"sealed", "running"}
                 /\ unit[c].phase = "ended" => unit'[c].phase = "ended"
                 /\ unit'[c] = unit[c] \/ unit'[c].phase = "ended"
      <4>1. unit[c] \in UnitType
        BY <1>1 DEF TypeOK, UnitType
      <4>2. unit'[c] = IF Alive(c) THEN [unit[c] EXCEPT !.phase = "ended", !.code = 1] ELSE unit[c]
        BY <1>5 DEF PowerLoss
      <4>3. QED BY <4>1, <4>2 DEF Alive, UnitType
    <3>3. unit' \in [Calls -> UnitType]
      <4>1. unit' = [c \in Calls |-> unit'[c]]
        BY <1>5 DEF PowerLoss
      <4>2. QED BY <3>2, <4>1
    <3>4. QED BY <3>1, <3>2, <3>3
  <2>3. markers' \in [Nonces -> Marker]
    <3>1. markers \in [Nonces -> Marker]
      BY <1>1 DEF TypeOK
    <3>2. PICK lost : markers' = [n \in Nonces |-> IF n \in lost THEN "none" ELSE markers[n]]
      BY <1>5 DEF PowerLoss
    <3>3. QED BY ONLY <3>1, <3>2 DEF Marker
  <2>4. TypeInv'
    BY <1>1, <2>1, <2>2, <2>3 DEF TypeInv, TypeOK, UnitType, Points
  <2>5. ASSUME NEW c \in Calls PROVE CallInv(c)'
    <3>1. /\ ~Watching(c)' /\ pc'[c] \in {"start"} \cup Final
          /\ (pc'[c] = "returned" <=> pc[c] = "returned") /\ (pc'[c] = "start" <=> pc[c] = "start")
          /\ pc'[c] # "join"
      BY <2>2 DEF Watching, Final
    <3>2. Receipts(c)'
      BY <1>1, <2>1, <3>1 DEF CallInv, Receipts
    <3>3. Polled(c)'
      BY <2>2 DEF Polled
    <3>4. Units(c)'
      BY <2>2, <3>1, <3>3 DEF Units
    <3>5. Preparations(c)'
      BY <2>2, <3>1 DEF Preparations
    <3>6. QED BY <1>1, <2>1, <3>1, <3>2, <3>4, <3>5 DEF CallInv
  <2>6. QED BY <2>4, <2>5 DEF RunnerInv
<1>6. QED BY <1>3, <1>4, <1>5

LEMMA NextRunnerInv == RunnerAssumption /\ RunnerInv /\ [Next]_vars => RunnerInv'
<1> SUFFICES ASSUME RunnerAssumption, RunnerInv, [Next]_vars PROVE RunnerInv'
  OBVIOUS
<1>1. ASSUME NEW c \in Calls, CallStep(c) PROVE RunnerInv'
  BY <1>1, AdmissionKeeps, RevalidateKeeps, SpawnKeeps, WatchKeeps, TerminateKeeps, JoinKeeps DEF CallStep
<1>2. ASSUME NEW c \in Calls, Crash(c) PROVE RunnerInv'
  BY <1>2, WatchKeeps
<1>3. QED BY <1>1, <1>2, InsideKeeps, EnvironmentKeeps DEF Next

LEMMA InitRunnerInv == RunnerAssumption /\ Init => RunnerInv
<1> SUFFICES ASSUME RunnerAssumption, Init PROVE RunnerInv
  OBVIOUS
<1>1. TypeInv
  <2>1. /\ now \in Time /\ disk \in Files /\ NoUnit \in UnitType /\ NoFlags \in [timedOut : BOOLEAN, cleanup : BOOLEAN]
        /\ 0 \in Time /\ <<>> \in Seq(ReceiptType)
    BY DEF Init, RunnerAssumption, Time, NoUnit, NoFlags, UnitType
  <2>2. QED BY <2>1 DEF Init, TypeInv, TypeOK, UnitType, Points, Marker
<1>2. ASSUME NEW c \in Calls PROVE CallInv(c)
  <2>1. /\ pc[c] = "start" /\ at[c] = 1 /\ unit[c] = NoUnit /\ receipt[c] = <<>> /\ status[c] = "NONE" /\ done[c] = {}
        /\ plan = NoPlans
    BY DEF Init
  <2>2. Receipts(c)
    BY <2>1 DEF Receipts
  <2>3. ~Alive(c) /\ ~Watching(c)
    BY <2>1 DEF Alive, Watching, NoUnit
  <2>4. Units(c)
    BY <2>1, <2>3 DEF Units, NoUnit
  <2>5. Preparations(c)
    BY <2>1, <2>3 DEF Preparations
  <2>6. QED BY <2>1, <2>2, <2>4, <2>5 DEF CallInv
<1>3. QED BY <1>1, <1>2 DEF RunnerInv

\* What the invariant gives: the four parts of Inv.
LEMMA RunnerInvGives == RunnerAssumption /\ RunnerInv => Inv
<1> SUFFICES ASSUME RunnerAssumption, RunnerInv PROVE Inv
  OBVIOUS
<1>1. TypeInv /\ TypeOK /\ \A c \in Calls : CallInv(c) /\ Receipts(c) /\ Units(c) /\ Preparations(c)
  BY DEF RunnerInv, CallInv, TypeInv
<1>2. ReceiptsTruthful
  <2> SUFFICES ASSUME NEW c \in Calls
               PROVE  /\ \A i \in DOMAIN receipt[c] :
                           receipt[c][i].exit = 0 /\ ~receipt[c][i].timedOut => i \in done[c]
                      /\ done[c] \subseteq 1..at[c] /\ 1..(at[c] - 1) \subseteq done[c]
                      /\ status[c] = "IMPLEMENTED" => done[c] = DOMAIN plan[c].commands
    BY DEF ReceiptsTruthful
  <2>1. ASSUME status[c] = "IMPLEMENTED" PROVE done[c] = DOMAIN plan[c].commands
    <3>1. plan # NoPlans
      BY <1>1, <2>1 DEF Receipts, CallInv
    <3>2. /\ at[c] = Len(plan[c].commands) /\ at[c] \in done[c] /\ at[c] \in Nat \ {0}
          /\ done[c] \subseteq 1..at[c] /\ 1..(at[c] - 1) \subseteq done[c]
          /\ DOMAIN plan[c].commands = 1..Len(plan[c].commands)
      BY <1>1, <2>1, <3>1, CallTyped DEF Receipts
    <3>3. \A i \in 1..at[c] : i = at[c] \/ i \in 1..(at[c] - 1)
      BY <3>2
    <3>4. QED BY <3>2, <3>3
  <2>2. QED BY <1>1, <2>1 DEF Receipts, Claimed
<1>3. NothingLeftRunning
  BY <1>1 DEF NothingLeftRunning, Units, Polled
<1>4. RunsWhatWasValidated
  <2> SUFFICES ASSUME NEW c \in Calls, unit[c].phase = "running"
               PROVE  /\ unit[c].image = identity[c].content
                      /\ plan[c].strict => Current(c).target = "python" /\ Current(c).args = "version" /\ Current(c).trusted
    BY DEF RunsWhatWasValidated
  <2>1. Alive(c) /\ unit[c].image = identity[c].content
    BY <1>1 DEF Alive, Units
  <2>2. plan # NoPlans
    BY <1>1, <2>1 DEF CallInv, Units, Watching, Final
  <2>3. at[c] \in DOMAIN plan[c].commands
    BY <1>1, <2>2 DEF TypeOK
  <2>4. Prepared(Current(c), plan[c].grant, plan[c].strict)
    BY <1>1, <2>1, <2>3 DEF Preparations, Current
  <2>5. QED BY <2>1, <2>4 DEF Prepared, PositivePolicy, PythonCodeInput
<1>5. QED BY <1>1, <1>2, <1>3, <1>4 DEF Inv

\* Whatever crashes, is edited, times out or dies alone: receipts tell the truth, a
\* call that returned left nothing running, and what runs is what was validated.
THEOREM RunnerSound == RunnerAssumption => (Spec => []Inv)
<1> SUFFICES ASSUME RunnerAssumption PROVE Spec => []Inv
  OBVIOUS
<1>1. Init => RunnerInv
  BY InitRunnerInv
<1>2. RunnerInv /\ [Next]_vars => RunnerInv'
  BY NextRunnerInv
<1>3. RunnerInv => Inv
  BY RunnerInvGives
<1>4. QED BY <1>1, <1>2, <1>3, PTL DEF Spec
=============================================================================
