-------------------------- MODULE RunDetails_proofs --------------------------
(***************************************************************************)
(* Theorems about RunDetails: what the endpoints say of a log body is true *)
(* and complete, and the summary of the resource usage is final, for any   *)
(* number of lines, samples, sampler goroutines and restarts.              *)
(***************************************************************************)
EXTENDS RunDetails, SequenceTheorems, TLAPS

-----------------------------------------------------------------------------
(* Sequences of lines *)

\* The lines of one flush, as the AUTOINCREMENT id numbers them.
Numbered(n, b) == [i \in 1..b |-> n + i - 1]

\* What a flush adds to a body.
LEMMA AppendNumbered ==
  ASSUME NEW s \in Seq(Nat), NEW n \in Nat, NEW b \in Nat
  PROVE  /\ s \o Numbered(n, b) \in Seq(Nat)
         /\ Len(s \o Numbered(n, b)) = Len(s) + b
         /\ \A i \in 1..Len(s) : (s \o Numbered(n, b))[i] = s[i]
         /\ \A i \in (Len(s) + 1)..(Len(s) + b) :
              (s \o Numbered(n, b))[i] = n + (i - Len(s)) - 1
<1>1. /\ Numbered(n, b) \in Seq(Nat) /\ Len(Numbered(n, b)) = b
      /\ \A i \in 1..b : Numbered(n, b)[i] = n + i - 1
  <2>1. \A i \in 1..b : n + i - 1 \in Nat
    OBVIOUS
  <2>2. Numbered(n, b) \in [1..b -> Nat] /\ DOMAIN Numbered(n, b) = 1..b
    BY <2>1 DEF Numbered
  <2>3. Numbered(n, b) \in Seq(Nat)
    BY <2>2
  <2>4. Len(Numbered(n, b)) = b
    BY <2>2, <2>3, LenProperties
  <2>5. \A i \in 1..b : Numbered(n, b)[i] = n + i - 1
    BY DEF Numbered
  <2> QED BY <2>3, <2>4, <2>5
<1> DEFINE m == Numbered(n, b)
<1> HIDE DEF m
<1>2. /\ s \o m \in Seq(Nat) /\ Len(s \o m) = Len(s) + b
      /\ \A i \in 1..(Len(s) + b) : (s \o m)[i] = IF i <= Len(s) THEN s[i] ELSE m[i - Len(s)]
  <2>1. m \in Seq(Nat) /\ Len(m) = b
    BY <1>1 DEF m
  <2> QED BY <2>1, ConcatProperties
<1>3. Len(s) \in Nat
  OBVIOUS
<1>4. \A i \in 1..Len(s) : (s \o m)[i] = s[i]
  BY <1>2, <1>3
<1>5. ASSUME NEW i \in (Len(s) + 1)..(Len(s) + b)
      PROVE  (s \o m)[i] = n + (i - Len(s)) - 1
  <2>1. (s \o m)[i] = m[i - Len(s)]
    BY <1>2, <1>3
  <2>2. i - Len(s) \in 1..b
    BY <1>3
  <2> QED BY <1>1, <2>1, <2>2 DEF m
<1> QED BY <1>2, <1>4, <1>5 DEF m

LEMMA AppendKeeps ==
  ASSUME NEW s \in Seq(Nat), NEW n \in Nat, NEW b \in Nat
  PROVE  /\ Elements(s) \subseteq Elements(s \o Numbered(n, b))
         /\ n..(n + b - 1) \subseteq Elements(s \o Numbered(n, b))
<1> DEFINE u == s \o Numbered(n, b)
<1>1. /\ u \in Seq(Nat) /\ Len(u) = Len(s) + b
      /\ \A i \in 1..Len(s) : u[i] = s[i]
      /\ \A i \in (Len(s) + 1)..(Len(s) + b) : u[i] = n + (i - Len(s)) - 1
  BY AppendNumbered
<1> HIDE DEF u
<1>2. Len(s) \in Nat /\ DOMAIN s = 1..Len(s) /\ DOMAIN u = 1..Len(u)
  BY <1>1
<1>3. ASSUME NEW x \in Elements(s) PROVE x \in Elements(u)
  <2>1. PICK i \in 1..Len(s) : x = s[i]
    BY <1>2, <1>3 DEF Elements
  <2>2. i \in DOMAIN u /\ x = u[i]
    BY <1>1, <1>2, <2>1
  <2> QED BY <2>2 DEF Elements
<1>4. ASSUME NEW x \in n..(n + b - 1) PROVE x \in Elements(u)
  <2>1. Len(s) + (x - n) + 1 \in (Len(s) + 1)..(Len(s) + b)
    BY <1>2
  <2> DEFINE i == Len(s) + (x - n) + 1
  <2>2. u[i] = n + (i - Len(s)) - 1
    BY <1>1, <2>1
  <2>3. n + (i - Len(s)) - 1 = x /\ i \in 1..Len(u)
    BY <1>1, <1>2, <2>1
  <2> QED BY <1>2, <2>2, <2>3 DEF Elements
<1> QED BY <1>3, <1>4 DEF u

\* A tail of a body: its length, and where its lines stand in the body.
LEMMA LastOf ==
  ASSUME NEW s \in Seq(Nat), NEW n \in Nat \ {0}
  PROVE  /\ n >= Len(s) => Last(s, n) = s
         /\ n < Len(s) =>
              /\ Last(s, n) \in Seq(Nat) /\ Len(Last(s, n)) = n
              /\ \A i \in 1..n : Last(s, n)[i] = s[Len(s) - n + i]
<1>1. ASSUME n < Len(s)
      PROVE  /\ Last(s, n) \in Seq(Nat) /\ Len(Last(s, n)) = n
             /\ \A i \in 1..n : Last(s, n)[i] = s[Len(s) - n + i]
  <2>1. Len(s) \in Nat /\ \A i \in 1..Len(s) : s[i] \in Nat
    OBVIOUS
  <2>2. Last(s, n) = SubSeq(s, Len(s) - n + 1, Len(s))
    BY <1>1, <2>1 DEF Last
  <2>3. \A i \in (Len(s) - n + 1)..Len(s) : s[i] \in Nat
    BY <1>1, <2>1
  <2>4. /\ SubSeq(s, Len(s) - n + 1, Len(s)) \in Seq(Nat)
        /\ Len(SubSeq(s, Len(s) - n + 1, Len(s))) = n
        /\ \A i \in 1..n : SubSeq(s, Len(s) - n + 1, Len(s))[i] = s[Len(s) - n + 1 + i - 1]
    BY <1>1, <2>1, <2>3, SubSeqProperties
  <2>5. \A i \in 1..n : Len(s) - n + 1 + i - 1 = Len(s) - n + i
    BY <2>1
  <2> QED BY <2>2, <2>4, <2>5
<1>2. ASSUME n >= Len(s) PROVE Last(s, n) = s
  BY <1>2 DEF Last
<1> QED BY <1>1, <1>2

\* The steps a backfill goes through.
LEMMA BackfillSteps ==
  /\ OnBackfill # <<>> /\ Head(OnBackfill) = "check"
  /\ Tail(OnBackfill) = <<"close", "stream">>
  /\ Head(Tail(OnBackfill)) = "close" /\ Tail(Tail(OnBackfill)) = <<"stream">>
  /\ Streamless(Tail(OnBackfill)) = <<"close">>
  /\ Head(<<"close">>) = "close" /\ Tail(<<"close">>) = <<>>
  /\ Head(<<"stream">>) = "stream" /\ Tail(<<"stream">>) = <<>>
  /\ Tail(OnBackfill) # <<>> /\ <<"close">> # <<>> /\ <<"stream">> # <<>>
BY DEF OnBackfill, Streamless

-----------------------------------------------------------------------------
(* Types *)

\* What the steps of the cluster, the clock, readers' beginnings and the like
\* leave alone is typed as before.
LEMMA TypeOfWorld ==
  ASSUME TypeOK, Cluster \/ Shutdown \/ Exit \/ Restart
  PROVE  TypeOK'
<1> USE DEF TypeOK, clusterVars, rowVars, storeVars, handlerVars, streamerVars, samplerVars,
            history
<1>1. CASE PodRuns
  BY <1>1 DEF PodRuns
<1>2. CASE Write
  BY <1>2 DEF Write
<1>3. CASE PodEnds
  BY <1>3, DetailsAssumption DEF PodEnds
<1>4. CASE GrowOld
  BY <1>4 DEF GrowOld
<1>5. CASE Shutdown
  BY <1>5 DEF Shutdown
<1>6. CASE Exit
  <2>1. todo' \in [Handlers -> Plans]
    BY <1>6 DEF Exit, Plans
  <2>2. {listed', indexed', removed', lost'} \subseteq BOOLEAN
    BY <1>6 DEF Exit
  <2> QED BY <1>6, <2>1, <2>2 DEF Exit
<1>7. CASE Restart
  BY <1>7 DEF Restart
<1> QED BY <1>1, <1>2, <1>3, <1>4, <1>5, <1>6, <1>7 DEF Cluster

\* What a handler takes up is a plan, and so is what is left of one.
LEMMA HandlerPlans ==
  /\ {<<>>, <<"find">>, OnRunning, OnTerminal, OnBackfill} \subseteq Plans
  /\ \A s \in Plans : s # <<>> => Tail(s) \in Plans
  /\ \A s \in Plans : s # <<>> /\ Head(s) = "check" => Streamless(Tail(s)) \in Plans
<1>1. {<<>>, <<"find">>, OnRunning, OnTerminal, OnBackfill} \subseteq Plans
  BY DEF OnRunning, OnTerminal, OnBackfill, Plans
<1>2. ASSUME NEW s \in Plans, s # <<>> PROVE Tail(s) \in Plans
  <2>1. CASE s = <<"find">>
    <3>1. Tail(<<"find">>) = <<>>
      OBVIOUS
    <3> QED BY <2>1, <3>1 DEF Plans
  <2>2. CASE s = <<"check", "stream", "start">>
    <3>1. Tail(<<"check", "stream", "start">>) = <<"stream", "start">>
      OBVIOUS
    <3> QED BY <2>2, <3>1 DEF Plans
  <2>3. CASE s = <<"stream", "start">>
    <3>1. Tail(<<"stream", "start">>) = <<"start">>
      OBVIOUS
    <3> QED BY <2>3, <3>1 DEF Plans
  <2>4. CASE s = <<"start">>
    <3>1. Tail(<<"start">>) = <<>>
      OBVIOUS
    <3> QED BY <2>4, <3>1 DEF Plans
  <2>5. CASE s = <<"close", "check", "stream", "stop">>
    <3>1. Tail(<<"close", "check", "stream", "stop">>) = <<"check", "stream", "stop">>
      OBVIOUS
    <3> QED BY <2>5, <3>1 DEF Plans
  <2>6. CASE s = <<"check", "stream", "stop">>
    <3>1. Tail(<<"check", "stream", "stop">>) = <<"stream", "stop">>
      OBVIOUS
    <3> QED BY <2>6, <3>1 DEF Plans
  <2>7. CASE s = <<"stream", "stop">>
    <3>1. Tail(<<"stream", "stop">>) = <<"stop">>
      OBVIOUS
    <3> QED BY <2>7, <3>1 DEF Plans
  <2>8. CASE s = <<"stop">>
    <3>1. Tail(<<"stop">>) = <<>>
      OBVIOUS
    <3> QED BY <2>8, <3>1 DEF Plans
  <2>9. CASE s = <<"check", "close", "stream">>
    <3>1. Tail(<<"check", "close", "stream">>) = <<"close", "stream">>
      OBVIOUS
    <3> QED BY <2>9, <3>1 DEF Plans
  <2>10. CASE s = <<"close", "stream">>
    <3>1. Tail(<<"close", "stream">>) = <<"stream">>
      OBVIOUS
    <3> QED BY <2>10, <3>1 DEF Plans
  <2>11. CASE s = <<"close">>
    <3>1. Tail(<<"close">>) = <<>>
      OBVIOUS
    <3> QED BY <2>11, <3>1 DEF Plans
  <2>12. CASE s = <<"check", "stream">>
    <3>1. Tail(<<"check", "stream">>) = <<"stream">>
      OBVIOUS
    <3> QED BY <2>12, <3>1 DEF Plans
  <2>13. CASE s = <<"stream">>
    <3>1. Tail(<<"stream">>) = <<>>
      OBVIOUS
    <3> QED BY <2>13, <3>1 DEF Plans
  <2> QED
    BY <1>2, <2>1, <2>2, <2>3, <2>4, <2>5, <2>6, <2>7, <2>8, <2>9, <2>10, <2>11, <2>12, <2>13 DEF Plans
<1>3. ASSUME NEW s \in Plans, s # <<>>, Head(s) = "check" PROVE Streamless(Tail(s)) \in Plans
  <2>1. s \in {<<"check", "stream", "start">>, <<"check", "stream", "stop">>,
               <<"check", "close", "stream">>, <<"check", "stream">>}
    BY <1>3 DEF Plans
  <2>2. CASE s = <<"check", "stream", "start">>
    <3>1. Streamless(Tail(<<"check", "stream", "start">>)) = <<"start">>
      BY DEF Streamless
    <3> QED BY <2>2, <3>1 DEF Plans
  <2>3. CASE s = <<"check", "stream", "stop">>
    <3>1. Streamless(Tail(<<"check", "stream", "stop">>)) = <<"stop">>
      BY DEF Streamless
    <3> QED BY <2>3, <3>1 DEF Plans
  <2>4. CASE s = <<"check", "close", "stream">>
    <3>1. Streamless(Tail(<<"check", "close", "stream">>)) = <<"close">>
      BY DEF Streamless
    <3> QED BY <2>4, <3>1 DEF Plans
  <2>5. CASE s = <<"check", "stream">>
    <3>1. Streamless(Tail(<<"check", "stream">>)) = <<>>
      BY DEF Streamless
    <3> QED BY <2>5, <3>1 DEF Plans
  <2> QED BY <2>1, <2>2, <2>3, <2>4, <2>5
<1> QED BY <1>1, <1>2, <1>3

LEMMA TypeOfWatch ==
  ASSUME TypeOK, Watch
  PROVE  TypeOK'
<1> USE DEF TypeOK, clusterVars, rowVars, storeVars, handlerVars, streamerVars, samplerVars,
            history
<1>1. CASE PodEvent
  <2>1. todo' \in [Handlers -> Plans]
    BY <1>1, HandlerPlans DEF PodEvent
  <2> QED BY <1>1, <2>1 DEF PodEvent
<1>2. CASE RetryOnAdd
  <2>1. todo' \in [Handlers -> Plans]
    BY <1>2, HandlerPlans DEF RetryOnAdd
  <2> QED BY <1>2, <2>1 DEF RetryOnAdd
<1>3. CASE JobDeleted
  BY <1>3 DEF JobDeleted
<1>4. CASE JobListed
  <2>1. todo' \in [Handlers -> Plans]
    BY <1>4, HandlerPlans DEF JobListed
  <2> QED BY <1>4, <2>1 DEF JobListed
<1> QED BY <1>1, <1>2, <1>3, <1>4 DEF Watch

LEMMA TypeOfHandlers ==
  ASSUME TypeOK, NEW h \in Handlers, HandlerStep(h)
  PROVE  TypeOK'
<1> USE DEF TypeOK, clusterVars, rowVars, storeVars, handlerVars, streamerVars, samplerVars,
            history
<1>1. Done(h) /\ todo[h] # <<>> => todo' \in [Handlers -> Plans]
  BY HandlerPlans DEF Done
<1>2. CASE Check(h)
  <2>1. todo' \in [Handlers -> Plans]
    BY <1>1, <1>2, HandlerPlans DEF Check, At
  <2> QED BY <1>2, <2>1 DEF Check
<1>3. CASE CloseRun(h)
  BY <1>1, <1>3 DEF CloseRun, At
<1>4. CASE Stream(h)
  BY <1>1, <1>4 DEF Stream, At
<1>5. CASE Start(h)
  <2>1. spc' \in [Samplers -> {"none", "select", "insert", "finalize", "done"}]
    BY <1>5 DEF Start
  <2> QED BY <1>1, <1>5, <2>1 DEF Start, At
<1>6. CASE Stop(h)
  BY <1>1, <1>6 DEF Stop, At
<1> QED BY <1>2, <1>3, <1>4, <1>5, <1>6 DEF HandlerStep

LEMMA TypeOfStreamer ==
  ASSUME TypeOK, BodyInv, FlushInv, Streamer
  PROVE  TypeOK'
<1> USE DEF TypeOK, clusterVars, rowVars, storeVars, handlerVars, streamerVars, samplerVars,
            history
<1>1. CASE StreamEnds
  BY <1>1 DEF StreamEnds
<1>2. CASE BeginFlush
  BY <1>2, DetailsAssumption DEF BeginFlush
<1>3. CASE InsertLines
  <2>1. body' \in Seq(Nat) /\ nextID' \in Nat
    <3>1. body \o Numbered(nextID, batch) \in Seq(Nat)
      BY AppendNumbered
    <3>2. CASE StoreOpen /\ HasRow
      <4>1. body' = body \o Numbered(nextID, batch) /\ nextID' = nextID + batch
        BY <1>3, <3>2 DEF InsertLines, Numbered
      <4> QED BY <3>1, <4>1
    <3>3. CASE ~(StoreOpen /\ HasRow)
      BY <1>3, <3>3 DEF InsertLines
    <3> QED BY <3>2, <3>3
  <2> QED BY <1>3, <2>1 DEF InsertLines
<1>4. CASE AddLogSize
  <2>1. ASSUME StoreOpen, HasRow PROVE BatchIDs \subseteq Nat
    <3>1. batch < nextID
      BY <1>4, <2>1 DEF AddLogSize, FlushInv
    <3> QED BY <3>1 DEF BatchIDs
  <2>2. flushed' \in SUBSET Nat /\ size' \in Nat
    <3>1. CASE StoreOpen /\ HasRow
      <4>1. size' = size + batch /\ flushed' = flushed \cup BatchIDs
        BY <1>4, <3>1 DEF AddLogSize
      <4>2. BatchIDs \subseteq Nat /\ flushed \subseteq Nat
        BY <2>1, <3>1
      <4>3. flushed' \in SUBSET Nat
        BY <4>1, <4>2
      <4> QED BY <4>1, <4>3
    <3>2. CASE ~(StoreOpen /\ HasRow)
      BY <1>4, <3>2 DEF AddLogSize
    <3> QED BY <3>1, <3>2
  <2> QED BY <1>4, <2>2 DEF AddLogSize
<1> QED BY <1>1, <1>2, <1>3, <1>4 DEF Streamer

LEMMA TypeOfSampler ==
  ASSUME TypeOK, NEW g \in Samplers, Sampler(g)
  PROVE  TypeOK'
<1> USE DEF TypeOK, clusterVars, rowVars, storeVars, handlerVars, streamerVars, samplerVars,
            history
<1>1. CASE DrawSample(g)
  BY <1>1 DEF DrawSample
<1>2. CASE InsertSample(g)
  BY <1>2 DEF InsertSample
<1>3. CASE EndSampling(g)
  BY <1>3 DEF EndSampling
<1>4. CASE Finalize(g)
  BY <1>4 DEF Finalize
<1> QED BY <1>1, <1>2, <1>3, <1>4 DEF Sampler

LEMMA TypeOfStoreUse ==
  ASSUME TypeOK, Retention \/ Reader \/ \E k \in profile.asked, n \in Limits : Ask(k, n)
  PROVE  TypeOK'
<1> USE DEF TypeOK, clusterVars, rowVars, storeVars, handlerVars, streamerVars, samplerVars,
            history
<1>1. CASE DeleteOldLogLines
  BY <1>1 DEF DeleteOldLogLines
<1>2. CASE DeleteOldData
  BY <1>2 DEF DeleteOldData
<1>3. CASE ReadRun
  <2>1. req \in Request
    BY <1>3 DEF ReadRun, NoRequest
  <2>2. req' \in {NoRequest} \cup Request
    BY <1>3, <2>1 DEF ReadRun, Request
  <2> QED BY <1>3, <2>2 DEF ReadRun
<1>4. CASE Reply
  BY <1>4 DEF Reply
<1>5. ASSUME NEW k \in profile.asked, NEW n \in Limits, Ask(k, n)
      PROVE  TypeOK'
  <2>1. k \in {"logs", "page", "text"} /\ n \in Nat /\ PageLimit \in Nat
    BY DetailsAssumption
  <2>2. req' \in Request
    BY <1>5, <2>1 DEF Ask, Request
  <2> QED BY <1>5, <2>2 DEF Ask
<1> QED BY <1>1, <1>2, <1>3, <1>4, <1>5 DEF Retention, Reader

\* Types are kept by every step.
LEMMA TypesKept ==
  ASSUME DetailsInv, [Next]_vars
  PROVE  TypeOK'
<1>1. CASE UNCHANGED vars
  BY <1>1 DEF DetailsInv, TypeOK, vars, clusterVars, rowVars, storeVars, handlerVars,
              streamerVars, samplerVars, history
<1> QED
  BY <1>1, TypeOfWorld, TypeOfWatch, TypeOfHandlers, TypeOfStreamer, TypeOfSampler,
     TypeOfStoreUse DEF DetailsInv, Next, Process

-----------------------------------------------------------------------------
(* No row is inserted anew under a stream *)

\* While no one has found the run, the Pod's handlers have no step of it to take.
LEMMA UnfoundHandlers ==
  ASSUME Unfound, NEW h \in Handlers, HandlerStep(h)
  PROVE  h = "job"
<1>1. todo[h] # <<>> /\ Head(todo[h]) \in {"check", "close", "stream", "start", "stop"}
  BY DEF HandlerStep, Check, CloseRun, Stream, Start, Stop, At
<1>2. Head(<<"find">>) = "find"
  OBVIOUS
<1> QED BY <1>1, <1>2 DEF Unfound, Handlers

LEMMA BackfillByHandler ==
  ASSUME TypeOK, BackfillInv, NEW h \in Handlers, HandlerStep(h)
  PROVE  BackfillInv'
<1> USE DEF TypeOK, clusterVars, rowVars, storeVars, handlerVars, streamerVars, samplerVars,
            history
<1>1. UNCHANGED <<proc, listed>>
  BY DEF HandlerStep, Check, CloseRun, Stream, Start, Stop
<1>2. CASE h = "job"
  <2>1. listed
    BY <1>2 DEF HandlerStep, Check, CloseRun, Stream, Start, Stop, At, BackfillInv
  <2>2. /\ todo["job"] \in {OnBackfill, Tail(OnBackfill), <<"close">>, <<"stream">>}
        /\ \A u \in Handlers \ {"job"} : todo'[u] = todo[u]
    BY <1>2 DEF HandlerStep, Check, CloseRun, Stream, Start, Stop, At, Done, BackfillInv
  <2>3. CASE Check(h)
    <3>1. todo["job"] = OnBackfill /\ UNCHANGED <<proc, indexed, streaming, status>>
      BY <1>2, <2>2, <2>3, BackfillSteps DEF Check, At
    <3>2. Unfound
      BY <3>1, BackfillSteps DEF BackfillInv, Backfilling
    <3>3. todo'["job"] \in {Tail(OnBackfill), <<"close">>}
      BY <1>2, <2>3, <3>1, BackfillSteps DEF Check, Done
    <3>4. Unfound'
      BY <1>1, <2>2, <3>1, <3>2 DEF Unfound, Handlers
    <3> QED BY <1>1, <2>1, <3>3, <3>4 DEF BackfillInv
  <2>4. CASE CloseRun(h)
    <3>1. todo["job"] \in {Tail(OnBackfill), <<"close">>}
      BY <1>2, <2>2, <2>4, BackfillSteps DEF CloseRun, At
    <3>2. todo'["job"] = Tail(todo["job"])
      BY <1>2, <2>4 DEF CloseRun, Done
    <3>3. todo'["job"] \in {<<>>, <<"stream">>}
      BY <3>1, <3>2, BackfillSteps
    <3> QED BY <1>1, <2>1, <3>3, BackfillSteps DEF BackfillInv, Backfilling
  <2>5. CASE Stream(h)
    <3>1. todo["job"] = <<"stream">>
      BY <1>2, <2>2, <2>5, BackfillSteps DEF Stream, At
    <3>2. todo'["job"] = <<>>
      BY <1>2, <2>5, <3>1, BackfillSteps DEF Stream, Done
    <3> QED BY <1>1, <2>1, <3>2 DEF BackfillInv, Backfilling
  <2>6. ~Start(h) /\ ~Stop(h)
    BY <1>2, <2>2, BackfillSteps DEF Start, Stop, At
  <2> QED BY <2>3, <2>4, <2>5, <2>6 DEF HandlerStep
<1>3. CASE h # "job"
  <2>1. listed /\ ~Backfilling
    BY <1>3, UnfoundHandlers DEF BackfillInv
  <2>2. todo'["job"] = todo["job"]
    BY <1>3 DEF HandlerStep, Check, CloseRun, Stream, Start, Stop, Done, Handlers
  <2> QED BY <1>1, <2>1, <2>2 DEF BackfillInv, Backfilling
<1> QED BY <1>2, <1>3

LEMMA BackfillKept ==
  ASSUME DetailsInv, [Next]_vars
  PROVE  BackfillInv'
<1> USE DEF clusterVars, rowVars, storeVars, handlerVars, streamerVars, samplerVars, history
<1>1. TypeOK /\ BackfillInv
  BY DEF DetailsInv
<1>2. ASSUME UNCHANGED <<proc, handlerVars, status>>,
             streaming # "off" \/ streaming' = "off"
      PROVE  BackfillInv'
  BY <1>1, <1>2 DEF BackfillInv, Backfilling, Unfound
<1>3. CASE Cluster
  BY <1>2, <1>3 DEF Cluster, PodRuns, Write, PodEnds, GrowOld
<1>4. CASE PodEvent
  <2>1. UNCHANGED <<proc, indexed, listed, status, streaming>>
    BY <1>4 DEF PodEvent
  <2>2. todo'["job"] = todo["job"]
    BY <1>1, <1>4 DEF PodEvent, TypeOK, Handlers
  <2>3. ASSUME Unfound PROVE Unfound'
    <3>1. ~Found
      BY <1>4, <2>3 DEF PodEvent, Unfound, Found
    <3>2. todo'["pod"] = <<>> /\ todo'["retry"] \in {<<>>, <<"find">>}
      BY <1>1, <1>4, <2>3, <3>1 DEF PodEvent, TypeOK, Handlers, Unfound
    <3> QED BY <2>1, <2>3, <3>2 DEF Unfound
  <2> QED BY <1>1, <2>1, <2>2, <2>3 DEF BackfillInv, Backfilling
<1>5. CASE RetryOnAdd
  <2>1. UNCHANGED <<proc, indexed, listed, status, streaming>>
    BY <1>5 DEF RetryOnAdd
  <2>2. todo'["job"] = todo["job"] /\ todo'["pod"] = todo["pod"]
    BY <1>1, <1>5 DEF RetryOnAdd, TypeOK, Handlers
  <2>3. ASSUME Unfound PROVE Unfound'
    <3>1. ~Found
      BY <1>5, <2>3 DEF RetryOnAdd, Alive, Unfound, Found
    <3>2. todo'["retry"] = <<>>
      BY <1>1, <1>5, <2>3, <3>1 DEF RetryOnAdd, TypeOK, Handlers
    <3> QED BY <2>1, <2>2, <2>3, <3>2 DEF Unfound
  <2> QED BY <1>1, <2>1, <2>2, <2>3 DEF BackfillInv, Backfilling
<1>6. CASE JobDeleted
  BY <1>1, <1>6 DEF JobDeleted, BackfillInv, Backfilling, Unfound
<1>7. CASE JobListed
  <2>1. Unfound /\ todo["job"] = <<>> /\ proc = "up"
    BY <1>1, <1>7 DEF JobListed, BackfillInv
  <2>2. UNCHANGED <<proc, streaming>> /\ listed'
    BY <1>7 DEF JobListed
  <2>3. CASE todo' = todo
    BY <2>1, <2>2, <2>3 DEF BackfillInv, Backfilling
  <2>4. CASE todo' # todo
    <3>1. todo' = [todo EXCEPT !["job"] = OnBackfill] /\ UNCHANGED <<status, indexed>>
      BY <1>7, <2>4 DEF JobListed
    <3>2. /\ todo'["job"] = OnBackfill /\ todo'["pod"] = todo["pod"]
          /\ todo'["retry"] = todo["retry"]
      BY <1>1, <3>1 DEF TypeOK, Handlers
    <3> QED BY <2>1, <2>2, <3>1, <3>2 DEF BackfillInv, Unfound
  <2> QED BY <2>3, <2>4
<1>8. ASSUME NEW h \in Handlers, HandlerStep(h) PROVE BackfillInv'
  BY <1>1, <1>8, BackfillByHandler
<1>9. CASE Streamer
  BY <1>2, <1>9 DEF Streamer, StreamEnds, BeginFlush, InsertLines, AddLogSize
<1>10. ASSUME NEW g \in Samplers, Sampler(g) PROVE BackfillInv'
  BY <1>2, <1>10 DEF Sampler, DrawSample, InsertSample, EndSampling, Finalize
<1>11. CASE DeleteOldLogLines \/ Reader
  BY <1>2, <1>11 DEF DeleteOldLogLines, Reader, ReadRun, Reply
<1>12. CASE DeleteOldData
  BY <1>1, <1>12 DEF DeleteOldData, BackfillInv, Backfilling, Unfound
<1>13. ASSUME NEW k \in profile.asked, NEW n \in Limits, Ask(k, n) PROVE BackfillInv'
  BY <1>2, <1>13 DEF Ask
<1>14. CASE Shutdown
  BY <1>1, <1>14 DEF Shutdown, BackfillInv, Backfilling, Unfound
<1>15. CASE Exit
  <2>1. todo'["job"] = <<>> /\ todo'["pod"] = <<>> /\ todo'["retry"] = <<>>
    BY <1>15 DEF Exit, Handlers
  <2> QED BY <1>15, <2>1 DEF Exit, BackfillInv, Backfilling, Unfound
<1>16. CASE Restart
  <2>1. ~listed /\ Unfound
    BY <1>1, <1>16 DEF Restart, BackfillInv
  <2>2. status' # "running" /\ UNCHANGED <<indexed, listed, todo, streaming>> /\ proc' = "up"
    BY <1>16 DEF Restart
  <2> QED BY <1>1, <2>1, <2>2 DEF BackfillInv, Backfilling, Unfound
<1>17. CASE UNCHANGED vars
  BY <1>2, <1>17 DEF vars
<1> QED
  BY <1>3, <1>4, <1>5, <1>6, <1>7, <1>8, <1>9, <1>10, <1>11, <1>12, <1>13, <1>14, <1>15,
     <1>16, <1>17 DEF Next, Watch, Retention, Process

-----------------------------------------------------------------------------
(* What a flush has reported is in the body *)

\* The steps that neither write a row nor its lines, nor end a request.
LEMMA StoreUntouched ==
  ASSUME [Next]_vars
  PROVE  \/ UNCHANGED <<body, nextID, batch, streaming, removed, flushed, size, status, proc>>
         \/ Streamer \/ Retention \/ Process \/ JobDeleted \/ JobListed
         \/ \E h \in Handlers : CloseRun(h) \/ Stream(h)
<1> USE DEF clusterVars, rowVars, storeVars, handlerVars, streamerVars, samplerVars, history
<1>1. CASE Cluster
  BY <1>1 DEF Cluster, PodRuns, Write, PodEnds, GrowOld
<1>2. CASE PodEvent \/ RetryOnAdd
  BY <1>2 DEF PodEvent, RetryOnAdd
<1>3. ASSUME NEW h \in Handlers, Check(h) \/ Start(h) \/ Stop(h)
      PROVE  UNCHANGED <<body, nextID, batch, streaming, removed, flushed, size, status, proc>>
  BY <1>3 DEF Check, Start, Stop
<1>4. ASSUME NEW g \in Samplers, Sampler(g)
      PROVE  UNCHANGED <<body, nextID, batch, streaming, removed, flushed, size, status, proc>>
  BY <1>4 DEF Sampler, DrawSample, InsertSample, EndSampling, Finalize
<1>5. CASE Reader
  BY <1>5 DEF Reader, ReadRun, Reply
<1>6. ASSUME NEW k \in profile.asked, NEW n \in Limits, Ask(k, n)
      PROVE  UNCHANGED <<body, nextID, batch, streaming, removed, flushed, size, status, proc>>
  BY <1>6 DEF Ask
<1>7. CASE UNCHANGED vars
  BY <1>7 DEF vars
<1> QED BY <1>1, <1>2, <1>3, <1>4, <1>5, <1>6, <1>7 DEF Next, Watch, HandlerStep

\* The other steps that leave the lines alone: a stream begins only with an empty
\* batch, and a row is inserted only while nothing is streamed.
LEMMA LinesUntouched ==
  ASSUME DetailsInv, [Next]_vars
  PROVE  \/ /\ UNCHANGED <<body, nextID, removed, flushed, size>>
            /\ \/ UNCHANGED <<batch, streaming>>
               \/ streaming' \in {"off", "open"}
            /\ StoreOpen' /\ HasRow' => (StoreOpen /\ HasRow) \/ streaming' = "off"
         \/ InsertLines \/ AddLogSize \/ Retention \/ BeginFlush
<1> USE DEF clusterVars, rowVars, storeVars, handlerVars, streamerVars, samplerVars, history
<1>1. TypeOK /\ BackfillInv
  BY DEF DetailsInv
<1>2. CASE UNCHANGED <<body, nextID, batch, streaming, removed, flushed, size, status, proc>>
  BY <1>2 DEF StoreOpen, HasRow
<1>3. CASE StreamEnds
  BY <1>3 DEF StreamEnds
<1>4. CASE Shutdown
  BY <1>4 DEF Shutdown, StoreOpen, HasRow
<1>5. CASE Exit
  BY <1>5 DEF Exit
<1>6. CASE Restart
  BY <1>1, <1>6 DEF Restart, BackfillInv, Unfound
<1>7. CASE JobDeleted
  BY <1>7 DEF JobDeleted, StoreOpen, HasRow
<1>8. CASE JobListed
  BY <1>1, <1>8 DEF JobListed, BackfillInv, Unfound
<1>9. ASSUME NEW h \in Handlers, Stream(h)
      PROVE  /\ UNCHANGED <<body, nextID, removed, flushed, size, batch, status, proc>>
             /\ UNCHANGED streaming \/ streaming' = "open"
  BY <1>9 DEF Stream
<1>10. ASSUME NEW h \in Handlers, CloseRun(h)
       PROVE  /\ UNCHANGED <<body, nextID, removed, flushed, size, batch, streaming, proc>>
              /\ HasRow' => HasRow \/ streaming = "off"
  <2>1. UNCHANGED <<body, nextID, removed, flushed, size, batch, streaming, proc>>
    BY <1>10 DEF CloseRun
  <2>2. CASE h = "job"
    <3>1. Head(<<"stream">>) = "stream"
      OBVIOUS
    <3>2. Backfilling
      BY <1>10, <2>2 DEF CloseRun, At, Backfilling
    <3> QED BY <1>1, <2>1, <3>2 DEF BackfillInv, Unfound
  <2>3. CASE h # "job"
    BY <1>10, <2>1, <2>3 DEF CloseRun, HasRow
  <2> QED BY <2>1, <2>2, <2>3
<1> QED
  BY <1>2, <1>3, <1>4, <1>5, <1>6, <1>7, <1>8, <1>9, <1>10, StoreUntouched
  DEF Streamer, Process, StoreOpen, HasRow

LEMMA EmptyBody == Elements(<<>>) = {} /\ Len(<<>>) = 0
BY DEF Elements

\* A step of retention that removes lines says so.
LEMMA RetentionTells ==
  ASSUME TypeOK, Retention
  PROVE  /\ UNCHANGED <<nextID, batch, streaming, proc>> /\ body' = <<>>
         /\ removed' = (removed \/ body # <<>>)
         /\ \/ UNCHANGED <<size, flushed, status>> 
            \/ size' = 0 /\ flushed' = {} /\ ~HasRow'
BY DEF Retention, DeleteOldLogLines, DeleteOldData, storeVars, rowVars, streamerVars, HasRow

\* What was kept once is kept, or its removal is recorded.
LEMMA KeptStays ==
  ASSUME DetailsInv, [Next]_vars, NEW ids, Kept(ids)
  PROVE  removed' \/ ids \subseteq Elements(body')
<1>1. TypeOK
  BY DEF DetailsInv
<1>2. CASE UNCHANGED <<body, removed>>
  BY <1>2 DEF Kept
<1>3. CASE InsertLines
  <2>1. Elements(body) \subseteq Elements(body \o Numbered(nextID, batch))
    BY <1>1, AppendKeeps DEF TypeOK
  <2>2. body' \in {body, body \o Numbered(nextID, batch)} /\ UNCHANGED removed
    BY <1>3 DEF InsertLines, Numbered, history
  <2> QED BY <2>1, <2>2 DEF Kept
<1>4. CASE Retention
  <2>1. body' = <<>> /\ removed' = (removed \/ body # <<>>)
    BY <1>1, <1>4, RetentionTells
  <2> QED BY <2>1 DEF Kept
<1>5. CASE AddLogSize \/ BeginFlush
  BY <1>2, <1>5 DEF AddLogSize, BeginFlush, storeVars, history
<1> QED BY <1>2, <1>3, <1>4, <1>5, LinesUntouched

LEMMA BodyKept ==
  ASSUME DetailsInv, [Next]_vars
  PROVE  BodyInv'
<1>1. TypeOK /\ BodyInv
  BY DEF DetailsInv
<1>2. CASE UNCHANGED <<body, nextID>>
  BY <1>1, <1>2 DEF BodyInv
<1>3. CASE InsertLines
  <2>1. CASE UNCHANGED <<body, nextID>>
    BY <1>2, <2>1
  <2>2. CASE body' = body \o Numbered(nextID, batch) /\ nextID' = nextID + batch
    <3>1. /\ Len(body') = Len(body) + batch /\ Len(body) \in Nat
          /\ \A i \in 1..Len(body) : body'[i] = body[i] /\ body[i] \in Nat
          /\ \A i \in (Len(body) + 1)..(Len(body) + batch) :
               body'[i] = nextID + (i - Len(body)) - 1
      <4>1. body \in Seq(Nat) /\ nextID \in Nat /\ batch \in Nat
        BY <1>1 DEF TypeOK
      <4>2. Len(body) \in Nat /\ \A i \in 1..Len(body) : body[i] \in Nat
        BY <4>1
      <4> QED BY <2>2, <4>1, <4>2, AppendNumbered
    <3>2. nextID \in Nat /\ batch \in Nat
      BY <1>1 DEF TypeOK
    <3>3. \A i \in 1..Len(body') : body'[i] < nextID'
      BY <1>1, <2>2, <3>1, <3>2 DEF BodyInv
    <3>4. \A i, j \in 1..Len(body') : i < j => body'[i] < body'[j]
      <4> SUFFICES ASSUME NEW i \in 1..Len(body'), NEW j \in 1..Len(body'), i < j
                   PROVE  body'[i] < body'[j]
        OBVIOUS
      <4>1. CASE j <= Len(body)
        BY <1>1, <3>1, <4>1 DEF BodyInv
      <4>2. CASE i <= Len(body) /\ j > Len(body)
        <5>1. body'[i] < nextID
          BY <1>1, <3>1, <4>2 DEF BodyInv
        <5>2. body'[j] >= nextID
          BY <3>1, <3>2, <4>2
        <5> QED BY <3>1, <3>2, <4>2, <5>1, <5>2
      <4>3. CASE i > Len(body)
        BY <3>1, <3>2, <4>3
      <4> QED BY <3>1, <4>1, <4>2, <4>3
    <3> QED BY <3>3, <3>4 DEF BodyInv
  <2> QED BY <1>3, <2>1, <2>2 DEF InsertLines, Numbered
<1>4. CASE Retention
  BY <1>1, <1>4, RetentionTells, EmptyBody DEF BodyInv
<1>5. CASE AddLogSize \/ BeginFlush
  BY <1>2, <1>5 DEF AddLogSize, BeginFlush, storeVars
<1> QED BY <1>2, <1>3, <1>4, <1>5, LinesUntouched

LEMMA FlushKept ==
  ASSUME DetailsInv, [Next]_vars
  PROVE  FlushInv'
<1> USE DEF storeVars, rowVars, history
<1>1. TypeOK /\ FlushInv
  BY DEF DetailsInv
<1>2. \A ids : Kept(ids) => removed' \/ ids \subseteq Elements(body')
  BY KeptStays
<1>3. CASE /\ UNCHANGED <<body, nextID, removed, flushed, size>>
           /\ UNCHANGED <<batch, streaming>> \/ streaming' \in {"off", "open"}
           /\ StoreOpen' /\ HasRow' => (StoreOpen /\ HasRow) \/ streaming' = "off"
  BY <1>1, <1>3 DEF FlushInv, Kept, BatchIDs
<1>4. CASE BeginFlush
  BY <1>1, <1>4, DetailsAssumption DEF BeginFlush, FlushInv, Kept, BatchIDs
<1>5. CASE InsertLines
  <2>1. UNCHANGED <<batch, flushed, size, proc, status, removed>> /\ batch > 0 /\ streaming' = "size"
    BY <1>1, <1>5 DEF InsertLines, FlushInv
  <2>2. Kept(flushed)'
    BY <1>1, <1>2, <2>1 DEF FlushInv, Kept
  <2>3. ASSUME StoreOpen, HasRow PROVE batch' < nextID' /\ Kept(BatchIDs)'
    <3>1. body' = body \o Numbered(nextID, batch) /\ nextID' = nextID + batch
      BY <1>5, <2>3 DEF InsertLines, Numbered
    <3>2. body \in Seq(Nat) /\ nextID \in Nat /\ nextID > 0 /\ batch \in Nat
      BY <1>1 DEF TypeOK
    <3>3. nextID..(nextID + batch - 1) \subseteq Elements(body')
      BY <3>1, <3>2, AppendKeeps
    <3>4. BatchIDs' = nextID..(nextID + batch - 1)
      BY <2>1, <3>1, <3>2 DEF BatchIDs
    <3> QED BY <2>1, <3>1, <3>2, <3>3, <3>4 DEF Kept
  <2> QED BY <1>1, <2>1, <2>2, <2>3 DEF FlushInv, StoreOpen, HasRow
<1>6. CASE AddLogSize
  <2>1. UNCHANGED <<body, removed>> /\ streaming' = "open" /\ batch \in Nat /\ batch > 0 /\ size \in Nat
    BY <1>1, <1>6 DEF AddLogSize, FlushInv, TypeOK
  <2>2. CASE StoreOpen /\ HasRow
    <3>1. size' = size + batch /\ flushed' = flushed \cup BatchIDs
      BY <1>6, <2>2 DEF AddLogSize
    <3>2. Kept(BatchIDs) /\ Kept(flushed)
      BY <1>1, <1>6, <2>2 DEF AddLogSize, FlushInv
    <3>3. nextID - 1 \in BatchIDs
      BY <1>1, <2>1 DEF BatchIDs, TypeOK
    <3>4. size' # 0 /\ flushed' # {}
      BY <2>1, <3>1, <3>3
    <3>5. Kept(flushed)'
      BY <2>1, <3>1, <3>2 DEF Kept
    <3> QED BY <2>1, <3>4, <3>5 DEF FlushInv
  <2>3. CASE ~(StoreOpen /\ HasRow)
    <3>1. UNCHANGED <<size, flushed>>
      BY <1>6, <2>3 DEF AddLogSize
    <3> QED BY <1>1, <2>1, <3>1 DEF FlushInv, Kept
  <2> QED BY <2>2, <2>3
<1>7. CASE Retention
  <2>1. /\ UNCHANGED <<nextID, batch, streaming, proc>> /\ body' = <<>>
        /\ removed' = (removed \/ body # <<>>)
        /\ \/ UNCHANGED <<size, flushed, status>>
           \/ size' = 0 /\ flushed' = {} /\ ~HasRow'
    BY <1>1, <1>7, RetentionTells
  <2>2. Kept(flushed)'
    BY <1>1, <1>2, <2>1 DEF FlushInv, Kept
  <2>3. BatchIDs' = BatchIDs
    BY <2>1 DEF BatchIDs
  <2>4. streaming = "size" /\ StoreOpen' /\ HasRow' => batch' < nextID' /\ Kept(BatchIDs)'
    BY <1>1, <1>2, <2>1, <2>3 DEF FlushInv, Kept, StoreOpen, HasRow
  <2>5. size' = 0 <=> flushed' = {}
    BY <1>1, <2>1 DEF FlushInv
  <2> QED BY <1>1, <2>1, <2>2, <2>4, <2>5 DEF FlushInv
<1> QED BY <1>3, <1>4, <1>5, <1>6, <1>7, LinesUntouched

\* What a request has read of the row stays true of the body.
LEMMA RequestKept ==
  ASSUME DetailsInv, [Next]_vars
  PROVE  RequestInv'
<1>1. TypeOK /\ FlushInv /\ RequestInv
  BY DEF DetailsInv
<1>2. CASE UNCHANGED req
  <2>1. req.pc = "last" => removed' \/ req.flushed \subseteq Elements(body')
    BY <1>1, KeptStays DEF RequestInv
  <2> QED BY <1>1, <1>2, <2>1 DEF RequestInv, Kept
<1>3. ASSUME req' = NoRequest PROVE RequestInv'
  BY <1>3 DEF RequestInv, NoRequest
<1>4. CASE ReadRun
  <2>1. req \in Request /\ req.pc = "row"
    BY <1>1, <1>4 DEF ReadRun, TypeOK, NoRequest
  <2>2. CASE req' # NoRequest
    <3>1. /\ req' = [req EXCEPT !.pc = "last", !.running = (status = "running"),
                                !.size = size, !.flushed = flushed]
          /\ UNCHANGED <<body, removed>>
      BY <1>4, <2>2 DEF ReadRun, storeVars, history
    <3>2. req'.flushed = flushed /\ req'.size = size
      BY <2>1, <3>1 DEF Request
    <3> QED BY <1>1, <3>1, <3>2 DEF RequestInv, FlushInv, Kept
  <2> QED BY <1>3, <2>2
<1>5. ASSUME NEW k \in profile.asked, NEW n \in Limits, Ask(k, n)
      PROVE  RequestInv'
  <2>1. /\ req'.pc = IF k = "text" THEN "last" ELSE "row"
        /\ req'.kind = k
        /\ req'.flushed = IF k = "text" THEN flushed ELSE {}
        /\ UNCHANGED <<body, removed>>
    BY <1>5 DEF Ask, storeVars, history
  <2> QED BY <1>1, <2>1 DEF RequestInv, FlushInv, Kept
<1>6. UNCHANGED req \/ req' = NoRequest \/ ReadRun
        \/ \E k \in profile.asked, n \in Limits : Ask(k, n)
  <2>1. CASE Cluster
    BY <2>1 DEF Cluster, PodRuns, Write, PodEnds, GrowOld
  <2>2. CASE Watch
    BY <2>2 DEF Watch, PodEvent, RetryOnAdd, JobDeleted, JobListed
  <2>3. ASSUME NEW h \in Handlers, HandlerStep(h) PROVE UNCHANGED req
    BY <2>3 DEF HandlerStep, Check, CloseRun, Stream, Start, Stop
  <2>4. ASSUME NEW g \in Samplers, Sampler(g) PROVE UNCHANGED req
    BY <2>4 DEF Sampler, DrawSample, InsertSample, EndSampling, Finalize
  <2>5. CASE Streamer \/ Retention
    BY <2>5 DEF Streamer, StreamEnds, BeginFlush, InsertLines, AddLogSize, Retention,
                DeleteOldLogLines, DeleteOldData
  <2>6. CASE Reply \/ Process
    BY <2>6 DEF Reply, Process, Shutdown, Exit, Restart
  <2>7. CASE UNCHANGED vars
    BY <2>7 DEF vars
  <2> QED BY <2>1, <2>2, <2>3, <2>4, <2>5, <2>6, <2>7 DEF Next, Reader
<1> QED BY <1>2, <1>3, <1>4, <1>5, <1>6

-----------------------------------------------------------------------------
(* The summary *)

\* What a row has lost with its deletion, no one writes until it is back.
LEMMA RowKept ==
  ASSUME DetailsInv, [Next]_vars
  PROVE  RowInv'
<1> USE DEF clusterVars, rowVars, storeVars, handlerVars, streamerVars, samplerVars, history
<1>1. TypeOK /\ RowInv
  BY DEF DetailsInv
<1>2. ASSUME UNCHANGED <<size, usage, samples>>, HasRow => HasRow'
      PROVE  RowInv'
  BY <1>1, <1>2 DEF RowInv
<1>3. CASE Cluster \/ PodEvent \/ RetryOnAdd \/ Reader
  BY <1>2, <1>3 DEF Cluster, PodRuns, Write, PodEnds, GrowOld, PodEvent, RetryOnAdd, Reader,
                    ReadRun, Reply, HasRow
<1>4. CASE JobDeleted \/ JobListed
  BY <1>2, <1>4 DEF JobDeleted, JobListed, HasRow
<1>5. ASSUME NEW h \in Handlers, Check(h) \/ Stream(h) \/ Start(h) \/ Stop(h)
      PROVE  RowInv'
  BY <1>2, <1>5 DEF Check, Stream, Start, Stop, HasRow
<1>6. ASSUME NEW h \in Handlers, CloseRun(h) PROVE RowInv'
  <2>1. phase # "none"
    BY <1>1 DEF TypeOK
  <2> QED BY <1>2, <1>6, <2>1 DEF CloseRun, HasRow
<1>7. CASE Streamer
  BY <1>1, <1>7 DEF Streamer, StreamEnds, BeginFlush, InsertLines, AddLogSize, RowInv, HasRow
<1>8. ASSUME NEW g \in Samplers, Sampler(g) PROVE RowInv'
  BY <1>1, <1>8 DEF Sampler, DrawSample, InsertSample, EndSampling, Finalize, RowInv, HasRow
<1>9. CASE Retention
  BY <1>1, <1>9 DEF Retention, DeleteOldLogLines, DeleteOldData, RowInv, HasRow
<1>10. ASSUME NEW k \in profile.asked, NEW n \in Limits, Ask(k, n) PROVE RowInv'
  BY <1>2, <1>10 DEF Ask, HasRow
<1>11. CASE Process
  BY <1>2, <1>11 DEF Process, Shutdown, Exit, Restart, HasRow
<1>12. CASE UNCHANGED vars
  BY <1>2, <1>12 DEF vars, HasRow
<1> QED BY <1>3, <1>4, <1>5, <1>6, <1>7, <1>8, <1>9, <1>10, <1>11, <1>12
        DEF Next, Watch, HandlerStep

\* A goroutine that finishes sums up all the samples stored by then.
LEMMA UsageKept ==
  ASSUME DetailsInv, [Next]_vars
  PROVE  UsageIsFinal'
<1> USE DEF clusterVars, rowVars, storeVars, handlerVars, streamerVars, samplerVars, history
<1>1. TypeOK /\ RowInv /\ UsageIsFinal
  BY DEF DetailsInv
<1>2. ASSUME UNCHANGED <<usage, samples, spc, lost>>
      PROVE  UsageIsFinal'
  BY <1>1, <1>2 DEF UsageIsFinal, RowInv, HasRow
<1>3. CASE Cluster \/ Watch \/ Streamer \/ Reader \/ DeleteOldLogLines
  BY <1>2, <1>3 DEF Cluster, PodRuns, Write, PodEnds, GrowOld, Watch, PodEvent, RetryOnAdd,
                    JobDeleted, JobListed, Streamer, StreamEnds, BeginFlush, InsertLines,
                    AddLogSize, Reader, ReadRun, Reply, DeleteOldLogLines
<1>4. CASE DeleteOldData
  BY <1>4 DEF DeleteOldData, UsageIsFinal
<1>5. ASSUME NEW h \in Handlers, Check(h) \/ CloseRun(h) \/ Stream(h) \/ Stop(h)
      PROVE  UsageIsFinal'
  BY <1>2, <1>5 DEF Check, CloseRun, Stream, Stop
<1>6. ASSUME NEW g \in Samplers, UNCHANGED <<usage, status, lost>>,
             \A sample \in samples' : sample \in samples \/ sample[1] = g,
             spc'[g] \notin {"none", "done"},
             \A h \in Samplers \ {g} : spc'[h] = spc[h]
      PROVE  UsageIsFinal'
  <2> SUFFICES ASSUME HasRow, ~lost, NEW sample \in samples' \ usage
               PROVE  spc'[sample[1]] \notin {"none", "done"}
    BY <1>6 DEF UsageIsFinal, HasRow
  <2>1. CASE sample[1] = g
    BY <1>6, <2>1
  <2>2. CASE sample[1] # g
    <3>1. sample \in samples /\ sample[1] \in Samplers \ {g}
      BY <1>1, <1>6, <2>2 DEF RowInv
    <3> QED BY <1>1, <1>6, <3>1 DEF UsageIsFinal
  <2> QED BY <2>1, <2>2
<1>7. ASSUME NEW h \in Handlers, Start(h) PROVE UsageIsFinal'
  <2>1. CASE active = 0
    <3>1. PICK g \in Samplers : spc' = [spc EXCEPT ![g] = "select"]
      BY <1>7, <2>1 DEF Start
    <3>2. UNCHANGED <<usage, status, lost, samples>>
      BY <1>7 DEF Start
    <3> QED BY <1>1, <1>6, <3>1, <3>2 DEF TypeOK
  <2>2. CASE active # 0
    BY <1>2, <1>7, <2>2 DEF Start
  <2> QED BY <2>1, <2>2
<1>8. ASSUME NEW g \in Samplers, DrawSample(g) \/ InsertSample(g) \/ EndSampling(g)
      PROVE  UsageIsFinal'
  <2>1. /\ spc'[g] \notin {"none", "done"}
        /\ \A h \in Samplers \ {g} : spc'[h] = spc[h]
    BY <1>1, <1>8 DEF DrawSample, InsertSample, EndSampling, TypeOK
  <2>2. UNCHANGED <<usage, status, lost>>
    BY <1>8 DEF DrawSample, InsertSample, EndSampling
  <2>3. \A sample \in samples' : sample \in samples \/ sample[1] = g
    BY <1>8 DEF DrawSample, InsertSample, EndSampling
  <2> QED BY <1>6, <2>1, <2>2, <2>3
<1>9. ASSUME NEW g \in Samplers, Finalize(g) PROVE UsageIsFinal'
  BY <1>9 DEF Finalize, UsageIsFinal, HasRow
<1>10. ASSUME NEW k \in profile.asked, NEW n \in Limits, Ask(k, n) PROVE UsageIsFinal'
  BY <1>2, <1>10 DEF Ask
<1>11. CASE Shutdown \/ Restart
  BY <1>2, <1>11 DEF Shutdown, Restart
<1>12. CASE Exit
  <2> SUFFICES ASSUME HasRow, ~lost', NEW sample \in samples \ usage
               PROVE  FALSE
    BY <1>12 DEF Exit, UsageIsFinal, HasRow
  <2>1. ~lost /\ \A g \in Samplers : spc[g] \in {"none", "done"}
    BY <1>12 DEF Exit
  <2>2. sample[1] \in Samplers
    BY <1>1 DEF RowInv
  <2> QED BY <1>1, <2>1, <2>2 DEF UsageIsFinal
<1>13. CASE UNCHANGED vars
  BY <1>2, <1>13 DEF vars
<1> QED BY <1>3, <1>4, <1>5, <1>7, <1>8, <1>9, <1>10, <1>11, <1>12, <1>13
        DEF Next, Retention, Process, HandlerStep, Sampler

-----------------------------------------------------------------------------
(* The theorems *)

\* The inductive invariant: what a flush or a request has seen stored is in the
\* body or its removal is recorded, ids are in order, no row is inserted anew
\* under a stream, and a row that is gone has left nothing.
THEOREM DetailsInvariant == Spec => []DetailsInv
<1>1. Init => DetailsInv
  <2> SUFFICES ASSUME Init PROVE DetailsInv
    OBVIOUS
  <2>1. TypeOK
    <3>1. todo \in [Handlers -> Plans]
      BY HandlerPlans DEF Init
    <3>2. body \in Seq(Nat) /\ flushed \in SUBSET Nat
      BY EmptySeq DEF Init
    <3>3. spc \in [Samplers -> {"none", "select", "insert", "finalize", "done"}]
      BY DEF Init
    <3>4. /\ profile \in Profiles /\ proc \in {"up", "closing", "down"}
          /\ phase \in {"pending", "running", "succeeded", "failed"}
          /\ status \in {"none", "running", "pending", "succeeded", "failed"}
          /\ streaming \in {"off", "open", "insert", "size"}
          /\ req \in {NoRequest} \cup Request
      BY DEF Init
    <3>5. size \in Nat /\ nextID \in Nat \ {0} /\ batch \in Nat
      BY DEF Init
    <3>6. {listed, indexed, removed, lost} \subseteq BOOLEAN
      BY DEF Init
    <3> QED BY <3>1, <3>2, <3>3, <3>4, <3>5, <3>6 DEF TypeOK
  <2>2. BackfillInv
    BY DEF Init, BackfillInv, Backfilling, Handlers
  <2>3. BodyInv
    BY EmptyBody DEF Init, BodyInv
  <2>4. FlushInv /\ RequestInv /\ RowInv /\ UsageIsFinal
    BY DEF Init, FlushInv, RequestInv, RowInv, UsageIsFinal, Kept, NoRequest, HasRow
  <2> QED BY <2>1, <2>2, <2>3, <2>4 DEF DetailsInv
<1>2. DetailsInv /\ [Next]_vars => DetailsInv'
  BY TypesKept, BackfillKept, BodyKept, FlushKept, RequestKept, RowKept, UsageKept DEF DetailsInv
<1> QED BY <1>1, <1>2, PTL DEF Spec

\* The tail of a body that holds something holds something.
LEMMA TailHolds ==
  ASSUME TypeOK, NEW n \in Nat, LogLinesTail(n) = <<>>
  PROVE  body = <<>>
<1>1. body \in Seq(Nat)
  BY DEF TypeOK
<1>2. CASE n = 0
  BY <1>2 DEF LogLinesTail
<1>3. CASE n # 0 /\ n < Len(body)
  <2>1. Len(Last(body, n)) = n /\ Last(body, n) = <<>>
    BY <1>1, <1>3, LastOf DEF LogLinesTail
  <2> QED BY <1>3, <2>1, EmptyBody
<1>4. CASE n # 0 /\ n >= Len(body)
  BY <1>1, <1>4, LastOf DEF LogLinesTail
<1> QED BY <1>1, <1>2, <1>3, <1>4

\* "expired" is said of a log only after lines of it have been removed.
THEOREM ExpiredIsAlwaysTrue == Spec => []ExpiredIsTrue
<1>1. DetailsInv => ExpiredIsTrue
  <2> SUFFICES ASSUME DetailsInv, Answers({"logs"}), Answer.expired PROVE removed
    BY DEF ExpiredIsTrue
  <2>1. TypeOK /\ RequestInv /\ req.pc = "last" /\ req.kind = "logs"
    BY DEF DetailsInv, Answers
  <2>2. req \in Request
    BY <2>1 DEF TypeOK, NoRequest
  <2>3. req.limit \in Nat /\ req.size \in Nat
    BY <2>2 DEF Request
  <2>4. LogLinesTail(req.limit) = <<>> /\ req.size > 0
    BY DEF Answer
  <2>5. body = <<>>
    BY <2>1, <2>3, <2>4, TailHolds
  <2>6. req.flushed # {} /\ Kept(req.flushed)
    BY <2>1, <2>3, <2>4 DEF RequestInv
  <2> QED BY <2>5, <2>6, EmptyBody DEF Kept
<1> QED BY <1>1, DetailsInvariant, PTL

\* A log that is neither expired nor of a running run, and yet without lines, is
\* that of a run no line of which had been flushed.
THEOREM SilenceIsAlwaysTrue == Spec => []SilenceIsTrue
<1>1. DetailsInv => SilenceIsTrue
  <2> SUFFICES ASSUME DetailsInv, Answers({"logs"}), Answer.lines = <<>>, ~Answer.expired
               PROVE  req.flushed = {}
    BY DEF SilenceIsTrue
  <2>1. TypeOK /\ RequestInv /\ req.pc = "last" /\ req.kind = "logs"
    BY DEF DetailsInv, Answers
  <2>2. req \in Request
    BY <2>1 DEF TypeOK, NoRequest
  <2>3. req.size \in Nat
    BY <2>2 DEF Request
  <2>4. LogLinesTail(req.limit) = <<>> /\ ~(req.size > 0)
    BY DEF Answer
  <2> QED BY <2>1, <2>3, <2>4 DEF RequestInv
<1> QED BY <1>1, DetailsInvariant, PTL

\* Until retention removes lines, an answer leaves out a flushed line only under
\* the word "truncated", and only older lines than those it shows.
THEOREM NothingIsLeftOut == Spec => []NothingLeftOut
<1>1. DetailsInv => NothingLeftOut
  <2> SUFFICES ASSUME DetailsInv, Answers({"logs", "page", "text"}), ~removed
               PROVE  LET missing == req.flushed \ Elements(Answer.lines)
                      IN  /\ missing # {} => Answer.truncated
                          /\ \A l \in missing, k \in Elements(Answer.lines) : l < k
    BY DEF NothingLeftOut
  <2> DEFINE n == req.limit
             lines == LogLinesTail(n)
             missing == req.flushed \ Elements(lines)
  <2>1. TypeOK /\ RequestInv /\ BodyInv /\ req.pc = "last"
    BY DEF DetailsInv, Answers
  <2>2. req \in Request
    BY <2>1 DEF TypeOK, NoRequest
  <2>3. n \in Nat /\ body \in Seq(Nat)
    BY <2>1, <2>2 DEF Request, TypeOK
  <2>4. req.flushed \subseteq Elements(body)
    BY <2>1 DEF RequestInv, Kept
  <2>5. Answer.lines = lines /\ (Answer.truncated <=> n > 0 /\ Len(lines) = n)
    BY DEF Answer
  <2>6. CASE lines = body
    BY <2>4, <2>5, <2>6
  <2>7. CASE lines # body
    <3>1. n > 0 /\ n < Len(body)
      BY <2>3, <2>7, LastOf DEF LogLinesTail
    <3>2. /\ lines \in Seq(Nat) /\ Len(lines) = n
          /\ \A i \in 1..n : lines[i] = body[Len(body) - n + i]
      BY <2>3, <3>1, LastOf DEF LogLinesTail
    <3>3. Len(body) \in Nat /\ DOMAIN body = 1..Len(body) /\ DOMAIN lines = 1..n
      BY <2>3, <3>2
    <3> HIDE DEF lines, n
    <3>4. ASSUME NEW l \in missing, NEW k \in Elements(lines) PROVE l < k
      <4>1. PICK i \in 1..n : k = body[Len(body) - n + i]
        BY <3>2, <3>3, <3>4 DEF Elements
      <4>2. PICK j \in 1..Len(body) : l = body[j]
        BY <2>4, <3>3, <3>4 DEF Elements
      <4>3. j <= Len(body) - n
        <5> SUFFICES ASSUME j > Len(body) - n PROVE FALSE
          BY <2>3, <3>3
        <5>1. j - (Len(body) - n) \in 1..n
          BY <2>3, <3>3
        <5>2. lines[j - (Len(body) - n)] = body[j]
          BY <2>3, <3>2, <3>3, <5>1
        <5>3. l \in Elements(lines)
          BY <3>3, <4>2, <5>1, <5>2 DEF Elements
        <5> QED BY <3>4, <5>3
      <4>4. Len(body) - n + i \in 1..Len(body) /\ j < Len(body) - n + i
        BY <2>3, <3>1, <3>3, <4>3
      <4> QED BY <2>1, <4>1, <4>2, <4>4 DEF BodyInv
    <3>5. Answer.truncated
      BY <2>5, <3>1, <3>2
    <3> QED BY <2>5, <3>4, <3>5
  <2> QED BY <2>6, <2>7
<1> QED BY <1>1, DetailsInvariant, PTL

\* Unless a stop of the process has cut a sampler off, the summary leaves out
\* only samples of goroutines that still run, for any number of them.
THEOREM UsageIsAlwaysFinal == Spec => []UsageIsFinal
<1>1. DetailsInv => UsageIsFinal
  BY DEF DetailsInv
<1> QED BY <1>1, DetailsInvariant, PTL
=============================================================================
