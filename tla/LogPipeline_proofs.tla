------------------------- MODULE LogPipeline_proofs -------------------------
(***************************************************************************)
(* Proofs about LogPipeline, for every number of viewers, log length,      *)
(* number of streaming goroutines and every channel capacity.              *)
(***************************************************************************)
EXTENDS LogPipeline, SequenceTheorems, TLAPS

\* The map of the broadcaster never holds a closed channel: preserved by every
\* step of the streamer and of an SSE handler.
LEMMA PanicStep == PanicInv /\ [Next]_vars => PanicInv'
<1> SUFFICES ASSUME PanicInv, [Next]_vars PROVE PanicInv'
  OBVIOUS
<1> USE DEF PanicInv, NoPanic, podVars, streamVars, storeVars, channelVars,
            clientVars
<1>1. CASE Produce \/ Terminate \/ FinishRun \/ WantLog
  BY <1>1 DEF Produce, Terminate, FinishRun, WantLog
<1>2. CASE Streamer
  <2>1. CASE Stream \/ OpenLog \/ ReadLine \/ ReadEOF
    BY <2>1 DEF Stream, OpenLog, ReadLine, ReadEOF
  <2>2. CASE TakeLine \/ TickFlush \/ LineChClosed \/ Insert \/ AddSize
    BY <2>2 DEF TakeLine, TickFlush, LineChClosed, Insert, AddSize
  <2>3. CASE Publish
    BY <2>3 DEF Publish
  <2>4. CASE Unregister
    BY <2>4 DEF Unregister
  <2>5. CASE Close
    BY <2>5 DEF Close
  <2> QED
    BY <1>2, <2>1, <2>2, <2>3, <2>4, <2>5 DEF Streamer
<1>3. ASSUME NEW c \in Clients, Client(c) PROVE PanicInv'
  <2>1. CASE Request(c)
    BY <2>1 DEF Request
  <2>2. CASE ReplayFinished(c)
    BY <2>2 DEF ReplayFinished
  <2>3. CASE Subscribe(c)
    BY <2>3 DEF Subscribe
  <2>4. CASE Replay(c)
    BY <2>4 DEF Replay
  <2>5. CASE Receive(c) \/ ChannelClosed(c)
    BY <2>5 DEF Receive, ChannelClosed
  <2>6. CASE TickDone(c) \/ Disconnect(c)
    BY <2>6 DEF TickDone, Disconnect
  <2>7. CASE Unsub(c)
    BY <2>7 DEF Unsub
  <2> QED
    BY <1>3, <2>1, <2>2, <2>3, <2>4, <2>5, <2>6, <2>7 DEF Client
<1>4. CASE UNCHANGED vars
  BY <1>4 DEF vars
<1> QED
  BY <1>1, <1>2, <1>3, <1>4 DEF Next

\* No goroutine ever sends on, or closes, a closed channel: the panic that
\* Publish's comment says its read lock eliminates cannot happen, for any
\* number of viewers and in any order of Publish, Close and unsub.
THEOREM BroadcasterNeverPanics == Spec => []NoPanic
<1>1. Init => PanicInv
  BY DEF Init, PanicInv, NoPanic
<1>2. PanicInv => NoPanic
  BY DEF PanicInv
<1> QED
  BY <1>1, <1>2, PanicStep, PTL DEF Spec

-----------------------------------------------------------------------------
(* Sequences as sets of lines                                              *)

\* Sending a line adds it to a channel.
LEMMA ElementsAppend ==
  ASSUME NEW s \in Seq(Nat), NEW x \in Nat
  PROVE  /\ Append(s, x) \in Seq(Nat) /\ Append(s, x) # <<>>
         /\ Elements(Append(s, x)) = Elements(s) \cup {x}
<1>1. DOMAIN Append(s, x) = 1..(Len(s) + 1) /\ DOMAIN s = 1..Len(s)
  OBVIOUS
<1>2. \A i \in 1..Len(s) : Append(s, x)[i] = s[i]
  OBVIOUS
<1>3. Append(s, x)[Len(s) + 1] = x /\ Len(s) \in Nat
  OBVIOUS
<1>4. 1..(Len(s) + 1) = (1..Len(s)) \cup {Len(s) + 1}
  BY <1>3
<1> QED
  BY <1>1, <1>2, <1>3, <1>4 DEF Elements

\* Receiving takes the first line out of a channel.
LEMMA ElementsTail ==
  ASSUME NEW s \in Seq(Nat), s # <<>>
  PROVE  /\ Head(s) \in Nat /\ Tail(s) \in Seq(Nat)
         /\ Elements(s) = {Head(s)} \cup Elements(Tail(s))
         /\ Len(s) # 1 => Tail(s) # <<>>
         /\ Len(s) = 1 => Elements(s) = {Head(s)}
<1>1. /\ Len(s) \in Nat \ {0} /\ DOMAIN s = 1..Len(s)
      /\ DOMAIN Tail(s) = 1..(Len(s) - 1)
  OBVIOUS
<1>2. \A i \in 1..(Len(s) - 1) : Tail(s)[i] = s[i + 1]
  OBVIOUS
<1>3. Head(s) = s[1]
  OBVIOUS
<1>4. ASSUME NEW i \in 1..Len(s), i # 1
      PROVE  s[i] \in Elements(Tail(s))
  <2>1. i - 1 \in 1..(Len(s) - 1) /\ s[i] = Tail(s)[i - 1]
    BY <1>1, <1>2, <1>4
  <2> QED
    BY <1>1, <2>1 DEF Elements
<1>5. ASSUME NEW i \in 1..(Len(s) - 1)
      PROVE  Tail(s)[i] \in Elements(s)
  <2>1. i + 1 \in 1..Len(s)
    BY <1>1
  <2> QED
    BY <1>1, <1>2, <2>1 DEF Elements
<1>6. Elements(s) = {Head(s)} \cup Elements(Tail(s))
  <2>1. Elements(s) \subseteq {Head(s)} \cup Elements(Tail(s))
    <3>1. ASSUME NEW x \in Elements(s)
          PROVE  x = Head(s) \/ x \in Elements(Tail(s))
      <4>1. PICK i \in 1..Len(s) : x = s[i]
        BY <1>1 DEF Elements
      <4> QED
        BY <1>3, <1>4, <4>1
    <3> QED
      BY <3>1
  <2>2. Head(s) \in Elements(s)
    <3>1. 1 \in 1..Len(s)
      BY <1>1
    <3> QED
      BY <1>1, <1>3, <3>1 DEF Elements
  <2>3. Elements(Tail(s)) \subseteq Elements(s)
    <3>1. ASSUME NEW x \in Elements(Tail(s)) PROVE x \in Elements(s)
      <4>1. PICK i \in 1..(Len(s) - 1) : x = Tail(s)[i]
        BY <1>1 DEF Elements
      <4> QED
        BY <1>5, <4>1
    <3> QED
      BY <3>1
  <2> QED
    BY <2>1, <2>2, <2>3
<1>7. Len(s) = 1 => Elements(s) = {Head(s)}
  BY <1>1, <1>3 DEF Elements
<1>8. /\ Head(s) \in Nat /\ Tail(s) \in Seq(Nat)
      /\ Len(s) # 1 => Tail(s) # <<>>
  <2>1. Head(s) \in Nat /\ Tail(s) \in Seq(Nat) /\ Len(Tail(s)) = Len(s) - 1
    OBVIOUS
  <2>2. Len(s) # 1 => Len(Tail(s)) # 0
    BY <1>1, <2>1
  <2>3. Len(<<>>) = 0
    OBVIOUS
  <2> QED
    BY <2>1, <2>2, <2>3
<1> QED
  BY <1>6, <1>7, <1>8

-----------------------------------------------------------------------------
(* No gap between the replay and the live lines                            *)

\* The parts of GapInv that only the streamer's own steps touch.
LEMMA SeqsStreamer ==
  ASSUME SeqsOK, Streamer
  PROVE  SeqsOK'
<1> USE DEF SeqsOK, podVars, streamVars, storeVars, channelVars, clientVars
<1>0. CASE Stream
  BY <1>0 DEF Stream
<1>1. CASE OpenLog \/ ReadEOF
  BY <1>1 DEF OpenLog, ReadEOF
<1>2. CASE ReadLine
  <2>1. Entry(session, read + 1) \in Nat
    <3>1. session - 1 \in Nat /\ LogLength \in Nat /\ read + 1 \in Nat
      BY <1>2, PipelineAssumption DEF ReadLine
    <3>2. \A m, n \in Nat : m * n \in Nat
      OBVIOUS
    <3>3. (session - 1) * LogLength \in Nat
      BY <3>1, <3>2, Zenon
    <3>4. \A m, n \in Nat : m + n \in Nat
      OBVIOUS
    <3> QED
      BY <3>1, <3>3, <3>4, Zenon DEF Entry
  <2>2. lineCh' \in Seq(Nat)
    BY <1>2, <2>1, ElementsAppend DEF ReadLine
  <2> QED
    BY <1>2, <2>2 DEF ReadLine
<1>3. CASE TakeLine
  <2>1. lineCh' \in Seq(Nat) /\ Head(lineCh) \in Nat
    BY <1>3, ElementsTail DEF TakeLine
  <2>2. batch' \in Seq(Nat) /\ batch' # <<>>
    BY <1>3, <2>1, ElementsAppend DEF TakeLine
  <2> QED
    BY <1>3, <2>1, <2>2 DEF TakeLine
<1>4. CASE TickFlush \/ LineChClosed \/ AddSize \/ Unregister \/ Close
  BY <1>4 DEF TickFlush, LineChClosed, AddSize, Unregister, Close
<1>5. CASE Insert
  <2>1. Elements(batch) \subseteq Nat
    BY DEF Elements
  <2> QED
    BY <1>5, <2>1 DEF Insert
<1>6. CASE Publish
  <2>1. /\ Head(batch) \in Nat /\ batch' \in Seq(Nat)
        /\ pc' = "publish" => batch' # <<>>
    BY <1>6, ElementsTail DEF Publish, AfterPublish
  <2>2. chan' \in [Clients -> Seq(Nat)]
    BY <1>6, <2>1, ElementsAppend DEF Publish
  <2>3. skipped' \in [Clients -> SUBSET Nat]
    BY <1>6, <2>1 DEF Publish
  <2>4. pc' \in {"select", "publish"}
    BY <1>6 DEF Publish, AfterPublish
  <2> QED
    BY <1>6, <2>1, <2>2, <2>3, <2>4 DEF Publish
<1> QED
  BY <1>0, <1>1, <1>2, <1>3, <1>4, <1>5, <1>6 DEF Streamer

\* ... and the ones an SSE handler touches.
LEMMA SeqsClient ==
  ASSUME SeqsOK, NEW c \in Clients, Client(c)
  PROVE  SeqsOK'
<1> USE DEF SeqsOK, podVars, streamVars, storeVars, channelVars, clientVars
<1>1. CASE Request(c) \/ Subscribe(c) \/ ChannelClosed(c) \/ TickDone(c)
             \/ Disconnect(c) \/ Unsub(c)
  BY <1>1 DEF Request, Subscribe, ChannelClosed, TickDone, Disconnect, Unsub
<1>2. CASE ReplayFinished(c) \/ Replay(c)
  <2>1. LogTail \subseteq Nat
    BY DEF LogTail
  <2>2. PICK lines \in SUBSET Nat :
          /\ replayed' = [replayed EXCEPT ![c] = lines]
          /\ \/ skipped' = [skipped EXCEPT ![c] = stored \ lines]
             \/ skipped' = [skipped EXCEPT ![c] = @ \cup (stored \ lines)]
    BY <1>2, <2>1 DEF ReplayFinished, Replay
  <2>3. UNCHANGED <<streamVars, storeVars, channelVars, live>>
    BY <1>2 DEF ReplayFinished, Replay
  <2> QED
    BY <2>2, <2>3
<1>3. CASE Receive(c)
  <2>1. Head(chan[c]) \in Nat /\ Tail(chan[c]) \in Seq(Nat)
    BY <1>3, ElementsTail DEF Receive
  <2> QED
    BY <1>3, <2>1 DEF Receive
<1> QED
  BY <1>1, <1>2, <1>3 DEF Client

\* What a subscribed viewer in its loop has been sent, will find in its
\* channel, or will never get, covers the stored lines not yet published.
LEMMA GapStreamer ==
  ASSUME GapInv, PanicInv, Streamer
  PROVE  NoGap'
<1> USE DEF GapInv, podVars, streamVars, storeVars, channelVars, clientVars
<1>1. CASE \/ Stream \/ OpenLog \/ ReadLine \/ ReadEOF \/ TakeLine
           \/ TickFlush \/ LineChClosed \/ Unregister
  <2>1. /\ UNCHANGED <<stored, subs, chan, cpc, replayed, live, skipped>>
        /\ pc \in {"size", "publish"} => UNCHANGED <<pc, batch>>
    BY <1>1 DEF Stream, OpenLog, ReadLine, ReadEOF, TakeLine, TickFlush,
                LineChClosed, Unregister, SeqsOK
  <2> QED
    BY <2>1 DEF NoGap
<1>2. CASE Insert
  <2>1. /\ UNCHANGED <<subs, chan, cpc, replayed, live, skipped, batch>>
        /\ stored' \subseteq stored \cup Elements(batch)
        /\ pc = "insert" /\ pc' = "size"
    BY <1>2 DEF Insert
  <2> QED
    BY <2>1 DEF NoGap
<1>3. CASE AddSize
  <2>1. /\ UNCHANGED <<stored, subs, chan, cpc, replayed, live, skipped,
                       batch>>
        /\ pc = "size" /\ pc' = "publish"
    BY <1>3 DEF AddSize
  <2> QED
    BY <2>1 DEF NoGap
<1>4. CASE Publish
  <2> SUFFICES ASSUME NEW c \in subs, cpc[c] = "loop", c \in Clients,
                      NEW e \in stored
               PROVE  \/ e \in replayed[c] \cup live[c]
                      \/ e \in Elements(chan'[c]) \cup skipped'[c]
                      \/ pc' = "publish" /\ e \in Elements(batch')
    <3>1. subs \subseteq Clients
      BY DEF PanicInv
    <3>2. UNCHANGED <<stored, subs, cpc, replayed, live>>
      BY <1>4 DEF Publish
    <3> QED
      BY <3>1, <3>2 DEF NoGap
  <2>1. /\ Head(batch) \in Nat
        /\ Elements(batch) = {Head(batch)} \cup Elements(Tail(batch))
        /\ Len(batch) = 1 => Elements(batch) = {Head(batch)}
    BY <1>4, ElementsTail DEF Publish, SeqsOK
  <2>2. \/ e \in replayed[c] \cup live[c] \cup Elements(chan[c]) \cup skipped[c]
        \/ e = Head(batch)
        \/ pc' = "publish" /\ e \in Elements(batch')
    BY <1>4, <2>1 DEF NoGap, Publish, AfterPublish
  <2>3. /\ Elements(chan[c]) \subseteq Elements(chan'[c])
        /\ skipped[c] \subseteq skipped'[c]
        /\ Head(batch) \in Elements(chan'[c]) \cup skipped'[c]
    <3>1. CASE Len(chan[c]) < ChanCap
      <4>1. chan'[c] = Append(chan[c], Head(batch)) /\ skipped'[c] = skipped[c]
        BY <1>4, <3>1 DEF Publish
      <4>2. chan[c] \in Seq(Nat)
        BY DEF SeqsOK
      <4> QED
        BY <2>1, <4>1, <4>2, ElementsAppend
    <3>2. CASE ~(Len(chan[c]) < ChanCap)
      BY <1>4, <3>2 DEF Publish
    <3> QED
      BY <3>1, <3>2
  <2> QED
    BY <2>2, <2>3
<1>5. CASE Close
  BY <1>5 DEF Close, NoGap
<1> QED
  BY <1>1, <1>2, <1>3, <1>4, <1>5 DEF Streamer

\* The same for the steps of the SSE handlers: Replay, which runs after
\* Subscribe, establishes it, and Receive moves a line from the channel.
LEMMA GapClient ==
  ASSUME GapInv, PanicInv, NEW c \in Clients, Client(c)
  PROVE  NoGap'
<1> USE DEF GapInv, podVars, streamVars, storeVars, channelVars, clientVars
<1>1. CASE \/ Request(c) \/ ReplayFinished(c) \/ Subscribe(c) \/ TickDone(c)
           \/ Disconnect(c) \/ Unsub(c)
  <2>1. /\ UNCHANGED <<stored, pc, batch, chan, live>>
        /\ subs' \subseteq subs \cup {c}
        /\ cpc'[c] # "loop"
        /\ \A d \in Clients \ {c} :
             /\ cpc'[d] = cpc[d] /\ replayed'[d] = replayed[d]
             /\ skipped'[d] = skipped[d]
    BY <1>1 DEF Request, ReplayFinished, Subscribe, TickDone, Disconnect,
                Unsub, PanicInv, SeqsOK
  <2> QED
    BY <2>1 DEF NoGap, PanicInv
<1>2. CASE Replay(c)
  <2>1. /\ UNCHANGED <<stored, pc, batch, chan, live, subs>>
        /\ stored \subseteq replayed'[c] \cup skipped'[c]
        /\ \A d \in Clients \ {c} :
             /\ cpc'[d] = cpc[d] /\ replayed'[d] = replayed[d]
             /\ skipped'[d] = skipped[d]
    BY <1>2 DEF Replay, PanicInv, SeqsOK
  <2> QED
    BY <2>1 DEF NoGap, PanicInv
<1>3. CASE Receive(c)
  <2>1. Elements(chan[c]) = {Head(chan[c])} \cup Elements(Tail(chan[c]))
    BY <1>3, ElementsTail DEF Receive, SeqsOK
  <2>2. /\ UNCHANGED <<stored, pc, batch, subs, cpc, replayed, skipped>>
        /\ live'[c] = live[c] \cup {Head(chan[c])}
        /\ chan'[c] = Tail(chan[c])
        /\ \A d \in Clients \ {c} : live'[d] = live[d] /\ chan'[d] = chan[d]
    BY <1>3 DEF Receive, SeqsOK
  <2> QED
    BY <2>1, <2>2 DEF NoGap, PanicInv
<1>4. CASE ChannelClosed(c)
  BY <1>4 DEF ChannelClosed, NoGap
<1> QED
  BY <1>1, <1>2, <1>3, <1>4 DEF Client

\* A viewer never has a silent gap: subscribing before reading the history is
\* enough, for any number of lines, goroutines and viewers and any channel
\* capacity, even when store calls fail.
THEOREM ReplayLeavesNoGap == Spec => []NoGap
<1>1. Init => GapInv /\ PanicInv
  BY DEF Init, GapInv, SeqsOK, NoGap, PanicInv, NoPanic
<1>2. GapInv /\ PanicInv /\ [Next]_vars => GapInv'
  <2> SUFFICES ASSUME GapInv, PanicInv, [Next]_vars PROVE GapInv'
    OBVIOUS
  <2> USE DEF GapInv
  <2>1. CASE Produce \/ Terminate \/ FinishRun \/ WantLog
    BY <2>1 DEF Produce, Terminate, FinishRun, WantLog, SeqsOK, NoGap,
                podVars, streamVars, storeVars, channelVars, clientVars
  <2>2. CASE Streamer
    BY <2>2, SeqsStreamer, GapStreamer
  <2>3. ASSUME NEW c \in Clients, Client(c) PROVE GapInv'
    BY <2>3, SeqsClient, GapClient
  <2>4. CASE UNCHANGED vars
    BY <2>4 DEF SeqsOK, NoGap, vars, podVars, streamVars, storeVars,
                channelVars, clientVars
  <2> QED
    BY <2>1, <2>2, <2>3, <2>4 DEF Next
<1>3. GapInv => NoGap
  BY DEF GapInv
<1> QED
  BY <1>1, <1>2, <1>3, PanicStep, PTL DEF Spec

-----------------------------------------------------------------------------
(* What is shown live is stored                                            *)

\* Stored lines stay stored, and only stored lines travel.
LEMMA StoredStep ==
  ASSUME SeqsOK, StoredInv, [Next]_vars
  PROVE  StoredInv'
<1> SUFFICES ASSUME ~Errors
             PROVE  /\ \A d \in Clients :
                         /\ live'[d] \subseteq stored'
                         /\ Elements(chan'[d]) \subseteq stored'
                    /\ pc' \in {"size", "publish"} =>
                         Elements(batch') \subseteq stored'
  BY DEF StoredInv
<1> USE DEF StoredInv, podVars, streamVars, storeVars, channelVars, clientVars
<1>1. CASE \/ Produce \/ Terminate \/ FinishRun \/ WantLog \/ Stream \/ OpenLog
           \/ ReadLine \/ ReadEOF \/ TakeLine \/ TickFlush \/ LineChClosed
           \/ AddSize \/ Unregister \/ Close
  <2>1. /\ UNCHANGED <<stored, chan, live>>
        /\ pc' \in {"size", "publish"} =>
             pc \in {"size", "publish"} /\ batch' = batch
    BY <1>1 DEF Produce, Terminate, FinishRun, WantLog, Stream, OpenLog,
                ReadLine, ReadEOF, TakeLine, TickFlush, LineChClosed, AddSize,
                Unregister, Close
  <2> QED
    BY <2>1
<1>2. CASE Insert
  BY <1>2 DEF Insert
<1>3. CASE Publish
  <2>1. /\ Head(batch) \in stored /\ Head(batch) \in Nat
        /\ Elements(batch') \subseteq stored
    BY <1>3, ElementsTail DEF Publish, SeqsOK
  <2>2. ASSUME NEW d \in Clients PROVE Elements(chan'[d]) \subseteq stored
    <3>1. chan'[d] = chan[d] \/ chan'[d] = Append(chan[d], Head(batch))
      BY <1>3 DEF Publish
    <3>2. chan[d] \in Seq(Nat)
      BY DEF SeqsOK
    <3>3. Elements(chan[d]) \subseteq stored
      OBVIOUS
    <3>4. Elements(Append(chan[d], Head(batch)))
            = Elements(chan[d]) \cup {Head(batch)}
      BY <2>1, <3>2, ElementsAppend
    <3> QED
      BY <2>1, <3>1, <3>3, <3>4
  <2>3. UNCHANGED <<stored, live>>
    BY <1>3 DEF Publish
  <2> QED
    BY <2>1, <2>2, <2>3
<1>4. ASSUME NEW c \in Clients, Client(c)
      PROVE  /\ UNCHANGED <<stored, pc, batch>>
             /\ \A d \in Clients : /\ live'[d] \subseteq stored
                                   /\ Elements(chan'[d]) \subseteq stored
  <2>1. CASE Receive(c)
    <3>1. Elements(chan[c]) = {Head(chan[c])} \cup Elements(Tail(chan[c]))
      BY <2>1, ElementsTail DEF Receive, SeqsOK
    <3>2. /\ live'[c] = live[c] \cup {Head(chan[c])}
          /\ chan'[c] = Tail(chan[c]) /\ UNCHANGED <<stored, pc, batch>>
          /\ \A d \in Clients \ {c} : live'[d] = live[d] /\ chan'[d] = chan[d]
      BY <2>1 DEF Receive, SeqsOK
    <3> QED
      BY <3>1, <3>2
  <2>2. CASE ~Receive(c)
    <3>1. UNCHANGED <<stored, pc, batch, live, chan>>
      BY <1>4, <2>2 DEF Client, Request, ReplayFinished, Subscribe, Replay,
                        ChannelClosed, TickDone, Disconnect, Unsub
    <3> QED
      BY <3>1
  <2> QED
    BY <2>1, <2>2
<1>5. CASE UNCHANGED vars
  BY <1>5 DEF vars
<1> QED
  BY <1>1, <1>2, <1>3, <1>4, <1>5 DEF Next, Streamer

\* Every step keeps the sequences in shape.
LEMMA SeqsStep == SeqsOK /\ [Next]_vars => SeqsOK'
<1> SUFFICES ASSUME SeqsOK, [Next]_vars PROVE SeqsOK'
  OBVIOUS
<1>1. CASE Produce \/ Terminate \/ FinishRun \/ WantLog
  BY <1>1 DEF Produce, Terminate, FinishRun, WantLog, SeqsOK,
              streamVars, storeVars, channelVars, clientVars
<1>2. CASE UNCHANGED vars
  BY <1>2 DEF SeqsOK, vars, streamVars, storeVars, channelVars, clientVars
<1> QED
  BY <1>1, <1>2, SeqsStreamer, SeqsClient DEF Next

-----------------------------------------------------------------------------
(* The types                                                               *)

\* The lines of a session lie after those of the sessions before.
LEMMA EntryOrder ==
  ASSUME NEW s \in Nat \ {0}, NEW k \in 0..LogLength
  PROVE  /\ Entry(s, k) \in Nat
         /\ Entry(s, k + 1) = Entry(s, k) + 1
         /\ Entry(s, k) <= Entry(s + 1, 0)
         /\ s <= MaxSessions /\ k # 0 => Entry(s, k) \in Entries
<1> DEFINE L == LogLength
<1>1. L \in Nat \ {0} /\ MaxSessions \in Nat /\ s - 1 \in Nat
  BY PipelineAssumption
<1>2. (s - 1) * L \in Nat
  <2>1. \A m, n \in Nat : m * n \in Nat
    OBVIOUS
  <2> QED BY <1>1, <2>1, Zenon
<1>3. (s + 1 - 1) * L = (s - 1) * L + L
  <2>1. \A m, n \in Nat : (m + 1) * n = m * n + n
    OBVIOUS
  <2>2. (s - 1 + 1) * L = (s - 1) * L + L
    BY <1>1, <2>1
  <2>3. s + 1 - 1 = s - 1 + 1
    OBVIOUS
  <2> QED BY <2>2, <2>3
<1>4. ASSUME s <= MaxSessions PROVE (s - 1) * L + L <= MaxSessions * L
  <2>1. \A m, n \in Nat : m <= n => m * L <= n * L
    BY <1>1
  <2>2. s * L <= MaxSessions * L
    BY <1>1, <1>4, <2>1
  <2>3. s * L = (s - 1) * L + L
    <3>1. s + 1 - 1 = s
      OBVIOUS
    <3> QED BY <1>3, <3>1
  <2> QED BY <2>2, <2>3
<1>5. MaxSessions * L \in Nat
  <2>1. \A m, n \in Nat : m * n \in Nat
    OBVIOUS
  <2> QED BY <1>1, <2>1, Zenon
<1> DEFINE P == (s - 1) * L
           M == MaxSessions * L
           Q == (s + 1 - 1) * L
<1>6. /\ Entry(s, k) = P + k /\ Entry(s, k + 1) = P + (k + 1)
      /\ Entry(s + 1, 0) = Q + 0 /\ Entries = 1..M
  BY DEF Entry, Entries
<1>7. /\ P \in Nat /\ Q = P + L /\ M \in Nat
      /\ (s <= MaxSessions => P + L <= M)
  BY <1>2, <1>3, <1>4, <1>5
<1>8. k \in Nat /\ k <= L
  BY <1>1
<1> HIDE DEF P, Q, M, L
<1>9. Entry(s, k + 1) = Entry(s, k) + 1 /\ Entry(s, k) \in Nat
  BY <1>6, <1>7, <1>8
<1>10. Entry(s, k) <= Entry(s + 1, 0)
  BY <1>1, <1>6, <1>7, <1>8
<1>11. ASSUME s <= MaxSessions, k # 0 PROVE Entry(s, k) \in Entries
  <2>1. P + k \in Nat /\ P + k <= M /\ 1 <= P + k
    BY <1>1, <1>7, <1>8, <1>11
  <2> QED BY <1>6, <1>7, <2>1
<1> QED BY <1>9, <1>10, <1>11

\* Lines are numbers, and sequences of lines sequences of numbers.
LEMMA EntriesAreNat ==
  ASSUME NEW s \in Seq(Entries)
  PROVE  /\ s \in Seq(Nat) /\ Elements(s) \subseteq Entries /\ Len(s) \in Nat
         /\ s # <<>> => /\ Head(s) \in Entries /\ Tail(s) \in Seq(Entries)
                        /\ Len(Tail(s)) = Len(s) - 1
         /\ \A x \in Entries : /\ Append(s, x) \in Seq(Entries)
                               /\ Len(Append(s, x)) = Len(s) + 1
<1>1. s \in Seq(Nat)
  <2>1. Entries \subseteq Nat
    BY DEF Entries
  <2> QED BY <2>1, SeqMonotonic
<1>2. Elements(s) \subseteq Entries
  BY DEF Elements
<1>3. s # <<>> => /\ Head(s) \in Entries /\ Tail(s) \in Seq(Entries)
                  /\ Len(Tail(s)) = Len(s) - 1
  OBVIOUS
<1>4. \A x \in Entries : /\ Append(s, x) \in Seq(Entries)
                         /\ Len(Append(s, x)) = Len(s) + 1
  OBVIOUS
<1> QED BY <1>1, <1>2, <1>3, <1>4

\* What a step leaves alone keeps its type.
LEMMA Untouched ==
  /\ PodOK /\ UNCHANGED podVars => PodOK'
  /\ StreamInv /\ UNCHANGED <<wanted, streamVars>> => StreamInv'
  /\ StoreOK /\ UNCHANGED storeVars => StoreOK'
  /\ ChannelOK /\ UNCHANGED channelVars => ChannelOK'
  /\ ClientOK /\ UNCHANGED <<clientVars, skipped>> => ClientOK'
<1>1. PodOK /\ UNCHANGED podVars => PodOK'
  BY DEF PodOK, podVars
<1>2. StreamInv /\ UNCHANGED <<wanted, streamVars>> => StreamInv'
  BY DEF StreamInv, StreamOK, streamVars
<1>3. StoreOK /\ UNCHANGED storeVars => StoreOK'
  BY DEF StoreOK, storeVars
<1>4. ChannelOK /\ UNCHANGED channelVars => ChannelOK'
  BY DEF ChannelOK, channelVars
<1>5. ClientOK /\ UNCHANGED <<clientVars, skipped>> => ClientOK'
  BY DEF ClientOK, clientVars
<1> QED BY <1>1, <1>2, <1>3, <1>4, <1>5

\* A line sent to the clients with room for it, and skipped for the others.
LEMMA PublishTypes ==
  ASSUME TypeInv, Publish
  PROVE  ChannelOK' /\ skipped' \in [Clients -> SUBSET Entries]
<1>1. /\ batch \in Seq(Entries) /\ batch # <<>>
      /\ chan \in [Clients -> Seq(Entries)]
      /\ skipped \in [Clients -> SUBSET Entries] /\ ChanCap \in Nat
      /\ \A c \in Clients : Len(chan[c]) <= ChanCap
  BY PipelineAssumption DEF TypeInv, StreamInv, StreamOK, ChannelOK, ClientOK,
                            Publish
<1>2. Head(batch) \in Entries
  BY <1>1, EntriesAreNat
<1>3. ASSUME NEW c \in Clients
      PROVE  /\ chan'[c] \in Seq(Entries) /\ Len(chan'[c]) <= ChanCap
             /\ skipped'[c] \subseteq Entries
  <2>1. CASE c \in subs /\ Len(chan[c]) < ChanCap
    <3>1. chan'[c] = Append(chan[c], Head(batch)) /\ skipped'[c] = skipped[c]
      BY <2>1 DEF Publish
    <3>2. /\ Append(chan[c], Head(batch)) \in Seq(Entries)
          /\ Len(chan[c]) \in Nat
          /\ Len(Append(chan[c], Head(batch))) = Len(chan[c]) + 1
      BY <1>1, <1>2, EntriesAreNat
    <3> QED BY <1>1, <2>1, <3>1, <3>2
  <2>2. CASE ~(c \in subs /\ Len(chan[c]) < ChanCap)
    <3>1. /\ chan'[c] = chan[c]
          /\ skipped'[c] \in {skipped[c], skipped[c] \cup {Head(batch)}}
      BY <2>2 DEF Publish
    <3> QED BY <1>1, <1>2, <3>1
  <2> QED BY <2>1, <2>2
<1>4. /\ chan' \in [Clients -> Seq(Entries)]
      /\ skipped' \in [Clients -> SUBSET Entries]
  BY <1>3 DEF Publish
<1>5. subs' = subs /\ closed' = closed /\ panicked' \in BOOLEAN
  BY DEF Publish, TypeInv, ChannelOK
<1> QED BY <1>3, <1>4, <1>5 DEF ChannelOK, TypeInv

\* The streamer keeps the types.
LEMMA TypeStreamer ==
  ASSUME TypeInv, Streamer
  PROVE  TypeInv'
<1>0. /\ LogLength \in Nat \ {0} /\ MaxSessions \in Nat /\ LineCap \in Nat \ {0}
      /\ FlushMax \in Nat \ {0}
      /\ PodOK /\ StreamInv /\ StoreOK /\ ChannelOK /\ ClientOK
  BY PipelineAssumption DEF TypeInv
<1>1. CASE Stream
  <2>1. CASE streaming
    <3>1. StreamInv'
      BY <1>0, <1>1, <2>1 DEF Stream, StreamInv, StreamOK
    <3> QED BY <1>0, <1>1, <3>1, Untouched DEF Stream, TypeInv
  <2>2. CASE ~streaming
    <3>1. /\ pc = "off" /\ wanted /\ wanted' = FALSE
          /\ streaming' = TRUE /\ pc' = "open"
          /\ session' = session + 1 /\ read' = 0 /\ eof' = FALSE
          /\ UNCHANGED <<lineCh, batch, closers>>
      BY <1>0, <1>1, <2>2 DEF Stream, StreamInv
    <3>2. /\ session' \in 0..MaxSessions /\ closers' \in 0..MaxSessions
          /\ closers' + 1 <= session' /\ read' \in 0..LogLength
      BY <1>0, <3>1 DEF StreamInv, StreamOK
    <3>3. StreamInv'
      <4>1. Len(batch') < FlushMax
        BY <1>0, <3>1 DEF StreamInv
      <4>2. StreamOK'
        BY <1>0, <3>1, <3>2 DEF StreamInv, StreamOK
      <4> QED BY <3>1, <3>2, <4>1, <4>2 DEF StreamInv
    <3> QED BY <1>0, <1>1, <3>3, Untouched DEF Stream, TypeInv
  <2> QED BY <2>1, <2>2
<1>2. CASE OpenLog \/ ReadEOF
  <2>1. StreamInv'
    <3>1. /\ pc' \in {pc, "select", "end"} /\ pc # "off" /\ eof' \in BOOLEAN
          /\ (pc = "open" \/ pc' = pc) /\ pc' # "off"
          /\ UNCHANGED <<wanted, streaming, session, read, lineCh, batch,
                         closers>>
      <4>1. CASE OpenLog
        BY <1>0, <4>1 DEF OpenLog, StreamInv, StreamOK
      <4>2. CASE ReadEOF
        BY <4>2 DEF ReadEOF
      <4> QED BY <1>2, <4>1, <4>2
    <3>2. pc' = "select" => Len(batch) < FlushMax
      BY <1>0, <3>1 DEF StreamInv
    <3> QED BY <1>0, <3>1, <3>2 DEF StreamInv, StreamOK
  <2> QED BY <1>0, <1>2, <2>1, Untouched DEF OpenLog, ReadEOF, TypeInv
<1>3. CASE ReadLine
  <2>1. /\ session \in Nat \ {0} /\ session <= MaxSessions
        /\ read \in 0..LogLength /\ read + 1 \in 0..LogLength /\ read + 1 # 0
    BY <1>0, <1>3 DEF ReadLine, StreamInv, StreamOK, PodOK
  <2>2. Entry(session, read + 1) \in Entries
    BY <2>1, EntryOrder
  <2>3. lineCh' \in Seq(Entries) /\ Len(lineCh') <= LineCap
    <3>1. /\ lineCh \in Seq(Entries) /\ Len(lineCh) < LineCap
          /\ lineCh' = Append(lineCh, Entry(session, read + 1))
      BY <1>0, <1>3 DEF ReadLine, StreamInv, StreamOK
    <3> QED BY <1>0, <2>2, <3>1, EntriesAreNat
  <2>4. read' \in 0..LogLength
    BY <1>3, <2>1 DEF ReadLine
  <2>5. StreamInv'
    BY <1>0, <1>3, <2>3, <2>4 DEF ReadLine, StreamInv, StreamOK
  <2> QED BY <1>0, <1>3, <2>5, Untouched DEF ReadLine, TypeInv
<1>4. CASE TakeLine
  <2>1. /\ lineCh \in Seq(Entries) /\ lineCh # <<>> /\ Len(lineCh) <= LineCap
        /\ batch \in Seq(Entries) /\ Len(batch) < FlushMax
        /\ lineCh' = Tail(lineCh) /\ batch' = Append(batch, Head(lineCh))
    BY <1>0, <1>4 DEF TakeLine, StreamInv, StreamOK
  <2>2. /\ lineCh' \in Seq(Entries) /\ Len(lineCh') <= LineCap
        /\ batch' \in Seq(Entries) /\ Len(batch') = Len(batch) + 1
        /\ Len(batch) \in Nat
    BY <1>0, <2>1, EntriesAreNat
  <2>3. batch' # <<>>
    BY <2>2
  <2>4. StreamInv'
    BY <1>0, <1>4, <2>1, <2>2, <2>3 DEF TakeLine, StreamInv, StreamOK
  <2> QED BY <1>0, <1>4, <2>4, Untouched DEF TakeLine, TypeInv
<1>5. CASE TickFlush \/ LineChClosed
  <2>1. /\ pc = "select" /\ pc' \in {"insert", "end"}
        /\ pc' = "insert" => batch # <<>>
        /\ UNCHANGED <<wanted, streaming, session, read, eof, lineCh, batch,
                       closers>>
    <3>1. CASE TickFlush
      BY <3>1 DEF TickFlush
    <3>2. CASE LineChClosed
      BY <3>2 DEF LineChClosed
    <3> QED BY <1>5, <3>1, <3>2
  <2>2. StreamOK'
    BY <1>0, <2>1 DEF StreamInv, StreamOK
  <2>3. StreamInv'
    BY <1>0, <2>1, <2>2 DEF StreamInv
  <2> QED BY <1>0, <1>5, <2>3, Untouched DEF TickFlush, LineChClosed, TypeInv
<1>6. CASE Insert
  <2>1. Elements(batch) \subseteq Entries
    BY <1>0, EntriesAreNat DEF StreamInv, StreamOK
  <2>2. StoreOK'
    BY <1>0, <1>6, <2>1 DEF Insert, StoreOK
  <2>3. StreamInv'
    BY <1>0, <1>6 DEF Insert, StreamInv, StreamOK
  <2> QED BY <1>0, <1>6, <2>2, <2>3, Untouched DEF Insert, TypeInv
<1>7. CASE AddSize
  <2>1. StoreOK'
    BY <1>0, <1>7 DEF AddSize, StoreOK
  <2>2. StreamInv'
    BY <1>0, <1>7 DEF AddSize, StreamInv, StreamOK
  <2> QED BY <1>0, <1>7, <2>1, <2>2, Untouched DEF AddSize, TypeInv
<1>8. CASE Publish
  <2>1. /\ batch \in Seq(Entries) /\ batch # <<>> /\ Len(batch) <= FlushMax
        /\ batch' = Tail(batch) /\ pc' = AfterPublish
    BY <1>0, <1>8 DEF Publish, StreamInv, StreamOK
  <2>2. /\ batch' \in Seq(Entries) /\ Len(batch') < FlushMax
        /\ pc' \in {"select", "publish"} /\ (pc' = "publish" => batch' # <<>>)
    <3>1. /\ batch \in Seq(Nat) /\ batch' \in Seq(Entries)
          /\ Len(batch') = Len(batch) - 1 /\ Len(batch) \in Nat
      BY <2>1, EntriesAreNat
    <3>2. Len(batch') < FlushMax
      BY <1>0, <2>1, <3>1
    <3> QED BY <2>1, <3>1, <3>2, ElementsTail DEF AfterPublish
  <2>3. StreamInv'
    <3>1. /\ UNCHANGED <<wanted, streaming, session, read, eof, lineCh, closers>>
          /\ pc = "publish" /\ Len(batch') <= FlushMax
      BY <1>0, <1>8, <2>2 DEF Publish
    <3> QED BY <1>0, <2>2, <3>1 DEF StreamInv, StreamOK
  <2>4. ChannelOK' /\ skipped' \in [Clients -> SUBSET Entries]
    BY <1>8, PublishTypes
  <2>5. ClientOK'
    BY <1>0, <1>8, <2>4 DEF Publish, ClientOK, clientVars
  <2> QED BY <1>0, <1>8, <2>3, <2>4, <2>5, Untouched DEF Publish, TypeInv
<1>9. CASE Unregister
  <2>1. /\ pc = "end" /\ pc' = "off" /\ closers' = closers + 1
        /\ streaming' = FALSE
        /\ UNCHANGED <<wanted, session, read, eof, lineCh, batch>>
    BY <1>9 DEF Unregister
  <2>2. closers' <= session' /\ closers' \in 0..MaxSessions
    BY <1>0, <2>1 DEF StreamInv, StreamOK
  <2>3. StreamInv'
    <3>1. StreamOK'
      BY <1>0, <2>1, <2>2 DEF StreamInv, StreamOK
    <3>2. closers' + 0 <= session'
      BY <2>2 DEF StreamOK
    <3>3. Len(batch') < FlushMax
      BY <1>0, <2>1 DEF StreamInv
    <3> QED BY <1>0, <2>1, <3>1, <3>2, <3>3 DEF StreamInv
  <2> QED BY <1>0, <1>9, <2>3, Untouched DEF Unregister, TypeInv
<1>10. CASE Close
  <2>1. StreamInv'
    <3>1. /\ closers > 0 /\ closers' = closers - 1
          /\ UNCHANGED <<wanted, streaming, session, pc, read, eof, lineCh,
                         batch>>
      BY <1>10 DEF Close
    <3>2. /\ closers' \in 0..MaxSessions
          /\ closers' + (IF pc' = "off" THEN 0 ELSE 1) <= session'
      BY <1>0, <3>1 DEF StreamInv, StreamOK
    <3> QED BY <1>0, <3>1, <3>2 DEF StreamInv, StreamOK
  <2>2. ChannelOK'
    BY <1>0, <1>10 DEF Close, ChannelOK
  <2> QED BY <1>0, <1>10, <2>1, <2>2, Untouched DEF Close, TypeInv
<1> QED
  BY <1>1, <1>2, <1>3, <1>4, <1>5, <1>6, <1>7, <1>8, <1>9, <1>10 DEF Streamer

\* ... and so does an SSE handler.
LEMMA TypeClient ==
  ASSUME TypeInv, NEW c \in Clients, Client(c)
  PROVE  TypeInv'
<1>0. PodOK /\ StreamInv /\ StoreOK /\ ChannelOK /\ ClientOK
  BY DEF TypeInv
<1>1. UNCHANGED <<podVars, wanted, streamVars, storeVars>>
  BY DEF Client, Request, ReplayFinished, Subscribe, Replay, Receive,
         ChannelClosed, TickDone, Disconnect, Unsub
<1>2. ClientOK'
  <2>1. CASE ReplayFinished(c) \/ Replay(c)
    <3>1. stored \subseteq Entries /\ LogTail \subseteq Entries
      BY <1>0 DEF LogTail, StoreOK
    <3>2. PICK lines \in SUBSET Entries :
            /\ replayed' = [replayed EXCEPT ![c] = lines]
            /\ \/ skipped' = [skipped EXCEPT ![c] = stored \ lines]
               \/ skipped' = [skipped EXCEPT ![c] = @ \cup (stored \ lines)]
      BY <2>1, <3>1 DEF ReplayFinished, Replay
    <3>3. /\ UNCHANGED <<drained, live>>
          /\ cpc' \in {[cpc EXCEPT ![c] = "done"], [cpc EXCEPT ![c] = "loop"]}
      BY <2>1 DEF ReplayFinished, Replay
    <3> QED BY <1>0, <3>1, <3>2, <3>3 DEF ClientOK
  <2>2. CASE Receive(c)
    <3>1. Head(chan[c]) \in Entries
      BY <1>0, <2>2, EntriesAreNat DEF Receive, ChannelOK
    <3> QED BY <1>0, <2>2, <3>1 DEF Receive, ClientOK
  <2>3. CASE Request(c) \/ Subscribe(c)
    BY <1>0, <2>3 DEF Request, Subscribe, ClientOK
  <2>4. CASE ChannelClosed(c) \/ TickDone(c) \/ Disconnect(c)
    BY <1>0, <2>4 DEF ChannelClosed, TickDone, Disconnect, ClientOK
  <2>5. CASE Unsub(c)
    BY <1>0, <2>5 DEF Unsub, ClientOK
  <2> QED BY <2>1, <2>2, <2>3, <2>4, <2>5 DEF Client
<1>3. ChannelOK'
  <2>1. CASE Receive(c)
    <3>1. /\ chan[c] \in Seq(Entries) /\ chan[c] # <<>>
          /\ Len(chan[c]) <= ChanCap
          /\ chan' = [chan EXCEPT ![c] = Tail(chan[c])]
          /\ UNCHANGED <<subs, closed, panicked>>
      BY <1>0, <2>1 DEF Receive, ChannelOK
    <3>2. Tail(chan[c]) \in Seq(Entries) /\ Len(Tail(chan[c])) <= ChanCap
      BY <3>1, EntriesAreNat, PipelineAssumption
    <3> QED BY <1>0, <3>1, <3>2 DEF ChannelOK
  <2>2. CASE Subscribe(c)
    BY <1>0, <2>2 DEF Subscribe, ChannelOK
  <2>3. CASE Unsub(c)
    BY <1>0, <2>3 DEF Unsub, ChannelOK
  <2>4. CASE ~(Receive(c) \/ Subscribe(c) \/ Unsub(c))
    <3>1. UNCHANGED channelVars
      BY <2>4 DEF Client, Request, ReplayFinished, Replay, ChannelClosed,
                  TickDone, Disconnect
    <3> QED BY <1>0, <3>1, Untouched
  <2> QED BY <2>1, <2>2, <2>3, <2>4
<1> QED BY <1>0, <1>1, <1>2, <1>3, Untouched DEF TypeInv

\* Every step keeps the types.
LEMMA TypeStep == TypeInv /\ [Next]_vars => TypeInv'
<1> SUFFICES ASSUME TypeInv, [Next]_vars PROVE TypeInv'
  OBVIOUS
<1>0. /\ PodOK /\ StreamInv /\ StoreOK /\ ChannelOK /\ ClientOK
      /\ LogLength \in Nat
  BY PipelineAssumption DEF TypeInv
<1>1. CASE Produce \/ Terminate \/ FinishRun
  <2>1. PodOK'
    <3>1. CASE Produce
      BY <1>0, <3>1 DEF Produce, PodOK
    <3>2. CASE Terminate
      BY <1>0, <3>2 DEF Terminate, PodOK
    <3>3. CASE FinishRun
      BY <1>0, <3>3 DEF FinishRun, PodOK
    <3> QED BY <1>1, <3>1, <3>2, <3>3
  <2> QED BY <1>0, <1>1, <2>1, Untouched DEF Produce, Terminate, FinishRun,
                                             TypeInv
<1>2. CASE WantLog
  <2>1. StreamInv'
    BY <1>0, <1>2 DEF WantLog, StreamInv, StreamOK, streamVars
  <2> QED BY <1>0, <1>2, <2>1, Untouched DEF WantLog, TypeInv
<1>3. CASE UNCHANGED vars
  BY <1>0, <1>3, Untouched DEF vars, TypeInv
<1> QED
  BY <1>1, <1>2, <1>3, TypeStreamer, TypeClient DEF Next

\* At the start everything is empty.
LEMMA TypeInit == Init => TypeInv
<1> SUFFICES ASSUME Init PROVE TypeInv
  OBVIOUS
<1>1. /\ <<>> \in Seq(Entries) /\ Len(<<>>) = 0
      /\ LineCap \in Nat /\ FlushMax \in Nat \ {0} /\ ChanCap \in Nat
      /\ MaxSessions \in Nat /\ LogLength \in Nat
  BY PipelineAssumption, EmptySeq
<1>2. 0 \in 0..LogLength /\ 0 \in 0..MaxSessions
  BY <1>1
<1>3. PodOK
  BY <1>2 DEF Init, PodOK
<1>4. StoreOK
  BY DEF Init, StoreOK
<1>5. StreamInv
  <2>1. /\ lineCh \in Seq(Entries) /\ Len(lineCh) <= LineCap
        /\ batch \in Seq(Entries) /\ Len(batch) <= FlushMax
        /\ Len(batch) < FlushMax
    BY <1>1 DEF Init
  <2>2. StreamOK
    BY <1>2, <2>1 DEF Init, StreamOK
  <2> QED BY <2>1, <2>2 DEF Init, StreamInv
<1>6. ChannelOK
  <2>1. \A c \in Clients : chan[c] \in Seq(Entries) /\ Len(chan[c]) <= ChanCap
    BY <1>1 DEF Init
  <2>2. chan \in [Clients -> Seq(Entries)]
    BY <1>1 DEF Init
  <2> QED BY <2>1, <2>2 DEF Init, ChannelOK
<1>7. ClientOK
  BY DEF Init, ClientOK
<1> QED BY <1>3, <1>4, <1>5, <1>6, <1>7 DEF TypeInv

\* Every variable keeps its type, no channel or batch outgrows its capacity.
THEOREM TypeCorrect == Spec => []TypeOK
<1>1. TypeInv => TypeOK
  BY DEF TypeInv, TypeOK, StreamInv
<1> QED
  BY <1>1, TypeInit, TypeStep, PTL DEF Spec

-----------------------------------------------------------------------------
(* The order of the lines                                                  *)

\* A line newer than the last one keeps a sequence in order.
LEMMA AscendingAppend ==
  ASSUME NEW s \in Seq(Nat), NEW x \in Nat, Ascending(s),
         \A y \in Elements(s) : y < x
  PROVE  Ascending(Append(s, x))
<1>1. Len(s) \in Nat /\ DOMAIN s = 1..Len(s) /\ Len(Append(s, x)) = Len(s) + 1
  OBVIOUS
<1>2. \A i \in 1..Len(s) : Append(s, x)[i] = s[i] /\ s[i] \in Elements(s)
  BY <1>1 DEF Elements
<1>3. Append(s, x)[Len(s) + 1] = x
  OBVIOUS
<1>4. ASSUME NEW i \in 1..(Len(s) + 1), NEW j \in 1..(Len(s) + 1), i < j
      PROVE  Append(s, x)[i] < Append(s, x)[j]
  <2>1. i \in 1..Len(s)
    BY <1>1, <1>4
  <2>2. CASE j = Len(s) + 1
    BY <1>2, <1>3, <2>1, <2>2
  <2>3. CASE j # Len(s) + 1
    <3>1. j \in 1..Len(s)
      BY <1>1, <2>3
    <3>2. s[i] < s[j]
      BY <1>4, <2>1, <3>1 DEF Ascending
    <3> QED
      BY <1>2, <2>1, <3>1, <3>2
  <2> QED
    BY <2>2, <2>3
<1> QED
  BY <1>1, <1>4 DEF Ascending

\* The first line of a sequence in order is older than all the others.
LEMMA AscendingTail ==
  ASSUME NEW s \in Seq(Nat), s # <<>>, Ascending(s)
  PROVE  /\ Ascending(Tail(s))
         /\ \A y \in Elements(Tail(s)) : Head(s) < y
<1>1. /\ Len(s) \in Nat \ {0} /\ Len(Tail(s)) = Len(s) - 1
      /\ DOMAIN Tail(s) = 1..(Len(s) - 1) /\ Head(s) = s[1]
  OBVIOUS
<1>2. \A i \in 1..(Len(s) - 1) : Tail(s)[i] = s[i + 1]
  OBVIOUS
<1>3. ASSUME NEW i \in 1..(Len(s) - 1), NEW j \in 1..(Len(s) - 1), i < j
      PROVE  Tail(s)[i] < Tail(s)[j]
  <2>1. i + 1 \in 1..Len(s) /\ j + 1 \in 1..Len(s) /\ i + 1 < j + 1
    BY <1>1, <1>3
  <2>2. s[i + 1] < s[j + 1]
    BY <2>1 DEF Ascending
  <2> QED
    BY <1>2, <2>2
<1>4. ASSUME NEW y \in Elements(Tail(s)) PROVE Head(s) < y
  <2>1. PICK i \in 1..(Len(s) - 1) : y = Tail(s)[i]
    BY <1>1 DEF Elements
  <2>2. 1 \in 1..Len(s) /\ i + 1 \in 1..Len(s) /\ 1 < i + 1
    BY <1>1
  <2>3. s[1] < s[i + 1]
    BY <2>2 DEF Ascending
  <2> QED
    BY <1>1, <1>2, <2>1, <2>3
<1> QED
  BY <1>1, <1>3, <1>4 DEF Ascending

\* Every line is a number.
LEMMA LinesAreNat ==
  ASSUME TypeInv
  PROVE  /\ stored \subseteq Nat /\ lineCh \in Seq(Nat) /\ batch \in Seq(Nat)
         /\ Elements(lineCh) \subseteq Nat /\ Elements(batch) \subseteq Nat
         /\ \A c \in Clients : /\ live[c] \subseteq Nat /\ chan[c] \in Seq(Nat)
                               /\ Elements(chan[c]) \subseteq Nat
<1>1. Entries \subseteq Nat
  BY DEF Entries
<1>2. /\ stored \subseteq Entries /\ lineCh \in Seq(Entries)
      /\ batch \in Seq(Entries)
      /\ \A c \in Clients : /\ live[c] \subseteq Entries
                            /\ chan[c] \in Seq(Entries)
  BY DEF TypeInv, StreamInv, StreamOK, StoreOK, ChannelOK, ClientOK
<1>3. \A s \in Seq(Entries) : s \in Seq(Nat) /\ Elements(s) \subseteq Entries
  BY EntriesAreNat
<1> QED
  BY <1>1, <1>2, <1>3

\* The latest line read is a number, and the next one the number after it.
LEMMA LastReadGrows ==
  ASSUME TypeInv, [Next]_vars
  PROVE  /\ LastRead \in Nat /\ LastRead' \in Nat /\ LastRead <= LastRead'
         /\ ReadLine => /\ LastRead' = LastRead + 1
                        /\ LastRead' = Entry(session, read + 1)
<1>1. session \in Nat /\ read \in 0..LogLength
  BY PipelineAssumption DEF TypeInv, StreamInv, StreamOK
<1>2. LastRead \in Nat
  BY <1>1, EntryOrder DEF LastRead
<1>3. CASE ReadLine
  <2>1. session' = session /\ read' = read + 1 /\ session \in Nat \ {0}
    BY <1>1, <1>3 DEF ReadLine, TypeInv, StreamInv, StreamOK
  <2>2. LastRead = Entry(session, read) /\ LastRead' = Entry(session, read + 1)
    BY <2>1 DEF LastRead, Entry
  <2>3. Entry(session, read + 1) = Entry(session, read) + 1
    BY <1>1, <2>1, EntryOrder
  <2> QED
    BY <1>2, <2>2, <2>3
<1>4. CASE Stream /\ ~streaming
  <2>1. session' = session + 1 /\ read' = 0
    BY <1>4 DEF Stream
  <2>2. LastRead' = Entry(session + 1, 0)
    BY <1>1, <2>1 DEF LastRead, Entry
  <2>3. Entry(session + 1, 0) \in Nat
    <3>1. session + 1 \in Nat \ {0} /\ 0 \in 0..LogLength
      BY <1>1, PipelineAssumption
    <3> QED
      BY <3>1, EntryOrder
  <2>4. LastRead <= LastRead'
    <3>1. CASE session = 0
      BY <2>2, <2>3, <3>1 DEF LastRead
    <3>2. CASE session # 0
      <4>1. Entry(session, read) <= Entry(session + 1, 0)
        BY <1>1, <3>2, EntryOrder
      <4> QED
        BY <2>2, <3>2, <4>1 DEF LastRead
    <3> QED
      BY <3>1, <3>2
  <2>5. ~ReadLine
    BY <1>1, <2>1 DEF ReadLine
  <2> QED
    BY <1>2, <2>2, <2>3, <2>4, <2>5
<1>5. CASE ~ReadLine /\ ~(Stream /\ ~streaming)
  <2>1. UNCHANGED <<session, read>>
    BY <1>5 DEF Next, Streamer, Client, vars, streamVars, Produce, Terminate,
       FinishRun, WantLog, Stream, OpenLog, ReadEOF, TakeLine, TickFlush,
       LineChClosed, Insert, AddSize, Publish, Unregister, Close, Request,
       ReplayFinished, Subscribe, Replay, Receive, ChannelClosed, TickDone,
       Disconnect, Unsub
  <2>2. LastRead' = LastRead
    BY <2>1 DEF LastRead, Entry
  <2> QED
    BY <1>2, <1>5, <2>2
<1> QED
  BY <1>3, <1>4, <1>5

\* A step that moves no line keeps the order.
LEMMA OrderKept ==
  ASSUME TypeInv, [Next]_vars, OrderInv,
         UNCHANGED <<stored, lineCh, batch, chan, live>>,
         pc \in {"size", "publish"} => pc' \in {"size", "publish"}
  PROVE  OrderInv'
<1>1. LastRead \in Nat /\ LastRead' \in Nat /\ LastRead <= LastRead'
  BY LastReadGrows
<1>2. \A x \in Nat : x <= LastRead => x <= LastRead'
  BY <1>1
<1>3. Pending' = Pending /\ \A c \in Clients : Sent(c)' = Sent(c)
  BY DEF Pending, Sent
<1>4. /\ stored \cup Pending \subseteq Nat
      /\ \A c \in Clients : Sent(c) \subseteq Nat
  BY LinesAreNat DEF Pending, Sent
<1>5. StreamOrder'
  BY <1>2, <1>3, <1>4 DEF OrderInv, StreamOrder
<1>6. ASSUME NEW c \in Clients PROVE ViewerOrder(c)'
  BY <1>2, <1>3, <1>4 DEF OrderInv, ViewerOrder
<1> QED
  BY <1>5, <1>6 DEF OrderInv

\* The reader's line is newer than everything read before.
LEMMA OrderReadLine ==
  ASSUME TypeInv, [Next]_vars, OrderInv, ReadLine
  PROVE  OrderInv'
<1> DEFINE x == Entry(session, read + 1)
<1>1. /\ LastRead \in Nat /\ LastRead' = LastRead + 1 /\ LastRead' = x
  BY LastReadGrows
<1>2. /\ lineCh' = Append(lineCh, x)
      /\ UNCHANGED <<stored, batch, chan, live, pc>>
  BY DEF ReadLine, storeVars, channelVars, clientVars
<1> HIDE DEF x
<1>3. lineCh \in Seq(Nat) /\ x \in Nat
  BY <1>1, LinesAreNat
<1>4. Elements(lineCh') = Elements(lineCh) \cup {x}
  BY <1>2, <1>3, ElementsAppend
<1>5. /\ stored \cup Pending \subseteq Nat
      /\ \A c \in Clients : Sent(c) \subseteq Nat /\ Sent(c)' = Sent(c)
      /\ Pending' = Pending \cup {x}
  BY <1>2, <1>4, LinesAreNat DEF Pending, Sent
<1>6. \A y \in Nat : y <= LastRead => y < x /\ y <= LastRead'
  BY <1>1
<1>7. StreamOrder'
  <2>1. \A y \in stored \cup Pending : y < x /\ y <= LastRead'
    BY <1>5, <1>6 DEF OrderInv, StreamOrder
  <2>2. Ascending(lineCh')
    BY <1>2, <1>3, <2>1, AscendingAppend DEF OrderInv, StreamOrder, Pending
  <2>3. Before(Elements(batch'), Elements(lineCh'))
    BY <1>2, <1>4, <2>1 DEF OrderInv, StreamOrder, Pending, Before
  <2>4. Before(stored', Elements(lineCh'))
    BY <1>2, <1>4, <2>1 DEF OrderInv, StreamOrder, Before
  <2>5. \A y \in stored' \cup Pending' : y <= LastRead'
    BY <1>1, <1>2, <1>5, <2>1
  <2> QED
    BY <1>2, <2>2, <2>3, <2>4, <2>5 DEF OrderInv, StreamOrder
<1>8. ASSUME NEW c \in Clients PROVE ViewerOrder(c)'
  <2>1. \A y \in Sent(c) : y < x /\ y <= LastRead'
    BY <1>5, <1>6 DEF OrderInv, ViewerOrder
  <2>2. Before(Sent(c)', Pending')
    BY <1>5, <2>1 DEF OrderInv, ViewerOrder, Before
  <2> QED
    BY <1>2, <1>5, <2>1, <2>2 DEF OrderInv, ViewerOrder
<1> QED
  BY <1>7, <1>8 DEF OrderInv

\* The oldest line that the reader has ready becomes the newest of the batch.
LEMMA OrderTakeLine ==
  ASSUME TypeInv, [Next]_vars, OrderInv, TakeLine
  PROVE  OrderInv'
<1> DEFINE h == Head(lineCh)
<1>1. /\ pc = "select" /\ lineCh # <<>> /\ pc' \in {"select", "insert"}
      /\ lineCh' = Tail(lineCh) /\ batch' = Append(batch, h)
      /\ UNCHANGED <<stored, chan, live, session, read>>
  BY DEF TakeLine, storeVars, channelVars, clientVars
<1>2. lineCh \in Seq(Nat) /\ batch \in Seq(Nat) /\ h \in Nat
  BY <1>1, LinesAreNat, ElementsTail
<1>3. /\ Elements(lineCh) = {h} \cup Elements(lineCh')
      /\ Ascending(lineCh') /\ \A y \in Elements(lineCh') : h < y
  BY <1>1, <1>2, ElementsTail, AscendingTail DEF OrderInv, StreamOrder
<1> HIDE DEF h
<1>4. Elements(batch') = Elements(batch) \cup {h}
  BY <1>1, <1>2, ElementsAppend
<1>5. /\ Pending' = Pending /\ LastRead' = LastRead
      /\ \A c \in Clients : Sent(c)' = Sent(c)
  BY <1>1, <1>3, <1>4 DEF Pending, LastRead, Sent, Entry
<1>6. StreamOrder'
  <2>1. Ascending(batch')
    <3>1. \A y \in Elements(batch) : y < h
      BY <1>3 DEF OrderInv, StreamOrder, Before
    <3> QED
      BY <1>1, <1>2, <3>1, AscendingAppend DEF OrderInv, StreamOrder
  <2>2. Before(Elements(batch'), Elements(lineCh'))
    BY <1>3, <1>4 DEF OrderInv, StreamOrder, Before
  <2>3. Before(stored', Elements(lineCh')) /\ Before(stored', Elements(batch'))
    BY <1>1, <1>3, <1>4 DEF OrderInv, StreamOrder, Before
  <2> QED
    BY <1>1, <1>3, <1>5, <2>1, <2>2, <2>3 DEF OrderInv, StreamOrder
<1>7. ASSUME NEW c \in Clients PROVE ViewerOrder(c)'
  BY <1>1, <1>5 DEF OrderInv, ViewerOrder
<1> QED
  BY <1>6, <1>7 DEF OrderInv

\* Storing the batch, or failing to.
LEMMA OrderInsert ==
  ASSUME TypeInv, [Next]_vars, OrderInv, Insert
  PROVE  OrderInv'
<1>1. /\ stored' \subseteq stored \cup Elements(batch) /\ pc' = "size"
      /\ UNCHANGED <<lineCh, batch, chan, live, session, read>>
  BY DEF Insert, channelVars, clientVars
<1>2. /\ Pending' = Pending /\ LastRead' = LastRead
      /\ \A c \in Clients : Sent(c)' = Sent(c)
  BY <1>1 DEF Pending, LastRead, Sent, Entry
<1>3. StreamOrder'
  <2>1. Before(stored', Elements(lineCh'))
    BY <1>1 DEF OrderInv, StreamOrder, Before
  <2>2. stored' \cup Pending' \subseteq stored \cup Pending
    BY <1>1, <1>2 DEF Pending
  <2> QED
    BY <1>1, <1>2, <2>1, <2>2 DEF OrderInv, StreamOrder
<1>4. ASSUME NEW c \in Clients PROVE ViewerOrder(c)'
  BY <1>1, <1>2 DEF OrderInv, ViewerOrder
<1> QED
  BY <1>3, <1>4 DEF OrderInv

\* The oldest line of the batch goes to the end of the channels with room.
LEMMA OrderPublish ==
  ASSUME TypeInv, [Next]_vars, OrderInv, Publish
  PROVE  OrderInv'
<1> DEFINE h == Head(batch)
<1>1. /\ batch # <<>> /\ batch' = Tail(batch)
      /\ pc' = "publish" \/ (pc' = "select" /\ Len(batch) = 1)
      /\ UNCHANGED <<stored, lineCh, live, session, read>>
      /\ \A c \in Clients : chan'[c] \in {chan[c], Append(chan[c], h)}
  BY DEF Publish, AfterPublish, TypeInv, StreamInv, storeVars, clientVars
<1>2. lineCh \in Seq(Nat) /\ batch \in Seq(Nat) /\ h \in Nat
  BY <1>1, LinesAreNat, ElementsTail
<1>3. /\ Elements(batch) = {h} \cup Elements(batch')
      /\ Ascending(batch') /\ \A y \in Elements(batch') : h < y
      /\ Len(batch) = 1 => Elements(batch) = {h}
  BY <1>1, <1>2, ElementsTail, AscendingTail DEF OrderInv, StreamOrder
<1> HIDE DEF h
<1>4. /\ LastRead' = LastRead /\ Pending = Pending' \cup {h}
      /\ \A y \in Pending' : h < y
  BY <1>1, <1>3 DEF LastRead, Entry, Pending, OrderInv, StreamOrder, Before
<1>5. StreamOrder'
  <2>1. pc' = "publish" \/ Elements(batch') = {}
    <3>1. ~(h < h)
      BY <1>2
    <3> QED
      BY <1>1, <1>3, <3>1
  <2>2. Before(Elements(batch'), Elements(lineCh'))
    BY <1>1, <1>3 DEF OrderInv, StreamOrder, Before
  <2>3. pc' \in {"size", "publish"} \/ Before(stored', Elements(batch'))
    BY <2>1 DEF Before
  <2> QED
    BY <1>1, <1>3, <1>4, <2>2, <2>3 DEF OrderInv, StreamOrder
<1>6. ASSUME NEW c \in Clients PROVE ViewerOrder(c)'
  <2>1. /\ Ascending(chan[c]) /\ Before(live[c], Elements(chan[c]))
        /\ Before(Sent(c), Pending) /\ \A x \in Sent(c) : x <= LastRead
    BY DEF OrderInv, ViewerOrder
  <2>2. h \in Pending /\ h <= LastRead
    BY <1>4 DEF OrderInv, StreamOrder
  <2>3. CASE chan'[c] = chan[c]
    <3>1. Sent(c)' = Sent(c)
      BY <1>1, <2>3 DEF Sent
    <3>2. Before(Sent(c)', Pending')
      BY <1>4, <2>1, <3>1 DEF Before
    <3> QED
      BY <1>1, <1>4, <2>1, <2>3, <3>1, <3>2 DEF ViewerOrder
  <2>4. CASE chan'[c] = Append(chan[c], h)
    <3>1. chan[c] \in Seq(Nat)
      BY LinesAreNat
    <3>2. Elements(chan'[c]) = Elements(chan[c]) \cup {h}
      BY <1>2, <2>4, <3>1, ElementsAppend
    <3>3. Sent(c)' = Sent(c) \cup {h}
      BY <1>1, <3>2 DEF Sent
    <3>4. \A y \in Sent(c) : y < h
      BY <2>1, <2>2 DEF Before
    <3>5. Ascending(chan'[c])
      BY <1>2, <2>1, <2>4, <3>1, <3>4, AscendingAppend DEF Sent
    <3>6. Before(live'[c], Elements(chan'[c]))
      BY <1>1, <2>1, <3>2, <3>4 DEF Before, Sent
    <3>7. Before(Sent(c)', Pending')
      BY <1>4, <2>1, <3>3 DEF Before
    <3>8. \A x \in Sent(c)' : x <= LastRead'
      BY <1>4, <2>1, <2>2, <3>3
    <3> QED
      BY <3>5, <3>6, <3>7, <3>8 DEF ViewerOrder
  <2> QED
    BY <1>1, <2>3, <2>4
<1> QED
  BY <1>5, <1>6 DEF OrderInv

\* A viewer receives the oldest line of its channel.
LEMMA OrderReceive ==
  ASSUME TypeInv, [Next]_vars, OrderInv, NEW c \in Clients, Receive(c)
  PROVE  OrderInv'
<1> DEFINE h == Head(chan[c])
<1>1. /\ chan[c] # <<>> /\ chan[c] \in Seq(Nat)
      /\ chan'[c] = Tail(chan[c]) /\ live'[c] = live[c] \cup {h}
      /\ \A d \in Clients \ {c} : chan'[d] = chan[d] /\ live'[d] = live[d]
      /\ UNCHANGED <<stored, lineCh, batch, pc, session, read>>
  BY LinesAreNat DEF Receive, TypeInv, ChannelOK, ClientOK, streamVars,
                     storeVars
<1>2. /\ Elements(chan[c]) = {h} \cup Elements(chan'[c])
      /\ Ascending(chan'[c]) /\ \A y \in Elements(chan'[c]) : h < y
  BY <1>1, ElementsTail, AscendingTail DEF OrderInv, ViewerOrder
<1> HIDE DEF h
<1>3. Pending' = Pending /\ LastRead' = LastRead
  BY <1>1 DEF Pending, LastRead, Entry
<1>4. StreamOrder'
  BY <1>1, <1>3 DEF OrderInv, StreamOrder
<1>5. ASSUME NEW d \in Clients PROVE ViewerOrder(d)'
  <2>1. CASE d = c
    <3>1. Sent(c)' = Sent(c)
      BY <1>1, <1>2 DEF Sent
    <3>2. Before(live'[c], Elements(chan'[c]))
      BY <1>1, <1>2 DEF OrderInv, ViewerOrder, Before
    <3> QED
      BY <1>2, <1>3, <2>1, <3>1, <3>2 DEF OrderInv, ViewerOrder
  <2>2. CASE d # c
    <3>1. Sent(d)' = Sent(d) /\ chan'[d] = chan[d] /\ live'[d] = live[d]
      BY <1>1, <2>2 DEF Sent
    <3> QED
      BY <1>3, <3>1 DEF OrderInv, ViewerOrder
  <2> QED
    BY <2>1, <2>2
<1> QED
  BY <1>4, <1>5 DEF OrderInv

\* Every step keeps the order.
LEMMA OrderStep == TypeInv /\ OrderInv /\ [Next]_vars => OrderInv'
<1> SUFFICES ASSUME TypeInv, OrderInv, [Next]_vars PROVE OrderInv'
  OBVIOUS
<1>1. CASE ~(ReadLine \/ TakeLine \/ Insert \/ Publish
             \/ \E c \in Clients : Receive(c))
  <2>1. /\ UNCHANGED <<stored, lineCh, batch, chan, live>>
        /\ pc \in {"size", "publish"} => pc' \in {"size", "publish"}
    <3>1. CASE \/ Produce \/ Terminate \/ FinishRun \/ WantLog
               \/ UNCHANGED vars
      BY <3>1 DEF Produce, Terminate, FinishRun, WantLog, vars, streamVars,
                  storeVars, channelVars, clientVars
    <3>2. CASE Stream
      BY <3>2 DEF Stream, TypeInv, StreamInv, storeVars, channelVars,
                  clientVars
    <3>3. CASE \/ OpenLog \/ ReadEOF \/ TickFlush \/ LineChClosed \/ AddSize
               \/ Unregister \/ Close
      BY <3>3 DEF OpenLog, ReadEOF, TickFlush, LineChClosed, AddSize,
                  Unregister, Close, storeVars, channelVars, clientVars
    <3>4. ASSUME NEW c \in Clients, Client(c)
          PROVE  UNCHANGED <<stored, lineCh, batch, chan, live, pc>>
      <4>1. ~Receive(c)
        BY <1>1
      <4> QED
        BY <3>4, <4>1 DEF Client, Request, ReplayFinished, Subscribe, Replay,
           ChannelClosed, TickDone, Disconnect, Unsub, streamVars, storeVars,
           channelVars, clientVars
    <3> QED
      BY <1>1, <3>1, <3>2, <3>3, <3>4 DEF Next, Streamer
  <2> QED
    BY <2>1, OrderKept
<1> QED
  BY <1>1, OrderReadLine, OrderTakeLine, OrderInsert, OrderPublish,
     OrderReceive

\* At the start there is no line at all.
LEMMA OrderInit == Init => OrderInv
<1> SUFFICES ASSUME Init PROVE OrderInv
  OBVIOUS
<1>1. Elements(<<>>) = {} /\ Ascending(<<>>)
  BY DEF Elements, Ascending
<1>2. /\ lineCh = <<>> /\ batch = <<>> /\ stored = {}
      /\ \A c \in Clients : live[c] = {} /\ chan[c] = <<>>
  BY DEF Init
<1>3. Pending = {} /\ \A c \in Clients : Sent(c) = {}
  BY <1>1, <1>2 DEF Pending, Sent
<1>4. StreamOrder
  BY <1>1, <1>2, <1>3 DEF StreamOrder, Before
<1>5. ASSUME NEW c \in Clients PROVE ViewerOrder(c)
  BY <1>1, <1>2, <1>3 DEF ViewerOrder, Before
<1> QED
  BY <1>4, <1>5 DEF OrderInv

-----------------------------------------------------------------------------
(* The pipeline implements LogFeed                                         *)

\* A handler that moves on moves its viewer to the stage it has reached.
LEMMA PhaseChange ==
  ASSUME TypeInv, NEW c \in Clients, NEW p, cpc' = [cpc EXCEPT ![c] = p]
  PROVE  Phase' = [Phase EXCEPT ![c] = Stage(p)]
<1>1. DOMAIN cpc = Clients
  BY DEF TypeInv, ClientOK
<1>2. \A d \in Clients : Stage(cpc'[d]) = IF d = c THEN Stage(p)
                                          ELSE Stage(cpc[d])
  BY <1>1
<1> QED
  BY <1>2 DEF Phase

\* An action that neither stores nor shows a line, nor lets a viewer in or
\* out, is none of the promise's business.
LEMMA FeedStutter ==
  ASSUME UNCHANGED <<stored, live, cpc>>
  PROVE  UNCHANGED <<stored, live, Phase>>
BY DEF Phase, Stage

\* A successful insert accepts the batch.
LEMMA FeedInsert ==
  ASSUME ~Errors, FeedInv, Insert
  PROVE  Feed!Accept
<1>1. /\ stored' = stored \cup Elements(batch) /\ pc = "insert"
      /\ UNCHANGED <<live, cpc>>
  BY DEF Insert, clientVars
<1>2. /\ Elements(batch) \in SUBSET Entries /\ Elements(batch) # {}
      /\ \A new \in Elements(batch), old \in stored : old < new
  <2>1. batch \in Seq(Entries) /\ batch # <<>>
    BY <1>1 DEF FeedInv, TypeInv, StreamInv, StreamOK
  <2>2. Elements(batch) \subseteq Entries /\ Elements(batch) # {}
    BY <2>1, EntriesAreNat, ElementsTail
  <2>3. Before(stored, Elements(batch))
    BY <1>1 DEF FeedInv, OrderInv, StreamOrder
  <2> QED
    BY <2>2, <2>3 DEF Before
<1>3. Phase' = Phase
  BY <1>1 DEF Phase, Stage
<1> QED
  BY <1>1, <1>2, <1>3 DEF Feed!Accept

\* Reading from the channel shows a stored line newer than all those shown.
LEMMA FeedReceive ==
  ASSUME ~Errors, FeedInv, NEW c \in Clients, Receive(c)
  PROVE  Feed!Show(c)
<1> DEFINE h == Head(chan[c])
<1>1. /\ cpc[c] = "loop" /\ chan[c] # <<>>
      /\ live' = [live EXCEPT ![c] = @ \cup {h}]
      /\ UNCHANGED <<stored, cpc>>
  BY DEF Receive, storeVars
<1>2. h \in Elements(chan[c])
  BY <1>1, LinesAreNat, ElementsTail DEF FeedInv
<1> HIDE DEF h
<1>3. h \in stored
  BY <1>2 DEF FeedInv, StoredInv
<1>4. \A shown \in live[c] : shown < h
  BY <1>2 DEF FeedInv, OrderInv, ViewerOrder, Before
<1>5. Phase[c] = "watching" /\ Phase' = Phase
  BY <1>1 DEF Phase, Stage
<1> QED
  BY <1>1, <1>3, <1>4, <1>5 DEF Feed!Show

\* The other steps of an SSE handler.
LEMMA FeedClient ==
  ASSUME FeedInv, NEW c \in Clients, Client(c), ~Receive(c)
  PROVE  Feed!Join(c) \/ Feed!Leave(c) \/ UNCHANGED <<stored, live, Phase>>
<1>0. TypeInv /\ Phase \in [Clients -> {"watching", "left", "away"}]
      /\ Phase[c] = Stage(cpc[c])
  BY DEF FeedInv, Phase, Stage
<1>1. UNCHANGED <<stored, live>>
  BY DEF Client, Request, ReplayFinished, Subscribe, Replay, Receive,
         ChannelClosed, TickDone, Disconnect, Unsub, storeVars, clientVars
<1>2. CASE Request(c) \/ Subscribe(c)
  <2>1. PICK p \in {"subscribe", "history", "replay"} :
          cpc' = [cpc EXCEPT ![c] = p]
    BY <1>2 DEF Request, Subscribe
  <2>2. Phase[c] = "away" /\ Stage(p) = "away"
    BY <1>0, <1>2 DEF Request, Subscribe, Stage
  <2>3. Phase' = [Phase EXCEPT ![c] = "away"]
    BY <1>0, <2>1, <2>2, PhaseChange
  <2> QED
    BY <1>0, <1>1, <2>2, <2>3
<1>3. CASE Replay(c)
  <2>1. cpc' = [cpc EXCEPT ![c] = "loop"] /\ Phase[c] = "away"
        /\ Stage("loop") = "watching"
    BY <1>0, <1>3 DEF Replay, Stage
  <2>2. Phase' = [Phase EXCEPT ![c] = Stage("loop")]
    BY <1>0, <2>1, PhaseChange
  <2> QED
    BY <1>1, <2>1, <2>2 DEF Feed!Join
<1>4. CASE ReplayFinished(c) \/ TickDone(c) \/ Disconnect(c)
  <2>1. PICK p \in {"done", "finishing", "leaving"} :
          cpc' = [cpc EXCEPT ![c] = p]
    BY <1>4 DEF ReplayFinished, TickDone, Disconnect
  <2>2. Phase[c] # "left" /\ Stage(p) = "left"
    BY <1>0, <1>4 DEF ReplayFinished, TickDone, Disconnect, Stage
  <2>3. Phase' = [Phase EXCEPT ![c] = "left"]
    BY <1>0, <2>1, <2>2, PhaseChange
  <2> QED
    BY <1>1, <2>2, <2>3 DEF Feed!Leave
<1>5. CASE Unsub(c)
  <2>1. PICK p \in {"done", "gone"} : cpc' = [cpc EXCEPT ![c] = p]
    BY <1>5 DEF Unsub
  <2>2. Phase[c] = "left" /\ Stage(p) = "left"
    BY <1>0, <1>5 DEF Unsub, Stage
  <2>3. Phase' = [Phase EXCEPT ![c] = "left"]
    BY <1>0, <2>1, <2>2, PhaseChange
  <2> QED
    BY <1>0, <1>1, <2>2, <2>3
<1>6. CASE ChannelClosed(c)
  BY <1>1, <1>6, FeedStutter DEF ChannelClosed
<1> QED
  BY <1>2, <1>3, <1>4, <1>5, <1>6 DEF Client

\* Every step of the pipeline is a step of the promise, or changes nothing
\* that the promise is about.
LEMMA FeedStep ==
  ASSUME ~Errors, FeedInv, [Next]_vars
  PROVE  [Feed!Next]_<<stored, live, Phase>>
<1>1. CASE Insert
  BY <1>1, FeedInsert DEF Feed!Next
<1>2. ASSUME NEW c \in Clients, Client(c)
      PROVE  [Feed!Next]_<<stored, live, Phase>>
  BY <1>2, FeedReceive, FeedClient DEF Feed!Next
<1>3. CASE Streamer /\ ~Insert
  <2>1. UNCHANGED <<stored, live, cpc>>
    BY <1>3 DEF Streamer, Stream, OpenLog, ReadLine, ReadEOF, TakeLine,
       TickFlush, LineChClosed, AddSize, Publish, Unregister, Close, storeVars,
       clientVars
  <2> QED
    BY <2>1, FeedStutter
<1>4. CASE \/ Produce \/ Terminate \/ FinishRun \/ WantLog
           \/ UNCHANGED vars
  <2>1. UNCHANGED <<stored, live, cpc>>
    BY <1>4 DEF Produce, Terminate, FinishRun, WantLog, vars, storeVars,
                clientVars
  <2> QED
    BY <2>1, FeedStutter
<1> QED
  BY <1>1, <1>2, <1>3, <1>4 DEF Next

\* Nothing is stored or shown at first, and no viewer is there.
LEMMA FeedInit == Init => Feed!Init
BY DEF Init, Feed!Init, Phase, Stage

\* The pipeline of reader, batch, store, channels and handlers keeps LogFeed's
\* promise: a viewer sees stored lines only, in the order of the log, each at
\* most once, and none after it has left.  A failed insert is only logged by
\* flush, and its lines are shown without being stored: hence ~Errors.
THEOREM PipelineImplementsFeed == ~Errors => (Spec => FeedSpec)
<1> SUFFICES ASSUME ~Errors PROVE Spec => FeedSpec
  OBVIOUS
<1>1. Init => FeedInv /\ SeqsOK
  BY TypeInit, OrderInit DEF FeedInv, StoredInv, Init, Elements, SeqsOK
<1>2. FeedInv /\ SeqsOK /\ [Next]_vars => FeedInv' /\ SeqsOK'
  BY TypeStep, OrderStep, StoredStep, SeqsStep DEF FeedInv
<1>3. FeedInv /\ [Next]_vars => [Feed!Next]_<<stored, live, Phase>>
  BY FeedStep
<1> QED
  BY <1>1, <1>2, <1>3, FeedInit, PTL DEF Spec, FeedSpec, Feed!Spec
=============================================================================
