---------------------------- MODULE LogPipeline ----------------------------
(***************************************************************************)
(* The path of one run's log from the Pod to the browser: the streamer     *)
(* (internal/streamer/logstream.go) with its reader goroutine, batch and   *)
(* flush, the broadcaster's fan-out, and the SSE handler that replays the  *)
(* stored lines and then follows the live ones (internal/api).             *)
(*                                                                         *)
(* A line is a number: line k of the log, read by the s-th streaming       *)
(* goroutine, is Entry(s, k), so that lines are ordered by when they are   *)
(* read and a log that is read twice yields different lines.               *)
(***************************************************************************)
EXTENDS Naturals, Sequences, FiniteSets

CONSTANTS
  Clients,      \* SSE requests
  LogLength,    \* lines the container writes
  MaxSessions,  \* bound on the streaming goroutines started for the run
  LineCap,      \* capacity of lineCh (256)
  FlushMax,     \* flushMaxLines (200)
  ChanCap,      \* chanBufferSize (64)
  TailLimit,    \* sseLogLimit (5000)
  Errors        \* may opening or reading the log, or a store call, fail?

ASSUME PipelineAssumption ==
  /\ LogLength \in Nat \ {0} /\ MaxSessions \in Nat
  /\ LineCap \in Nat \ {0} /\ FlushMax \in Nat \ {0}
  /\ ChanCap \in Nat \ {0} /\ TailLimit \in Nat \ {0}
  /\ Errors \in BOOLEAN

VARIABLES
  produced,  \* lines the container has written
  ended,     \* has the container terminated?
  status,    \* status of the run in job_runs
  wanted,    \* a Pod handler saw log size 0 and is about to call Stream
  streaming, \* Streamer.streaming[runID]
  session,   \* streaming goroutines started
  pc,        \* where the streaming goroutine is
  read,      \* lines its reader goroutine has read
  eof,       \* has the reader closed lineCh?
  lineCh,    \* lines between reader and streamer
  batch,     \* lines of the batch not published yet
  closers,   \* goroutines that have unregistered and not yet called Close
  stored,    \* log_lines of the run
  logSize,   \* is log_size_bytes > 0?
  subs,      \* Broadcaster.subs[runID]
  chan,      \* contents of each client's channel
  closed,    \* the clients whose channel has been closed
  panicked,  \* a send on, or a close of, a closed channel
  cpc,       \* where each SSE handler is
  drained,   \* broadcastDone of each SSE handler
  replayed,  \* lines sent from the store
  live,      \* lines sent from the channel
  skipped    \* lines a full channel, the tail limit or a failed read kept
             \* from the client

podVars      == <<produced, ended, status>>
streamVars   == <<streaming, session, pc, read, eof, lineCh, batch, closers>>
storeVars    == <<stored, logSize>>
channelVars  == <<subs, chan, closed, panicked>>
clientVars   == <<cpc, drained, replayed, live>>
vars == <<podVars, wanted, streamVars, storeVars, channelVars, clientVars,
          skipped>>

Entry(s, k) == (s - 1) * LogLength + k
Entries     == 1..(MaxSessions * LogLength)
Elements(s) == {s[i] : i \in DOMAIN s}

\* Every variable keeps its type, and every channel and the batch its capacity.
PodOK ==
  /\ produced \in 0..LogLength /\ ended \in BOOLEAN
  /\ status \in {"running", "finished"}

StreamOK ==
  /\ wanted \in BOOLEAN /\ streaming \in BOOLEAN
  /\ session \in 0..MaxSessions
  /\ pc \in {"off", "open", "select", "insert", "size", "publish", "end"}
  /\ read \in 0..LogLength /\ eof \in BOOLEAN
  /\ lineCh \in Seq(Entries) /\ Len(lineCh) <= LineCap
  /\ batch \in Seq(Entries) /\ Len(batch) <= FlushMax
  /\ closers \in 0..MaxSessions

StoreOK == stored \subseteq Entries /\ logSize \in BOOLEAN

ChannelOK ==
  /\ subs \subseteq Clients /\ closed \subseteq Clients /\ panicked \in BOOLEAN
  /\ chan \in [Clients -> Seq(Entries)]
  /\ \A c \in Clients : Len(chan[c]) <= ChanCap

ClientOK ==
  /\ cpc \in [Clients -> {"new", "history", "subscribe", "replay", "loop",
                          "finishing", "leaving", "done", "gone"}]
  /\ drained \in [Clients -> BOOLEAN]
  /\ replayed \in [Clients -> SUBSET Entries]
  /\ live \in [Clients -> SUBSET Entries]
  /\ skipped \in [Clients -> SUBSET Entries]

TypeOK == PodOK /\ StreamOK /\ StoreOK /\ ChannelOK /\ ClientOK

Init ==
  /\ produced = 0 /\ ended = FALSE /\ status = "running"
  /\ wanted = FALSE /\ streaming = FALSE /\ session = 0 /\ pc = "off"
  /\ read = 0 /\ eof = FALSE /\ lineCh = <<>> /\ batch = <<>>
  /\ closers = 0
  /\ stored = {} /\ logSize = FALSE
  /\ subs = {} /\ closed = {} /\ panicked = FALSE
  /\ chan = [c \in Clients |-> <<>>]
  /\ cpc = [c \in Clients |-> "new"]
  /\ drained = [c \in Clients |-> FALSE]
  /\ replayed = [c \in Clients |-> {}]
  /\ live = [c \in Clients |-> {}]
  /\ skipped = [c \in Clients |-> {}]

-----------------------------------------------------------------------------
(* The Pod, and the Pod handler that closes the run and calls Stream       *)

Produce ==
  /\ ~ended /\ produced < LogLength
  /\ produced' = produced + 1
  /\ UNCHANGED <<ended, status, wanted, streamVars, storeVars, channelVars,
                 clientVars, skipped>>

Terminate ==
  /\ ~ended
  /\ ended' = TRUE
  /\ UNCHANGED <<produced, status, wanted, streamVars, storeVars,
                 channelVars, clientVars, skipped>>

\* UpdateJobRunStatus on the terminal phase: another goroutine than the
\* streamer's, in no order with it.
FinishRun ==
  /\ ended /\ status = "running"
  /\ status' = "finished"
  /\ UNCHANGED <<produced, ended, wanted, streamVars, storeVars, channelVars,
                 clientVars, skipped>>

\* GetJobRun shows no log captured yet; the call of Stream comes later.
WantLog ==
  /\ ~logSize /\ ~wanted /\ session < MaxSessions
  /\ wanted' = TRUE
  /\ UNCHANGED <<podVars, streamVars, storeVars, channelVars, clientVars,
                 skipped>>

-----------------------------------------------------------------------------
(* The streamer                                                            *)

\* Stream: a no-op while a goroutine streams the run.
Stream ==
  /\ wanted
  /\ wanted' = FALSE
  /\ IF streaming
     THEN UNCHANGED <<streaming, session, pc, read, eof>>
     ELSE /\ streaming' = TRUE
          /\ session' = session + 1
          /\ pc' = "open" /\ read' = 0 /\ eof' = FALSE
  /\ UNCHANGED <<podVars, lineCh, batch, closers, storeVars, channelVars,
                 clientVars, skipped>>

OpenLog ==
  /\ pc = "open"
  /\ \/ pc' = "select"
     \/ Errors /\ pc' = "end"
  /\ UNCHANGED <<podVars, wanted, streaming, session, read, eof, lineCh,
                 batch, closers, storeVars, channelVars, clientVars, skipped>>

\* The reader goroutine: a line goes into lineCh when there is room for it.
ReadLine ==
  /\ pc \notin {"off", "open", "end"} /\ ~eof
  /\ read < produced /\ Len(lineCh) < LineCap
  /\ read' = read + 1
  /\ lineCh' = Append(lineCh, Entry(session, read + 1))
  /\ UNCHANGED <<podVars, wanted, streaming, session, pc, eof, batch, closers,
                 storeVars, channelVars, clientVars, skipped>>

\* ... and it closes lineCh at the end of the log or on a read error.
ReadEOF ==
  /\ pc \notin {"off", "open", "end"} /\ ~eof
  /\ Errors \/ (ended /\ read = produced)
  /\ eof' = TRUE
  /\ UNCHANGED <<podVars, wanted, streaming, session, pc, read, lineCh, batch,
                 closers, storeVars, channelVars, clientVars, skipped>>

TakeLine ==
  /\ pc = "select" /\ lineCh # <<>>
  /\ lineCh' = Tail(lineCh)
  /\ batch' = Append(batch, Head(lineCh))
  /\ pc' = IF Len(batch) + 1 >= FlushMax THEN "insert" ELSE "select"
  /\ UNCHANGED <<podVars, wanted, streaming, session, read, eof, closers,
                 storeVars, channelVars, clientVars, skipped>>

\* The ticker: flush has nothing to do for an empty batch.
TickFlush ==
  /\ pc = "select" /\ batch # <<>>
  /\ pc' = "insert"
  /\ UNCHANGED <<podVars, wanted, streaming, session, read, eof, lineCh,
                 batch, closers, storeVars, channelVars, clientVars, skipped>>

\* lineCh is closed and empty: a last flush, and the goroutine returns.
LineChClosed ==
  /\ pc = "select" /\ lineCh = <<>> /\ eof
  /\ pc' = IF batch = <<>> THEN "end" ELSE "insert"
  /\ UNCHANGED <<podVars, wanted, streaming, session, read, eof, lineCh,
                 batch, closers, storeVars, channelVars, clientVars, skipped>>

\* Mutant of Insert: the lines are published before they are stored.
InsertLate ==
  /\ pc = "insert"
  /\ pc' = "size"
  /\ UNCHANGED <<podVars, wanted, streaming, session, read, eof, lineCh,
                 batch, closers, storeVars, channelVars, clientVars, skipped>>

\* Mutant of Insert: a batch that cannot be stored is given up.
InsertOrDrop ==
  /\ pc = "insert"
  /\ \/ stored' = stored \cup Elements(batch) /\ pc' = "size" /\ UNCHANGED batch
     \/ Errors /\ batch' = <<>> /\ pc' = "select" /\ UNCHANGED stored
  /\ UNCHANGED <<podVars, wanted, streaming, session, read, eof, lineCh, closers,
                 logSize, channelVars, clientVars, skipped>>

\* flush: BatchInsertLogLines, AddLogSize, and then Publish for each line.  A
\* failed store call is only logged.
Insert ==
  /\ pc = "insert"
  /\ \/ stored' = stored \cup Elements(batch)
     \/ Errors /\ UNCHANGED stored
  /\ pc' = "size"
  /\ UNCHANGED <<podVars, wanted, streaming, session, read, eof, lineCh,
                 batch, closers, logSize, channelVars, clientVars, skipped>>

AddSize ==
  /\ pc = "size"
  /\ \/ logSize' = TRUE
     \/ Errors /\ UNCHANGED logSize
  /\ pc' = "publish"
  /\ UNCHANGED <<podVars, wanted, streaming, session, read, eof, lineCh,
                 batch, closers, stored, channelVars, clientVars, skipped>>

\* After the last line: back to the select.  (lineCh closed and empty is then
\* found there again, with an empty batch.)
AfterPublish == IF Len(batch) = 1 THEN "select" ELSE "publish"

\* Mutant of Publish: the send waits for room in every channel.
PublishBlocking ==
  /\ pc = "publish"
  /\ \A c \in subs : Len(chan[c]) < ChanCap
  /\ chan' = [c \in Clients |-> IF c \in subs
                                THEN Append(chan[c], Head(batch)) ELSE chan[c]]
  /\ panicked' = (panicked \/ subs \cap closed # {})
  /\ batch' = Tail(batch) /\ pc' = AfterPublish
  /\ UNCHANGED <<podVars, wanted, streaming, session, read, eof, lineCh,
                 closers, storeVars, subs, closed, clientVars, skipped>>

\* Publish, under the read lock: a full channel drops the line.
Publish ==
  LET room == {c \in subs : Len(chan[c]) < ChanCap}
  IN
  /\ pc = "publish"
  /\ chan' = [c \in Clients |-> IF c \in room
                                THEN Append(chan[c], Head(batch)) ELSE chan[c]]
  /\ skipped' = [c \in Clients |-> IF c \in subs \ room
                                   THEN skipped[c] \cup {Head(batch)}
                                   ELSE skipped[c]]
  /\ panicked' = (panicked \/ subs \cap closed # {})
  /\ batch' = Tail(batch) /\ pc' = AfterPublish
  /\ UNCHANGED <<podVars, wanted, streaming, session, read, eof, lineCh,
                 closers, storeVars, subs, closed, clientVars>>

\* The goroutine's deferred function: streaming is cleared under the mutex ...
Unregister ==
  /\ pc = "end"
  /\ streaming' = FALSE /\ pc' = "off" /\ closers' = closers + 1
  /\ UNCHANGED <<podVars, wanted, session, read, eof, lineCh, batch,
                 storeVars, channelVars, clientVars, skipped>>

\* Mutant of Close: the map entry stays.
CloseKeepsEntry ==
  /\ closers > 0
  /\ closers' = closers - 1
  /\ closed' = closed \cup subs
  /\ panicked' = (panicked \/ subs \cap closed # {})
  /\ UNCHANGED <<podVars, wanted, streaming, session, pc, read, eof, lineCh,
                 batch, storeVars, subs, chan, clientVars, skipped>>

\* ... and then every channel of the run is closed, and the entry deleted.
Close ==
  /\ closers > 0
  /\ closers' = closers - 1
  /\ closed' = closed \cup subs
  /\ panicked' = (panicked \/ subs \cap closed # {})
  /\ subs' = {}
  /\ UNCHANGED <<podVars, wanted, streaming, session, pc, read, eof, lineCh,
                 batch, storeVars, chan, clientVars, skipped>>

Streamer ==
  \/ Stream \/ OpenLog \/ ReadLine \/ ReadEOF \/ TakeLine \/ TickFlush
  \/ LineChClosed \/ Insert \/ AddSize \/ Publish \/ Unregister \/ Close

-----------------------------------------------------------------------------
(* The SSE handler (StreamLogs)                                            *)

\* GetJobRun: a finished run is replayed, a running one is followed.
Request(c) ==
  /\ cpc[c] = "new"
  /\ cpc' = [cpc EXCEPT ![c] = IF status = "running" THEN "subscribe"
                               ELSE "history"]
  /\ UNCHANGED <<podVars, wanted, streamVars, storeVars, channelVars, drained,
                 replayed, live, skipped>>

\* GetLogLinesTail: the newest TailLimit lines.
LogTail ==
  {e \in stored : Cardinality({x \in stored : x > e}) < TailLimit}

\* A finished run: the stored lines, and the "done" event.  The error of
\* GetLogLinesTail is ignored, here and in Replay.
ReplayFinished(c) ==
  /\ cpc[c] = "history"
  /\ \E lines \in {LogTail} \cup (IF Errors THEN {{}} ELSE {}) :
       /\ replayed' = [replayed EXCEPT ![c] = lines]
       /\ skipped' = [skipped EXCEPT ![c] = stored \ lines]
  /\ cpc' = [cpc EXCEPT ![c] = "done"]
  /\ UNCHANGED <<podVars, wanted, streamVars, storeVars, channelVars, drained,
                 live>>

\* Mutant of Subscribe: the client reads the history first, and subscribes
\* in a second step.
SubscribeLate(c) ==
  /\ \/ /\ cpc[c] = "subscribe"
        /\ replayed' = [replayed EXCEPT ![c] = LogTail]
        /\ skipped' = [skipped EXCEPT ![c] = stored \ LogTail]
        /\ cpc' = [cpc EXCEPT ![c] = "replay"]
        /\ UNCHANGED subs
     \/ /\ cpc[c] = "replay"
        /\ subs' = subs \cup {c}
        /\ cpc' = [cpc EXCEPT ![c] = "loop"]
        /\ UNCHANGED <<replayed, skipped>>
  /\ UNCHANGED <<podVars, wanted, streamVars, storeVars, chan, closed,
                 panicked, drained, live>>

\* A running run: first Subscribe, then the stored lines, then the loop.
Subscribe(c) ==
  /\ cpc[c] = "subscribe"
  /\ subs' = subs \cup {c}
  /\ cpc' = [cpc EXCEPT ![c] = "replay"]
  /\ UNCHANGED <<podVars, wanted, streamVars, storeVars, chan, closed,
                 panicked, drained, replayed, live, skipped>>

Replay(c) ==
  /\ cpc[c] = "replay"
  /\ \E lines \in {LogTail} \cup (IF Errors THEN {{}} ELSE {}) :
       /\ replayed' = [replayed EXCEPT ![c] = lines]
       /\ skipped' = [skipped EXCEPT ![c] = @ \cup (stored \ lines)]
  /\ cpc' = [cpc EXCEPT ![c] = "loop"]
  /\ UNCHANGED <<podVars, wanted, streamVars, storeVars, channelVars, drained,
                 live>>

Receive(c) ==
  /\ cpc[c] = "loop" /\ ~drained[c] /\ chan[c] # <<>>
  /\ live' = [live EXCEPT ![c] = @ \cup {Head(chan[c])}]
  /\ chan' = [chan EXCEPT ![c] = Tail(@)]
  /\ UNCHANGED <<podVars, wanted, streamVars, storeVars, subs, closed,
                 panicked, cpc, drained, replayed, skipped>>

\* The channel is closed and empty: broadcastDone.
ChannelClosed(c) ==
  /\ cpc[c] = "loop" /\ ~drained[c] /\ chan[c] = <<>> /\ c \in closed
  /\ drained' = [drained EXCEPT ![c] = TRUE]
  /\ UNCHANGED <<podVars, wanted, streamVars, storeVars, channelVars, cpc,
                 replayed, live, skipped>>

\* Mutant of TickDone: only the end of the broadcast is looked at.
TickBroadcastOnly(c) ==
  /\ cpc[c] = "loop"
  /\ drained[c]
  /\ cpc' = [cpc EXCEPT ![c] = "finishing"]
  /\ UNCHANGED <<podVars, wanted, streamVars, storeVars, channelVars, drained,
                 replayed, live, skipped>>

\* The ticker finds the run finished, or the broadcast over for five seconds.
TickDone(c) ==
  /\ cpc[c] = "loop"
  /\ status # "running" \/ drained[c]
  /\ cpc' = [cpc EXCEPT ![c] = "finishing"]
  /\ UNCHANGED <<podVars, wanted, streamVars, storeVars, channelVars, drained,
                 replayed, live, skipped>>

Disconnect(c) ==
  /\ cpc[c] = "loop"
  /\ cpc' = [cpc EXCEPT ![c] = "leaving"]
  /\ UNCHANGED <<podVars, wanted, streamVars, storeVars, channelVars, drained,
                 replayed, live, skipped>>

\* The deferred unsub: it closes the channel only if Close has not removed it.
Unsub(c) ==
  /\ cpc[c] \in {"finishing", "leaving"}
  /\ cpc' = [cpc EXCEPT ![c] = IF @ = "finishing" THEN "done" ELSE "gone"]
  /\ IF c \in subs
     THEN /\ subs' = subs \ {c}
          /\ closed' = closed \cup {c}
          /\ panicked' = (panicked \/ c \in closed)
     ELSE UNCHANGED <<subs, closed, panicked>>
  /\ UNCHANGED <<podVars, wanted, streamVars, storeVars, chan, drained,
                 replayed, live, skipped>>

Client(c) ==
  \/ Request(c) \/ ReplayFinished(c) \/ Subscribe(c) \/ Replay(c)
  \/ Receive(c) \/ ChannelClosed(c) \/ TickDone(c) \/ Disconnect(c)
  \/ Unsub(c)

-----------------------------------------------------------------------------

Next ==
  \/ Produce \/ Terminate \/ FinishRun \/ WantLog
  \/ Streamer
  \/ \E c \in Clients : Client(c)

Spec == Init /\ [][Next]_vars

\* The streamer's goroutines are never kept waiting.  Of an SSE handler only
\* the ticker and the return are assumed to make progress: its select may
\* prefer the ticker, and nothing obliges a browser to read.
FairSpec ==
  /\ Spec
  /\ WF_vars(Stream) /\ WF_vars(OpenLog) /\ WF_vars(ReadLine)
  /\ WF_vars(ReadEOF) /\ WF_vars(TakeLine \/ LineChClosed)
  /\ WF_vars(TickFlush) /\ WF_vars(Insert) /\ WF_vars(AddSize)
  /\ WF_vars(Publish) /\ WF_vars(Unregister) /\ WF_vars(Close)
  /\ \A c \in Clients :
       /\ WF_vars(TickDone(c)) /\ WF_vars(Unsub(c))
       /\ WF_vars(ChannelClosed(c))

-----------------------------------------------------------------------------
(* Properties *)

\* The latest line read: every line under way is at most that one.
LastRead == IF session = 0 THEN 0 ELSE Entry(session, read)

\* The lines a viewer has or will find in its channel, and those the streamer
\* has yet to publish.
Sent(c) == live[c] \cup Elements(chan[c])
Pending == Elements(batch) \cup Elements(lineCh)

\* No channel is sent to, or closed, after it has been closed, although
\* Publish, Close and unsub run in three goroutines: the map entry and the
\* channel always go together (the panic Publish's comment is about).
NoPanic == ~panicked

\* Subscribing before the replay leaves no gap: every stored line has been
\* sent to a subscribed client, waits in its channel, is about to be
\* published, or was dropped for a reason the code knows of (slow consumer,
\* tail limit).
NoGap ==
  \A c \in subs :
    cpc[c] = "loop" =>
      stored \subseteq replayed[c] \cup live[c] \cup Elements(chan[c])
                       \cup skipped[c]
                       \cup (IF pc \in {"size", "publish"}
                             THEN Elements(batch) ELSE {})

\* A store call that fails costs no viewer a line: from the first line of the
\* present stream that a subscribed viewer gets live, each later line the
\* streamer has read is shown, waits in the viewer's channel or in the streamer,
\* or was dropped for a full channel - stored or not (flush only logs the error
\* of BatchInsertLogLines).
NoHoles ==
  \A c \in subs : \A first \in Sent(c), line \in Entries :
    Entry(session, 1) <= first /\ first < line /\ line <= LastRead
      => line \in Sent(c) \cup Pending \cup skipped[c]

\* The last flush stores the whole log once the container has terminated,
\* whatever the clients do: Publish never waits for a slow one.
LogIsStored ==
  \A k \in 1..LogLength :
    streaming /\ ended /\ produced >= k
      ~> \E s \in 1..MaxSessions : Entry(s, k) \in stored

\* Every viewer of a finished run gets its "done" event or disconnects.
ViewersFinish ==
  \A c \in Clients :
    cpc[c] = "loop" /\ status = "finished" ~> cpc[c] \in {"done", "gone"}

\* The pipeline implements LogFeed, the promise made to a viewer about its live
\* lines (those of the replay are NoGap's): each was stored first, so that a
\* reload loses none, comes in the order of the log and at most once live, and
\* nothing comes after the viewer has left.
Stage(p) == CASE p = "loop" -> "watching"
              [] p \in {"finishing", "leaving", "done", "gone"} -> "left"
              [] OTHER -> "away"
Phase == [c \in Clients |-> Stage(cpc[c])]
Feed == INSTANCE LogFeed
          WITH Lines <- Entries, accepted <- stored, view <- live,
               phase <- Phase
FeedSpec == Feed!Spec

-----------------------------------------------------------------------------
(* The inductive invariants behind the properties above.                   *)

\* The map holds open channels only, and none of a client yet to subscribe.
PanicInv ==
  /\ NoPanic
  /\ cpc \in [Clients -> {"new", "history", "subscribe", "replay", "loop",
                          "finishing", "leaving", "done", "gone"}]
  /\ subs \subseteq Clients /\ closed \subseteq Clients
  /\ subs \cap closed = {}
  /\ \A c \in subs \cup closed : cpc[c] \notin {"new", "history", "subscribe"}

\* Sequences and sets hold line numbers, a flush always has something to
\* publish, and a goroutine that runs is registered in streaming.
SeqsOK ==
  /\ lineCh \in Seq(Nat) /\ batch \in Seq(Nat)
  /\ chan \in [Clients -> Seq(Nat)]
  /\ live \in [Clients -> SUBSET Nat] /\ replayed \in [Clients -> SUBSET Nat]
  /\ skipped \in [Clients -> SUBSET Nat] /\ stored \subseteq Nat
  /\ session \in Nat /\ read \in Nat /\ (pc # "off" => session # 0)
  /\ pc \in {"insert", "size", "publish"} => batch # <<>>
  /\ pc # "off" => streaming
GapInv == SeqsOK /\ NoGap

\* What is published, or in a channel, is stored.
StoredInv ==
  ~Errors =>
    /\ \A c \in Clients : /\ live[c] \subseteq stored
                          /\ Elements(chan[c]) \subseteq stored
    /\ pc \in {"size", "publish"} => Elements(batch) \subseteq stored

\* Stream is called only while its bound allows, a goroutine that runs is
\* registered, those still to call Close have been started, and a full batch is
\* flushed.
StreamInv ==
  /\ StreamOK
  /\ wanted => session < MaxSessions
  /\ pc # "off" => streaming
  /\ closers + (IF pc = "off" THEN 0 ELSE 1) <= session
  /\ pc \in {"insert", "size", "publish"} => batch # <<>>
  /\ pc \notin {"insert", "size", "publish"} => Len(batch) < FlushMax

TypeInv == PodOK /\ StreamInv /\ StoreOK /\ ChannelOK /\ ClientOK

Before(S, T) == \A x \in S, y \in T : x < y
Ascending(s) == \A i, j \in 1..Len(s) : i < j => s[i] < s[j]

\* Lines travel in the order in which they were read: what a viewer has is
\* older than what waits in its channel, that older than the batch, and that
\* older than what the reader has ready.  Until it is stored, a batch is newer
\* than all that is.
StreamOrder ==
  /\ Ascending(lineCh) /\ Ascending(batch)
  /\ Before(Elements(batch), Elements(lineCh))
  /\ Before(stored, Elements(lineCh))
  /\ pc \in {"size", "publish"} \/ Before(stored, Elements(batch))
  /\ \A x \in stored \cup Pending : x <= LastRead

ViewerOrder(c) ==
  /\ Ascending(chan[c])
  /\ Before(live[c], Elements(chan[c]))
  /\ Before(Sent(c), Pending)
  /\ \A x \in Sent(c) : x <= LastRead

OrderInv == StreamOrder /\ \A c \in Clients : ViewerOrder(c)
FeedInv == TypeInv /\ StoredInv /\ OrderInv
=============================================================================
