------------------------------ MODULE Clusters ------------------------------
(***************************************************************************)
(* The clusters KubeCron knows: the kubeconfigs it loads at startup        *)
(* (internal/cluster), the rows of the clusters table (internal/storage)   *)
(* the pages list, and the Metrics API probe of each (internal/sampler).   *)
(*                                                                         *)
(* Load runs once per process.  The rows outlive the process; the registry *)
(* of clients and their metrics flags do not.  A shutdown signal cancels   *)
(* the context, after which every store call and every probe fails while   *)
(* main still runs on.                                                     *)
(***************************************************************************)
EXTENDS Naturals

CONSTANTS
  Ids,        \* cluster ids
  Files,      \* kubeconfig file names
  IdOf,       \* the id of each: its name without the extension
  Local,      \* Manager.localID
  CertFiles,  \* kubeconfigs refer to certificate files, which may come and go
  MaxStarts,  \* bound on process starts
  MaxEdits    \* bound on changes outside KubeCron

ASSUME ClustersAssumption ==
  /\ IdOf \in [Files -> Ids] /\ Local \in Ids
  /\ CertFiles \in BOOLEAN /\ MaxStarts \in Nat /\ MaxEdits \in Nat

Kinds == {"none", "good", "bad"}

VARIABLES
  files,      \* the kubeconfig directory: each file absent, good or malformed
  readable,   \* whether the directory can be listed
  account,    \* the pod's service account config
  api,        \* the clusters whose Metrics API answers
  row,        \* clusters.deleted_at: "none" (no row), "live" or "deleted"
  column,     \* the clusters with metrics_enabled set
  pc,         \* main: "down", "start", "files", "local", "mark", "probe", "up"
  todo,       \* files, then clients, still to be handled
  expected,   \* the ids Load keeps
  onDisk,     \* ids with a file in Load's listing of the directory
  client,     \* the registry: "none", "client", or "nil" (no metrics client)
  flag,       \* the clients with metricsEnabled set
  ctxDone,    \* the context is cancelled
  marked,     \* this process has marked the removed clusters
  starts, edits

outside == <<files, readable, account, api>>
table   == <<row, column>>
memory  == <<client, flag>>
load    == <<pc, todo, expected, onDisk, marked>>
counts  == <<starts, edits>>
vars    == <<outside, table, memory, load, ctxDone, counts>>

\* Every variable keeps its type.
TypeOK ==
  /\ files \in [Files -> Kinds] /\ readable \in BOOLEAN /\ account \in Kinds
  /\ api \subseteq Ids
  /\ row \in [Ids -> {"none", "live", "deleted"}] /\ column \subseteq Ids
  /\ pc \in {"down", "start", "files", "local", "mark", "probe", "up"}
  /\ todo \subseteq Files \cup Ids
  /\ expected \subseteq Ids /\ onDisk \subseteq Ids
  /\ client \in [Ids -> {"none", "client", "nil"}] /\ flag \subseteq Ids
  /\ ctxDone \in BOOLEAN /\ marked \in BOOLEAN
  /\ starts \in 0..MaxStarts /\ edits \in 0..MaxEdits

NoMemory ==
  client = [c \in Ids |-> "none"] /\ flag = {}

Init ==
  /\ files \in [Files -> Kinds] /\ readable \in BOOLEAN /\ account \in Kinds
  /\ api \in SUBSET Ids
  /\ row = [c \in Ids |-> "none"] /\ column = {}
  /\ pc = "down" /\ todo = {} /\ expected = {} /\ onDisk = {}
  /\ NoMemory
  /\ ctxDone = FALSE /\ marked = FALSE
  /\ starts = 0 /\ edits = 0

-----------------------------------------------------------------------------
(* The store.  With the context cancelled a statement fails and the caller *)
(* logs it and goes on.                                                    *)

\* Mutant of UpsertCluster: deleted_at is left as it is.
UpsertClusterNoRevive(c) ==
  IF ctxDone \/ row[c] # "none" THEN row ELSE [row EXCEPT ![c] = "live"]

\* UpsertCluster: a new row, or the old one revived.
UpsertCluster(c) == IF ctxDone THEN row ELSE [row EXCEPT ![c] = "live"]

\* Mutant of MarkClustersDeletedExcept: nothing is marked.
MarkNone(keep) == row

\* MarkClustersDeletedExcept; keeping none is taken for a broken directory.
MarkClustersDeletedExcept(keep) ==
  IF ctxDone \/ keep = {} THEN row
  ELSE [c \in Ids |-> IF row[c] = "live" /\ c \notin keep
                      THEN "deleted" ELSE row[c]]

\* SetClusterMetricsEnabled; without a row nothing is updated.
SetClusterMetricsEnabled(c) ==
  IF ctxDone \/ row[c] = "none" THEN column ELSE column \cup {c}

\* ListClusters
Listed == {c \in Ids : row[c] = "live"}

-----------------------------------------------------------------------------
(* Manager.Load                                                            *)

\* Mutant of Declared: only the ids of well-formed files.
DeclaredGood == {IdOf[f] : f \in {g \in Files : files[g] = "good"}}

\* The ids of the files Load finds, whether or not they can be used.
Declared == {IdOf[f] : f \in {g \in Files : files[g] # "none"}}

\* A directory that cannot be listed or holds no kubeconfig makes Load fall
\* back to the service account.
ReadDir ==
  /\ pc = "start"
  /\ onDisk' = {IdOf[f] : f \in {g \in Files : readable /\ files[g] # "none"}}
  /\ IF readable /\ \E f \in Files : files[f] # "none"
     THEN /\ pc' = "files" /\ expected' = Declared
          /\ todo' = {f \in Files : files[f] # "none"}
     ELSE pc' = "local" /\ UNCHANGED <<expected, todo>>
  /\ UNCHANGED <<outside, table, memory, ctxDone, marked, counts>>

\* registerCluster: a client replaces an earlier one of the same id.  The
\* metrics client is built from the same config once more, and may fail when
\* the certificate files have gone.
registerCluster(c) ==
  /\ \E k \in {"client"} \cup (IF CertFiles THEN {"nil"} ELSE {}) :
       client' = [client EXCEPT ![c] = k]
  /\ row' = UpsertCluster(c)
  /\ UNCHANGED <<column, flag>>

\* One file of the listing, as it is now; a bad one is logged and skipped.
LoadFile(f) ==
  /\ pc = "files" /\ f \in todo
  /\ todo' = todo \ {f}
  /\ IF readable /\ files[f] = "good"
     THEN registerCluster(IdOf[f])
     ELSE UNCHANGED <<table, memory>>
  /\ UNCHANGED <<outside, pc, expected, onDisk, marked, ctxDone, counts>>

FilesLoaded ==
  /\ pc = "files" /\ todo = {} /\ pc' = "mark"
  /\ UNCHANGED <<outside, table, memory, todo, expected, onDisk, marked, ctxDone, counts>>

\* loadInCluster: an error ends Load before anything is marked.
loadInCluster ==
  /\ pc = "local"
  /\ IF account = "good"
     THEN registerCluster(Local) /\ pc' = "mark" /\ expected' = {Local} /\ UNCHANGED todo
     ELSE /\ pc' = "probe" /\ todo' = {} /\ UNCHANGED <<table, memory, expected>>
  /\ UNCHANGED <<outside, onDisk, marked, ctxDone, counts>>

Registered == {c \in Ids : client[c] # "none"}

markRemovedClusters ==
  /\ pc = "mark" /\ pc' = "probe"
  /\ row' = MarkClustersDeletedExcept(expected)
  /\ marked' = ~ctxDone
  /\ todo' = Registered
  /\ UNCHANGED <<outside, column, memory, expected, onDisk, ctxDone, counts>>

-----------------------------------------------------------------------------
(* The metrics probe                                                       *)

\* probe: a success is recorded in the row and in the client, and in the client
\* also when the signal comes after the answer and the write fails; a failure
\* changes neither.
probe(c) ==
  \/ /\ c \in api /\ ~ctxDone
     /\ \/ column' = SetClusterMetricsEnabled(c) /\ UNCHANGED ctxDone
        \/ UNCHANGED column /\ ctxDone' = TRUE
     /\ flag' = flag \cup {c}
     /\ UNCHANGED <<row, client>>
  \/ /\ c \notin api \/ ctxDone
     /\ UNCHANGED <<table, memory, ctxDone>>

\* The main loop over the registry.  The failed metrics client is a nil
\* pointer in an interface, so StartProbe's test for nil does not see it.
StartProbe(c) ==
  /\ pc = "probe" /\ c \in todo /\ client[c] = "client"
  /\ todo' = todo \ {c}
  /\ probe(c)
  /\ UNCHANGED <<outside, pc, expected, onDisk, marked, counts>>

Forget ==
  /\ client' = [c \in Ids |-> "none"] /\ flag' = {}
  /\ pc' = "down" /\ todo' = {} /\ expected' = {} /\ onDisk' = {}
  /\ marked' = FALSE /\ ctxDone' = FALSE

Panic(c) ==
  /\ pc = "probe" /\ c \in todo /\ client[c] = "nil"
  /\ Forget
  /\ UNCHANGED <<outside, table, counts>>

\* Mutant of Reprobe: the background probe ends with the start.
ReprobeAtStart(c) ==
  /\ pc = "probe" /\ client[c] = "client" /\ c \notin todo
  /\ probe(c)
  /\ UNCHANGED <<outside, load, counts>>

\* The background probe, every five minutes from StartProbe on.
Reprobe(c) ==
  /\ pc \in {"probe", "up"} /\ client[c] = "client" /\ c \notin todo
  /\ probe(c)
  /\ UNCHANGED <<outside, load, counts>>

-----------------------------------------------------------------------------
(* The process and the world around it                                     *)

Boot ==
  /\ pc = "down" /\ starts < MaxStarts
  /\ pc' = "start" /\ starts' = starts + 1
  /\ UNCHANGED <<outside, table, memory, todo, expected, onDisk, marked, ctxDone, edits>>

Serve ==
  /\ pc = "probe" /\ todo = {} /\ pc' = "up"
  /\ UNCHANGED <<outside, table, memory, todo, expected, onDisk, marked, ctxDone, counts>>

\* SIGTERM cancels the context; main reaches its end later.
Signal ==
  /\ pc # "down" /\ ~ctxDone /\ ctxDone' = TRUE
  /\ UNCHANGED <<outside, table, memory, load, counts>>

\* The process ends, by main returning or by a crash at any point.
Exit ==
  /\ pc # "down"
  /\ Forget
  /\ UNCHANGED <<outside, table, counts>>

\* An operator or the kubelet changes the directory, the account or a cluster.
Edit ==
  /\ edits < MaxEdits /\ edits' = edits + 1
  /\ \/ /\ \E f \in Files, k \in Kinds : files' = [files EXCEPT ![f] = k]
        /\ UNCHANGED <<readable, account, api>>
     \/ readable' = ~readable /\ UNCHANGED <<files, account, api>>
     \/ (\E k \in Kinds : account' = k) /\ UNCHANGED <<files, readable, api>>
     \/ /\ \E c \in Ids : api' = (api \ {c}) \cup ({c} \ api)
        /\ UNCHANGED <<files, readable, account>>
  /\ UNCHANGED <<table, memory, load, ctxDone, starts>>

Startup ==
  \/ ReadDir \/ (\E f \in Files : LoadFile(f)) \/ FilesLoaded \/ loadInCluster
  \/ markRemovedClusters \/ (\E c \in Ids : StartProbe(c) \/ Panic(c)) \/ Serve

Next ==
  \/ Startup \/ (\E c \in Ids : Reprobe(c))
  \/ Boot \/ Signal \/ Exit \/ Edit

Spec == Init /\ [][Next]_vars

\* main's steps and each probe's ticker go on; nothing says when the process
\* starts or ends.
FairSpec == Spec /\ WF_vars(Startup) /\ \A c \in Ids : WF_vars(Reprobe(c))

-----------------------------------------------------------------------------
(* Properties *)

\* BUG-20: once Load has marked the removed clusters, what the pages list is
\* what this start declared, whatever earlier processes left in the table.
ListedIsDeclared == marked => Listed \subseteq expected

\* Load never hides a cluster it has just registered, and one that comes back
\* is listed again: its handlers write under a row the pages show.
RegisteredIsListed == marked => Registered \subseteq Listed

\* manager.go: a malformed kubeconfig, or one that cannot be read after the
\* listing, does not make its cluster disappear.
BrokenIsKept ==
  [][\A c \in Ids : row[c] = "live" /\ row'[c] = "deleted" => c \notin onDisk]_vars

\* A Metrics API that comes up and stays up is noticed without a restart, by the
\* process and by the pages.
MetricsAreNoticed ==
  \A c \in Ids :
    <>[](pc = "up" /\ client[c] = "client" /\ c \in api /\ ~ctxDone)
      => <>[](c \in flag /\ c \in column)

-----------------------------------------------------------------------------
(* The inductive invariant behind the safety properties.                   *)

\* What Load lists and registers it also keeps, and what it has registered is listed,
\* unless the context was cancelled on the way.
LoadInv ==
  /\ pc = "files" => \A f \in Files : f \in todo => IdOf[f] \in expected
  /\ pc \in {"down", "start", "local"} => Registered = {} /\ ~marked
  /\ pc \in {"files", "mark"} => expected # {} /\ ~marked
  /\ pc \in {"files", "mark"} => onDisk \subseteq expected
  /\ pc = "local" => onDisk = {}
  /\ Registered \subseteq expected
  /\ ctxDone \/ Registered \subseteq Listed
  /\ flag \subseteq Registered
  /\ marked => Registered \subseteq Listed

ClustersInv == TypeOK /\ LoadInv /\ ListedIsDeclared
=============================================================================
