--------------------------- MODULE Clusters_proofs ---------------------------
(* Theorems about Clusters: what Load registers, keeps and hides.          *)
EXTENDS Clusters, TLAPS

USE DEF Kinds

\* An empty table and no process satisfy ClustersInv.
LEMMA InitClusters == Init => ClustersInv
<1> SUFFICES ASSUME Init PROVE ClustersInv
  OBVIOUS
<1>1. TypeOK
  <2>1. /\ row \in [Ids -> {"none", "live", "deleted"}]
        /\ client \in [Ids -> {"none", "client", "nil"}]
    BY DEF Init, NoMemory
  <2>2. starts \in 0..MaxStarts /\ edits \in 0..MaxEdits
    BY ClustersAssumption DEF Init
  <2> QED BY <2>1, <2>2 DEF Init, NoMemory, TypeOK
<1>2. Registered = {}
  BY DEF Init, NoMemory, Registered
<1>3. LoadInv
  BY <1>2 DEF Init, NoMemory, LoadInv
<1> QED BY <1>1, <1>3 DEF Init, NoMemory, ClustersInv, ListedIsDeclared

\* registerCluster adds c to the registry and, unless the context is
\* cancelled, to the listed rows; nothing leaves either.
LEMMA RegisterClusters ==
  ASSUME TypeOK, NEW c \in Ids, registerCluster(c)
  PROVE  /\ Registered' = Registered \cup {c}
         /\ Listed' = IF ctxDone THEN Listed ELSE Listed \cup {c}
         /\ client' \in [Ids -> {"none", "client", "nil"}]
         /\ row' \in [Ids -> {"none", "live", "deleted"}]
         /\ UNCHANGED <<column, flag>>
<1>1. PICK k \in {"client", "nil"} : client' = [client EXCEPT ![c] = k]
  BY DEF registerCluster
<1>2. row' = IF ctxDone THEN row ELSE [row EXCEPT ![c] = "live"]
  BY DEF registerCluster, UpsertCluster
<1>3. Registered' = Registered \cup {c} /\ client' \in [Ids -> {"none", "client", "nil"}]
  BY <1>1 DEF Registered, TypeOK
<1>4. /\ Listed' = IF ctxDone THEN Listed ELSE Listed \cup {c}
      /\ row' \in [Ids -> {"none", "live", "deleted"}]
  BY <1>2 DEF Listed, TypeOK
<1> QED BY <1>3, <1>4 DEF registerCluster

\* Listing the directory fixes what Load will keep.
LEMMA ReadDirClusters == ASSUME ClustersInv, ReadDir PROVE ClustersInv'
<1> USE DEF ClustersInv
<1>1. /\ UNCHANGED <<files, readable, account, api, row, column, client, flag,
                     ctxDone, marked, starts, edits>>
      /\ Registered' = Registered /\ Listed' = Listed
  BY DEF ReadDir, outside, table, memory, counts, Registered, Listed
<1>2. pc' \in {"files", "local"} /\ ~marked /\ Registered = {}
  BY DEF ReadDir, LoadInv
<1>3. expected' \subseteq Ids /\ onDisk' \subseteq Ids /\ todo' \subseteq Files \cup Ids
  <2>1. Declared \subseteq Ids
    BY ClustersAssumption DEF Declared
  <2> QED BY <2>1 DEF ReadDir, Declared, TypeOK
<1>4. TypeOK'
  BY <1>1, <1>2, <1>3 DEF TypeOK
<1>5. pc' = "files" => /\ \A f \in Files : f \in todo' => IdOf[f] \in expected'
                       /\ expected' # {}
  BY DEF ReadDir, Declared
<1>6. LoadInv'
  <2>1. Registered' = {} /\ flag' = {} /\ ~marked'
    BY <1>1, <1>2 DEF LoadInv
  <2>2. pc' \in {"files", "mark"} => expected' # {}
    BY <1>2, <1>5
  <2>3. Registered' \subseteq expected' /\ Registered' \subseteq Listed'
    BY <2>1
  <2>4. /\ pc' \in {"files", "mark"} => onDisk' \subseteq expected'
        /\ pc' = "local" => onDisk' = {}
    BY <1>2 DEF ReadDir, Declared
  <2> QED BY <1>5, <2>1, <2>2, <2>3, <2>4 DEF LoadInv
<1> QED BY <1>1, <1>2, <1>4, <1>6 DEF ListedIsDeclared

\* A file Load registers is one it has listed.
LEMMA LoadFileClusters ==
  ASSUME ClustersInv, NEW f \in Files, LoadFile(f) PROVE ClustersInv'
<1> USE DEF ClustersInv
<1>1. /\ pc = "files" /\ f \in todo /\ todo' = todo \ {f} /\ ~marked
      /\ UNCHANGED <<files, readable, account, api, pc, expected, onDisk, marked, ctxDone, starts, edits>>
  BY DEF LoadFile, outside, counts, LoadInv
<1>2. IdOf[f] \in Ids /\ IdOf[f] \in expected
  BY <1>1, ClustersAssumption DEF LoadInv
<1>3. CASE readable /\ files[f] = "good"
  <2>1. registerCluster(IdOf[f])
    BY <1>3 DEF LoadFile
  <2>2. /\ Registered' = Registered \cup {IdOf[f]}
        /\ Listed' = IF ctxDone THEN Listed ELSE Listed \cup {IdOf[f]}
        /\ client' \in [Ids -> {"none", "client", "nil"}]
        /\ row' \in [Ids -> {"none", "live", "deleted"}]
        /\ UNCHANGED <<column, flag>>
    BY <1>2, <2>1, RegisterClusters
  <2>3. TypeOK'
    BY <1>1, <2>2 DEF TypeOK
  <2>4. LoadInv'
    BY <1>1, <1>2, <2>2 DEF LoadInv
  <2> QED BY <1>1, <2>2, <2>3, <2>4 DEF ListedIsDeclared
<1>4. CASE ~(readable /\ files[f] = "good")
  <2>1. /\ UNCHANGED <<row, column, client, flag>>
        /\ Registered' = Registered /\ Listed' = Listed
    BY <1>4 DEF LoadFile, table, memory, Registered, Listed
  <2>2. TypeOK'
    BY <1>1, <2>1 DEF TypeOK
  <2>3. LoadInv'
    BY <1>1, <2>1 DEF LoadInv
  <2> QED BY <1>1, <2>1, <2>2, <2>3 DEF ListedIsDeclared
<1> QED BY <1>3, <1>4

\* The fallback keeps exactly the cluster it registers.
LEMMA InClusterClusters == ASSUME ClustersInv, loadInCluster PROVE ClustersInv'
<1> USE DEF ClustersInv
<1>1. /\ pc = "local" /\ ~marked /\ Registered = {}
      /\ UNCHANGED <<files, readable, account, api, onDisk, marked, ctxDone,
                     starts, edits>>
  BY DEF loadInCluster, outside, counts, LoadInv
<1>2. CASE account = "good"
  <2>1. registerCluster(Local) /\ pc' = "mark" /\ expected' = {Local} /\ todo' = todo
    BY <1>2 DEF loadInCluster
  <2>2. /\ Registered' = Registered \cup {Local}
        /\ Listed' = IF ctxDone THEN Listed ELSE Listed \cup {Local}
        /\ client' \in [Ids -> {"none", "client", "nil"}]
        /\ row' \in [Ids -> {"none", "live", "deleted"}]
        /\ UNCHANGED <<column, flag>>
    BY <2>1, RegisterClusters, ClustersAssumption
  <2>3. TypeOK'
    BY <1>1, <2>1, <2>2, ClustersAssumption DEF TypeOK
  <2>4. LoadInv'
    BY <1>1, <2>1, <2>2 DEF LoadInv
  <2> QED BY <1>1, <2>2, <2>3, <2>4 DEF ListedIsDeclared
<1>3. CASE account # "good"
  <2>1. /\ pc' = "probe" /\ todo' = {}
        /\ UNCHANGED <<row, column, client, flag, expected>>
        /\ Registered' = Registered /\ Listed' = Listed
    BY <1>3 DEF loadInCluster, table, memory, Registered, Listed
  <2>2. TypeOK'
    BY <1>1, <2>1 DEF TypeOK
  <2>3. LoadInv'
    BY <1>1, <2>1 DEF LoadInv
  <2> QED BY <1>1, <2>1, <2>2, <2>3 DEF ListedIsDeclared
<1> QED BY <1>2, <1>3

\* Marking hides what Load does not keep, and so nothing it registered.
LEMMA MarkClusters == ASSUME ClustersInv, markRemovedClusters PROVE ClustersInv'
<1> USE DEF ClustersInv
<1>1. /\ pc = "mark" /\ pc' = "probe" /\ marked' = ~ctxDone /\ todo' = Registered
      /\ UNCHANGED <<files, readable, account, api, column, client, flag, expected,
                     onDisk, ctxDone, starts, edits>>
      /\ Registered' = Registered
  BY DEF markRemovedClusters, outside, memory, counts, Registered
<1>2. /\ row' \in [Ids -> {"none", "live", "deleted"}]
      /\ Listed \cap expected \subseteq Listed'
      /\ ~ctxDone /\ expected # {} => Listed' \subseteq expected
  BY DEF markRemovedClusters, MarkClustersDeletedExcept, Listed, TypeOK
<1>3. TypeOK'
  BY <1>1, <1>2 DEF TypeOK, Registered
<1>4. ctxDone \/ Registered' \subseteq Listed'
  BY <1>1, <1>2 DEF LoadInv
<1>5. LoadInv'
  BY <1>1, <1>4 DEF LoadInv
<1>6. ListedIsDeclared'
  BY <1>1, <1>2 DEF ListedIsDeclared, LoadInv
<1> QED BY <1>1, <1>3, <1>5, <1>6

\* A probe sets the flag of a registered client only, and may be overtaken by the
\* signal.
LEMMA ProbeClusters ==
  ASSUME ClustersInv, NEW c \in Ids, client[c] = "client", probe(c)
  PROVE  /\ row' = row /\ client' = client
         /\ column' \subseteq Ids /\ flag' \subseteq Registered
         /\ ctxDone' \in BOOLEAN /\ (ctxDone => ctxDone')
<1> USE DEF ClustersInv
<1>1. c \in Registered
  BY DEF Registered
<1> QED BY <1>1 DEF probe, SetClusterMetricsEnabled, table, memory, TypeOK, LoadInv

\* The first probe of a client, and every later one, keep ClustersInv.
LEMMA ProbingClusters ==
  ASSUME ClustersInv, NEW c \in Ids, StartProbe(c) \/ Reprobe(c) PROVE ClustersInv'
<1> USE DEF ClustersInv
<1>1. /\ client[c] = "client" /\ probe(c) /\ todo' \subseteq todo /\ pc \in {"probe", "up"}
      /\ UNCHANGED <<files, readable, account, api, pc, expected, onDisk, marked, starts, edits>>
  BY DEF StartProbe, Reprobe, outside, counts, load
<1>2. /\ row' = row /\ client' = client
      /\ column' \subseteq Ids /\ flag' \subseteq Registered
      /\ ctxDone' \in BOOLEAN /\ (ctxDone => ctxDone')
  BY <1>1, ProbeClusters
<1>3. Registered' = Registered /\ Listed' = Listed
  BY <1>2 DEF Registered, Listed
<1>4. TypeOK'
  BY <1>1, <1>2, <1>3 DEF TypeOK, Registered
<1>5. LoadInv'
  BY <1>1, <1>2, <1>3 DEF LoadInv
<1> QED BY <1>1, <1>2, <1>3, <1>4, <1>5 DEF ListedIsDeclared

\* A process that ends takes its registry with it and leaves the rows.
LEMMA ForgetClusters ==
  ASSUME ClustersInv, Forget, UNCHANGED <<outside, table, counts>>
  PROVE  ClustersInv'
<1> USE DEF ClustersInv
<1>1. UNCHANGED <<files, readable, account, api, row, column, starts, edits>>
  BY DEF outside, table, counts
<1>2. TypeOK'
  BY <1>1 DEF Forget, TypeOK
<1>3. Registered' = {}
  BY DEF Forget, Registered
<1>4. LoadInv'
  BY <1>3 DEF Forget, LoadInv
<1> QED BY <1>2, <1>4 DEF Forget, ListedIsDeclared

\* The remaining steps touch neither rows nor registry.
LEMMA OtherClusters ==
  ASSUME ClustersInv, FilesLoaded \/ Serve \/ Boot \/ Signal \/ Edit \/ UNCHANGED vars
  PROVE  ClustersInv'
<1> USE DEF ClustersInv
<1>1. UNCHANGED <<row, column, client, flag, expected, onDisk, marked, todo>>
  BY DEF FilesLoaded, Serve, Boot, Signal, Edit, vars, table, memory, load
<1>2. Registered' = Registered /\ Listed' = Listed
  BY <1>1 DEF Registered, Listed
<1>3. /\ pc' \in {"down", "start", "files", "local", "mark", "probe", "up"}
      /\ pc' = "files" => pc = "files"
      /\ pc' = "mark" => pc \in {"files", "mark"}
      /\ pc' = "local" => pc = "local"
      /\ pc' \in {"down", "start", "local"} => pc \in {"down", "start", "local"}
      /\ ctxDone' \in BOOLEAN /\ (ctxDone => ctxDone')
  BY DEF FilesLoaded, Serve, Boot, Signal, Edit, vars, load, TypeOK
<1>4. TypeOK'
  <2>1. starts' \in 0..MaxStarts /\ edits' \in 0..MaxEdits
    BY ClustersAssumption DEF FilesLoaded, Serve, Boot, Signal, Edit, vars, counts, TypeOK
  <2>2. files' \in [Files -> Kinds] /\ readable' \in BOOLEAN /\ account' \in Kinds
        /\ api' \subseteq Ids
    BY DEF FilesLoaded, Serve, Boot, Signal, Edit, vars, outside, TypeOK
  <2> QED BY <1>1, <1>3, <2>1, <2>2 DEF TypeOK
<1>5. LoadInv'
  BY <1>1, <1>2, <1>3 DEF LoadInv
<1> QED BY <1>1, <1>2, <1>4, <1>5 DEF ListedIsDeclared

\* ClustersInv is an invariant over any number of starts.
THEOREM ClustersInvariant == Spec => []ClustersInv
<1>1. ClustersInv /\ [Next]_vars => ClustersInv'
  <2> SUFFICES ASSUME ClustersInv, [Next]_vars PROVE ClustersInv'
    OBVIOUS
  <2>1. CASE ReadDir \/ loadInCluster \/ markRemovedClusters
    BY <2>1, ReadDirClusters, InClusterClusters, MarkClusters
  <2>2. ASSUME NEW f \in Files, LoadFile(f) PROVE ClustersInv'
    BY <2>2, LoadFileClusters
  <2>3. ASSUME NEW c \in Ids, StartProbe(c) \/ Reprobe(c) PROVE ClustersInv'
    BY <2>3, ProbingClusters
  <2>4. ASSUME NEW c \in Ids, Panic(c) PROVE ClustersInv'
    BY <2>4, ForgetClusters DEF Panic
  <2>5. CASE Exit
    BY <2>5, ForgetClusters DEF Exit, ClustersInv, TypeOK
  <2>6. CASE FilesLoaded \/ Serve \/ Boot \/ Signal \/ Edit \/ UNCHANGED vars
    BY <2>6, OtherClusters
  <2> QED BY <2>1, <2>2, <2>3, <2>4, <2>5, <2>6 DEF Next, Startup
<1> QED BY <1>1, InitClusters, PTL DEF Spec

\* Once Load has marked the removed clusters, the pages list only what this
\* start declared.
THEOREM OnlyDeclaredAreListed == Spec => []ListedIsDeclared
BY ClustersInvariant, PTL DEF ClustersInv

\* Load never hides a cluster it registered, and a returning one is revived.
THEOREM RegisteredAreListed == Spec => []RegisteredIsListed
<1>1. ClustersInv => RegisteredIsListed
  BY DEF ClustersInv, LoadInv, RegisteredIsListed
<1> QED BY <1>1, ClustersInvariant, PTL

\* A cluster is hidden only by a start that did not find a file of it in the
\* directory, however broken the file: nothing but markRemovedClusters hides a
\* cluster, and what it keeps includes every id of the listing.
THEOREM BrokenAreKept == Spec => BrokenIsKept
<1> DEFINE Kept == \A c \in Ids : row[c] = "live" /\ row'[c] = "deleted" => c \notin onDisk
<1>1. ClustersInv /\ [Next]_vars => Kept
  <2> SUFFICES ASSUME ClustersInv, [Next]_vars, NEW c \in Ids,
                      row[c] = "live", row'[c] = "deleted"
               PROVE  c \notin onDisk
    OBVIOUS
  <2>1. CASE markRemovedClusters
    <3>1. c \notin expected
      BY <2>1 DEF markRemovedClusters, MarkClustersDeletedExcept
    <3>2. onDisk \subseteq expected
      BY <2>1 DEF markRemovedClusters, ClustersInv, LoadInv
    <3> QED BY <3>1, <3>2
  <2>2. ASSUME NEW d \in Ids, registerCluster(d) PROVE FALSE
    BY <2>2 DEF registerCluster, UpsertCluster, ClustersInv, TypeOK
  <2>3. ASSUME NEW f \in Files, LoadFile(f) PROVE FALSE
    <3>1. IdOf[f] \in Ids
      BY ClustersAssumption
    <3> QED BY <2>2, <2>3, <3>1 DEF LoadFile, table
  <2>4. CASE loadInCluster
    BY <2>2, <2>4, ClustersAssumption DEF loadInCluster, table
  <2>5. ASSUME NEW d \in Ids, StartProbe(d) \/ Reprobe(d) PROVE FALSE
    BY <2>5 DEF StartProbe, Reprobe, probe, table
  <2>6. CASE (\E d \in Ids : Panic(d)) \/ Exit
    BY <2>6 DEF Panic, Exit, table
  <2>7. CASE ReadDir \/ FilesLoaded \/ Serve \/ Boot \/ Signal \/ Edit \/ UNCHANGED vars
    BY <2>7 DEF ReadDir, FilesLoaded, Serve, Boot, Signal, Edit, vars, table
  <2> QED BY <2>1, <2>3, <2>4, <2>5, <2>6, <2>7 DEF Next, Startup
<1> QED BY <1>1, ClustersInvariant, PTL DEF Spec, BrokenIsKept
=============================================================================
