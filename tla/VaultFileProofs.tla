--------------------------- MODULE VaultFileProofs ---------------------------
(***************************************************************************)
(* The vault file, for every set of messages and importers: what a load    *)
(* reads between other processes' commits, and what an erasure leaves.     *)
(***************************************************************************)
EXTENDS VaultFile, TLAPS

LEMMA Appended ==
  ASSUME NEW S, NEW q \in Seq(S), NEW e \in S
  PROVE  /\ Append(q, e) \in Seq(S) /\ Len(q) \in Nat /\ Len(Append(q, e)) = Len(q) + 1
         /\ \A s \in 1 .. Len(q) : Append(q, e)[s] = q[s]
         /\ Append(q, e)[Len(q) + 1] = e
         /\ DOMAIN q = 1 .. Len(q) /\ DOMAIN Append(q, e) = 1 .. (Len(q) + 1)
OBVIOUS

LEMMA OneMore == \A n \in Nat : n + 1 \in Nat /\ n <= n + 1
OBVIOUS

LEMMA EmptyIsSeq == \A S : <<>> \in Seq(S)
OBVIOUS

LEMMA ViewIsContent ==
  ASSUME main \in Content, wal \in Seq(Content)
  PROVE  /\ Len(wal) \in Nat
         /\ \A s \in 0 .. Len(wal) : View(s) \in Content
         /\ Latest \in Content
<1>1. Len(wal) \in Nat /\ \A s \in 1 .. Len(wal) : wal[s] \in Content
  OBVIOUS
<1>2. \A s \in 0 .. Len(wal) : s = 0 \/ s \in 1 .. Len(wal)
  BY <1>1
<1>3. \A s \in 0 .. Len(wal) : View(s) \in Content
  BY <1>1, <1>2 DEF View
<1>. QED BY <1>1, <1>3 DEF Latest

(* A commit adds a state to the log and leaves the earlier ones alone.     *)
LEMMA CommitView ==
  ASSUME wal \in Seq(Content), NEW content \in Content, CommitAs(content), main' = main
  PROVE  /\ wal' \in Seq(Content) /\ Len(wal') = Len(wal) + 1 /\ Len(wal) \in Nat
         /\ \A s \in 0 .. Len(wal) : View(s)' = View(s)
         /\ Latest' = content
         /\ \A s \in 0 .. Len(wal)' : s \in 0 .. Len(wal) \/ View(s)' = content
<1>1. /\ wal' \in Seq(Content) /\ Len(wal') = Len(wal) + 1 /\ Len(wal) \in Nat
      /\ \A s \in 1 .. Len(wal) : wal'[s] = wal[s]
      /\ wal'[Len(wal) + 1] = content
      /\ DOMAIN wal = 1 .. Len(wal) /\ DOMAIN wal' = 1 .. (Len(wal) + 1)
  BY Appended DEF CommitAs
<1>2. ASSUME NEW s \in 0 .. Len(wal) PROVE View(s)' = View(s)
  <2>1. s = 0 \/ (s # 0 /\ s \in 1 .. Len(wal))
    BY <1>1
  <2>. QED BY <1>1, <2>1 DEF View
<1>4. Latest' = content
  <2>1. Len(wal') # 0
    BY <1>1
  <2>. QED BY <1>1, <2>1 DEF View, Latest
<1>5. \A s \in 0 .. Len(wal)' : s \in 0 .. Len(wal) \/ View(s)' = content
  <2> SUFFICES ASSUME NEW s \in 0 .. Len(wal)', s \notin 0 .. Len(wal) PROVE View(s)' = content
    OBVIOUS
  <2>1. s = Len(wal) + 1 /\ s # 0
    BY <1>1
  <2>. QED BY <1>1, <2>1 DEF View
<1>. QED BY <1>1, <1>2, <1>4, <1>5

-----------------------------------------------------------------------------
LEMMA TypeInit == Init => TypeOK
BY DEF Init, TypeOK, Outside, NoHandler, Content, Unpinned

LEMMA ImportType ==
  ASSUME TypeOK, SnapshotsInLog, NEW w \in Importers, Import(w)
  PROVE  TypeOK'
<1>1. Len(wal) \in Nat /\ Latest \in Content
  BY ViewIsContent DEF TypeOK
<1>8. \A s \in 0 .. Len(wal) : View(s).rows \subseteq Messages
  BY ViewIsContent DEF TypeOK, Content
<1>2. CASE Start(w)
  BY <1>2 DEF Start, Move, TypeOK
<1>3. CASE BeginWrite(w)
  <2>1. PICK at \in {"put", "replace"} : Begin(w, at)
    BY <1>3 DEF BeginWrite
  <2>2. \/ importer' = [importer EXCEPT ![w].at = "put", ![w].snap = Len(wal)]
        \/ importer' = [importer EXCEPT ![w].at = "replace", ![w].snap = Len(wal)]
    BY <2>1 DEF Begin
  <2>3. lock' = w /\ UNCHANGED <<main, wal, server>>
    BY <1>3 DEF BeginWrite
  <2>4. CASE importer' = [importer EXCEPT ![w].at = "put", ![w].snap = Len(wal)]
    BY <1>1, <2>3, <2>4 DEF TypeOK
  <2>5. CASE importer' = [importer EXCEPT ![w].at = "replace", ![w].snap = Len(wal)]
    BY <1>1, <2>3, <2>5 DEF TypeOK
  <2>. QED BY <2>2, <2>4, <2>5
<1>4. CASE BeginRead(w)
  BY <1>1, <1>4 DEF BeginRead, Begin, TypeOK
<1>5. CASE Stop(w)
  BY <1>5 DEF Stop, Leave, Outside, TypeOK
<1>6. ASSUME NEW m \in Messages, CommitBatch(w, m) PROVE TypeOK'
  <2>1. [Latest EXCEPT !.rows = @ \cup {m}] \in Content
    BY <1>1 DEF Content
  <2>. QED BY <1>6, <2>1, CommitView DEF CommitBatch, Move, TypeOK
<1>7. CASE CommitMap(w)
  <2>1. [Latest EXCEPT !.map = importer[w].items] \in Content
    BY <1>1 DEF Content, TypeOK
  <2>. QED BY <1>7, <2>1, CommitView DEF CommitMap, Leave, Outside, TypeOK
<1>9. CASE EndRead(w)
  <2>1. View(importer[w].snap).rows \in SUBSET Messages
    BY <1>8, <1>9 DEF EndRead, SnapshotsInLog, Snapshots, InTransaction
  <2>. QED BY <1>9, <2>1 DEF EndRead, TypeOK
<1>. QED BY <1>2, <1>3, <1>4, <1>5, <1>6, <1>7, <1>9 DEF Import

LEMMA HandleType ==
  ASSUME TypeOK, SnapshotsInLog, Handle \/ AutoCheckpoint
  PROVE  TypeOK'
<1>1. Len(wal) \in Nat /\ Latest \in Content /\ \A s \in 0 .. Len(wal) : View(s) \in Content
  BY ViewIsContent DEF TypeOK
<1>2. CASE Load \/ Reset
  <2>1. PICK at \in {"load", "erase"} : server' = [NoHandler EXCEPT !.at = at]
    BY <1>2 DEF Load, Reset
  <2>2. UNCHANGED <<main, wal, lock, importer>>
    BY <1>2 DEF Load, Reset
  <2>3. server' = [at |-> at, got |-> <<>>, pin |-> Unpinned, counted |-> {}, blockers |-> {}]
    BY <2>1 DEF NoHandler
  <2>. QED BY <2>2, <2>3, EmptyIsSeq DEF TypeOK
<1>3. CASE Select
  <2> DEFINE s == IF server.pin = Unpinned THEN Len(wal) ELSE server.pin
  <2>1. s \in Nat /\ View(s).map \in SUBSET Messages
    BY <1>1 DEF SnapshotsInLog, Snapshots, TypeOK, Content
  <2>2. Append(server.got, View(s).map) \in Seq(SUBSET Messages)
    BY <2>1, Appended DEF TypeOK
  <2>3. PICK pin \in {s, server.pin} :
          server' = [server EXCEPT !.got = Append(server.got, View(s).map), !.pin = pin]
    BY <1>3 DEF Select
  <2>. QED BY <1>3, <2>1, <2>2, <2>3 DEF Select, TypeOK
<1>4. CASE Count
  BY <1>1, <1>4 DEF Count, TypeOK, Content
<1>5. CASE Erase
  <2>1. Nothing \in Content
    BY DEF Nothing, Content
  <2>. QED BY <1>5, <2>1, CommitView DEF Erase, Reach, TypeOK
<1>6. CASE Checkpoint
  <2>1. main' \in Content
    BY <1>1, <1>6 DEF Checkpoint, CopyBack, SnapshotsInLog
  <2>2. wal' \in Seq(Content)
    BY <1>6, EmptyIsSeq DEF Checkpoint, TypeOK
  <2>3. server' = [server EXCEPT !.at = AfterCheckpoint, !.blockers = Blockers]
    BY <1>6 DEF Checkpoint
  <2>. QED BY <1>6, <2>1, <2>2, <2>3 DEF Checkpoint, AfterCheckpoint, Blockers, TypeOK
<1>7. CASE Vacuum
  BY <1>1, <1>7, CommitView DEF Vacuum, Reach, TypeOK
<1>8. CASE ResetFails
  BY <1>8, EmptyIsSeq DEF ResetFails, NoHandler, TypeOK
<1>9. CASE AutoCheckpoint
  <2>1. main' \in Content
    BY <1>1, <1>9 DEF AutoCheckpoint, CopyBack, SnapshotsInLog
  <2>. QED BY <1>9, <2>1 DEF AutoCheckpoint, TypeOK
<1>. QED BY <1>2, <1>3, <1>4, <1>5, <1>6, <1>7, <1>8, <1>9 DEF Handle

LEMMA TypeStep == TypeOK /\ SnapshotsInLog /\ [Next]_vars => TypeOK'
<1>1. ASSUME TypeOK, UNCHANGED vars PROVE TypeOK'
  BY <1>1 DEF TypeOK, vars
<1>. QED BY <1>1, ImportType, HandleType DEF Next

-----------------------------------------------------------------------------
LEMMA VaultInit == Init => VaultInvariant
<1> SUFFICES ASSUME Init PROVE VaultInvariant
  OBVIOUS
<1>1. Len(wal) = 0 /\ \A s \in 0 .. Len(wal) : s = 0
  BY DEF Init
<1>2. CommitsClosed
  BY <1>1 DEF Init, CommitsClosed, View
<1>3. SnapshotsInLog
  BY <1>1 DEF Init, SnapshotsInLog, Snapshots, InTransaction, Outside, NoHandler
<1>. QED BY <1>2, <1>3 DEF Init, NoHandler, VaultInvariant, ErasesUndisturbed, LoadSound,
            LoadIsOneMap, SummaryCoversMap, ErasureReachesDisk

(* Snapshots stay in a log that only grows.                                *)
LEMMA SnapshotsStay ==
  ASSUME SnapshotsInLog, Len(wal) \in Nat, Len(wal') \in Nat, Len(wal) <= Len(wal'),
         server'.pin \in {Unpinned, server.pin, Len(wal)},
         \A x \in Importers :
           InTransaction(x)' => \/ importer'[x].snap = Len(wal)
                                \/ InTransaction(x) /\ importer'[x].snap = importer[x].snap
  PROVE  SnapshotsInLog'
<1> SUFFICES ASSUME NEW s \in Snapshots' PROVE s \in 0 .. Len(wal')
  BY DEF SnapshotsInLog
<1>1. \A k \in 0 .. Len(wal) : k \in 0 .. Len(wal')
  OBVIOUS
<1>2. Len(wal) \in 0 .. Len(wal') /\ Len(wal') \in 0 .. Len(wal')
  OBVIOUS
<1>3. CASE s \in {server'.pin} \ {Unpinned}
  BY <1>1, <1>2, <1>3 DEF SnapshotsInLog, Snapshots
<1>4. CASE s = Len(wal')
  BY <1>2, <1>4
<1>5. ASSUME NEW x \in Importers, InTransaction(x)', s = importer'[x].snap
      PROVE  s \in 0 .. Len(wal')
  BY <1>1, <1>2, <1>5 DEF SnapshotsInLog, Snapshots
<1>. QED BY <1>3, <1>4, <1>5 DEF Snapshots

(* Another commit, in which no row is missing, disturbs neither a load nor *)
(* an erasure that was answered.                                           *)
LEMMA CommitKeeps ==
  ASSUME TypeOK, VaultInvariant, NEW content \in Content, CommitAs(content),
         UNCHANGED <<main, server>>,
         content.map \subseteq content.rows, Latest.rows \subseteq content.rows
  PROVE  /\ CommitsClosed' /\ LoadSound' /\ LoadIsOneMap' /\ SummaryCoversMap'
         /\ ErasureReachesDisk'
<1>1. /\ \A s \in 0 .. Len(wal) : View(s)' = View(s)
      /\ Latest' = content /\ Len(wal) \in Nat
      /\ \A s \in 0 .. Len(wal)' : s \in 0 .. Len(wal) \/ View(s)' = content
  BY CommitView DEF TypeOK
<1>2. CommitsClosed'
  BY <1>1 DEF VaultInvariant, CommitsClosed
<1>3. LoadSound'
  <2>1. server.pin # Unpinned => server.pin \in 0 .. Len(wal)
    BY DEF VaultInvariant, SnapshotsInLog, Snapshots
  <2>2. server.pin # Unpinned => View(server.pin)' = View(server.pin)
    BY <1>1, <2>1
  <2>. QED BY <1>1, <2>2 DEF VaultInvariant, LoadSound
<1>4. ErasureReachesDisk'
  BY <1>1 DEF VaultInvariant, ErasureReachesDisk
<1>. QED BY <1>2, <1>3, <1>4 DEF VaultInvariant, LoadIsOneMap, SummaryCoversMap

LEMMA ImportStep ==
  ASSUME TypeOK, VaultInvariant, NEW w \in Importers, Import(w)
  PROVE  VaultInvariant'
<1>1. Len(wal) \in Nat /\ Latest \in Content /\ Latest.map \subseteq Latest.rows
  <2>1. Len(wal) \in Nat /\ Latest \in Content
    BY ViewIsContent DEF TypeOK
  <2>. QED BY <2>1 DEF VaultInvariant, CommitsClosed, Latest
<1>2. UNCHANGED server /\ UNCHANGED main
  BY DEF Import, Start, BeginWrite, BeginRead, EndRead, CommitBatch, CommitMap, Stop
<1>3. ErasesUndisturbed'
  <2>1. \A s \in Supervised :
          importer'[s].at # "idle" => importer[s].at # "idle" \/ (s = w /\ Start(w))
    BY ImportersAssumption DEF Import, Start, BeginWrite, BeginRead, EndRead, CommitBatch,
       CommitMap, Stop, Move, Begin, Leave, Outside, TypeOK
  <2>2. Start(w) /\ w \in Supervised => Free
    BY DEF Start
  <2>. QED BY <1>2, <2>1, <2>2 DEF VaultInvariant, ErasesUndisturbed, Free
<1>4. CASE Start(w) \/ BeginWrite(w) \/ BeginRead(w) \/ EndRead(w) \/ Stop(w)
  <2>1. UNCHANGED wal
    BY <1>4 DEF Start, BeginWrite, BeginRead, EndRead, Stop
  <2>2. \A x \in Importers :
          InTransaction(x)' => \/ importer'[x].snap = Len(wal)
                               \/ InTransaction(x) /\ importer'[x].snap = importer[x].snap
    <3>1. \A x \in Importers : x = w \/ importer'[x] = importer[x]
      BY <1>4 DEF Start, BeginWrite, BeginRead, EndRead, Stop, Move, Begin, Leave, TypeOK
    <3>2. BeginWrite(w) \/ BeginRead(w) => importer'[w].snap = Len(wal)
      BY DEF BeginWrite, BeginRead, Begin, TypeOK
    <3>3. Start(w) \/ EndRead(w) \/ Stop(w) =>
            importer'[w].at \notin {"put", "read", "replace"}
      <4>1. Start(w) => importer'[w].at = "batch"
        BY DEF Start, Move, TypeOK
      <4>. DOMAIN importer = Importers
        BY DEF TypeOK
      <4>2. EndRead(w) => importer'[w].at = "build"
        BY DEF EndRead
      <4>3. Stop(w) => importer'[w].at = "idle"
        BY DEF Stop, Leave, Outside
      <4>. QED BY <4>1, <4>2, <4>3
    <3>. QED BY <1>4, <3>1, <3>2, <3>3 DEF InTransaction
  <2>3. SnapshotsInLog'
    BY <1>1, <1>2, <2>1, <2>2, SnapshotsStay DEF VaultInvariant
  <2>. QED BY <1>2, <1>3, <2>1, <2>3
           DEF VaultInvariant, CommitsClosed, View, Latest, LoadSound, LoadIsOneMap,
               SummaryCoversMap, ErasureReachesDisk
<1>5. ASSUME NEW m \in Messages, CommitBatch(w, m) PROVE VaultInvariant'
  <2> DEFINE content == [Latest EXCEPT !.rows = @ \cup {m}]
  <2>1. content \in Content /\ content.map \subseteq content.rows /\ Latest.rows \subseteq content.rows
    BY <1>1 DEF Content
  <2>2. CommitAs(content)
    BY <1>5 DEF CommitBatch
  <2>3. Len(wal') = Len(wal) + 1
    BY <1>2, <2>1, <2>2, CommitView DEF TypeOK
  <2>4. \A x \in Importers :
          InTransaction(x)' => InTransaction(x) /\ importer'[x].snap = importer[x].snap
    BY <1>5 DEF CommitBatch, Move, InTransaction, TypeOK
  <2>5. SnapshotsInLog'
    BY <1>1, <1>2, <2>3, <2>4, SnapshotsStay DEF VaultInvariant
  <2>6. /\ CommitsClosed' /\ LoadSound' /\ LoadIsOneMap' /\ SummaryCoversMap'
        /\ ErasureReachesDisk'
    BY <1>2, <2>1, <2>2, CommitKeeps
  <2>. QED BY <1>3, <2>5, <2>6 DEF VaultInvariant
<1>6. CASE CommitMap(w)
  <2> DEFINE content == [Latest EXCEPT !.map = importer[w].items]
  <2>1. content \in Content /\ content.map \subseteq content.rows /\ Latest.rows \subseteq content.rows
    BY <1>1, <1>6 DEF Content, CommitMap, TypeOK
  <2>2. CommitAs(content)
    BY <1>6 DEF CommitMap
  <2>3. Len(wal') = Len(wal) + 1
    BY <1>2, <2>1, <2>2, CommitView DEF TypeOK
  <2>4. \A x \in Importers :
          InTransaction(x)' => InTransaction(x) /\ importer'[x].snap = importer[x].snap
    BY <1>6 DEF CommitMap, Leave, Outside, InTransaction, TypeOK
  <2>5. SnapshotsInLog'
    BY <1>1, <1>2, <2>3, <2>4, SnapshotsStay DEF VaultInvariant
  <2>6. /\ CommitsClosed' /\ LoadSound' /\ LoadIsOneMap' /\ SummaryCoversMap'
        /\ ErasureReachesDisk'
    BY <1>2, <2>1, <2>2, CommitKeeps
  <2>. QED BY <1>3, <2>5, <2>6 DEF VaultInvariant
<1>. QED BY <1>4, <1>5, <1>6 DEF Import

-----------------------------------------------------------------------------
(* What a checkpoint writes into the database file is a commit no snapshot *)
(* in use can tell from it.                                                *)
LEMMA CopyKeepsViews ==
  ASSUME TypeOK, VaultInvariant, CopyBack, wal' = wal
  PROVE  /\ main' \in Content /\ main'.map \subseteq main'.rows
         /\ \E s \in 0 .. Len(wal) : main' = View(s)
         /\ Latest' = Latest /\ CommitsClosed'
         /\ \A t \in Snapshots : View(t)' = View(t)
<1>1. /\ Len(wal) \in Nat /\ Len(wal) \in Snapshots
      /\ \A s \in 0 .. Len(wal) : View(s) \in Content
  BY ViewIsContent DEF TypeOK, Snapshots
<1>2. PICK s \in Snapshots : (\A t \in Snapshots : s <= t) /\ main' = View(s)
  BY DEF CopyBack
<1>3. s \in 0 .. Len(wal)
  BY DEF VaultInvariant, SnapshotsInLog
<1>4. \A t \in Snapshots : View(t)' = View(t)
  <2> SUFFICES ASSUME NEW t \in Snapshots PROVE View(t)' = View(t)
    OBVIOUS
  <2>1. CASE t = 0
    <3>1. s = 0
      BY <1>2, <1>3, <2>1
    <3>. QED BY <1>2, <2>1, <3>1 DEF View
  <2>2. CASE t # 0
    BY <2>2 DEF View
  <2>. QED BY <2>1, <2>2
<1>5. Latest' = Latest
  <2>1. CASE Len(wal) = 0
    BY <1>1, <1>4, <2>1 DEF Latest, View
  <2>2. CASE Len(wal) # 0
    BY <2>2 DEF Latest, View
  <2>. QED BY <2>1, <2>2
<1>6. CommitsClosed'
  <2>1. main'.map \subseteq main'.rows
    BY <1>2, <1>3 DEF VaultInvariant, CommitsClosed
  <2>2. \A k \in 0 .. Len(wal) : k # 0 => View(k)' = View(k)
    BY DEF View
  <2>3. View(0)' = main'
    BY DEF View
  <2>. QED BY <2>1, <2>2, <2>3 DEF VaultInvariant, CommitsClosed
<1>8. main' \in Content /\ main'.map \subseteq main'.rows
  BY <1>1, <1>2, <1>3 DEF VaultInvariant, CommitsClosed
<1>. QED BY <1>2, <1>3, <1>4, <1>5, <1>6, <1>8

LEMMA AutoCheckpointStep ==
  ASSUME TypeOK, VaultInvariant, AutoCheckpoint
  PROVE  VaultInvariant'
<1>1. CopyBack /\ UNCHANGED <<wal, lock, importer, server>>
  BY DEF AutoCheckpoint
<1>2. /\ \E s \in 0 .. Len(wal) : main' = View(s)
      /\ Latest' = Latest /\ CommitsClosed'
      /\ \A t \in Snapshots : View(t)' = View(t)
  BY <1>1, CopyKeepsViews
<1>3. SnapshotsInLog'
  BY <1>1 DEF VaultInvariant, SnapshotsInLog, Snapshots, InTransaction
<1>4. LoadSound'
  <2>1. server.pin # Unpinned => View(server.pin)' = View(server.pin)
    BY <1>1, <1>2 DEF Snapshots
  <2>. QED BY <1>1, <1>2, <2>1 DEF VaultInvariant, LoadSound
<1>5. ErasureReachesDisk'
  <2>1. \A k \in 0 .. Len(wal) : \E s \in 0 .. Len(wal) : View(k)' = View(s)
    BY <1>1, <1>2 DEF View
  <2>. QED BY <1>1, <1>2, <2>1 DEF VaultInvariant, ErasureReachesDisk
<1>. QED BY <1>1, <1>2, <1>3, <1>4, <1>5
         DEF VaultInvariant, ErasesUndisturbed, LoadIsOneMap, SummaryCoversMap

LEMMA LoadStep ==
  ASSUME TypeOK, VaultInvariant, Load \/ Select \/ Count
  PROVE  VaultInvariant'
<1>1. UNCHANGED <<main, wal, lock, importer>>
  BY DEF Load, Select, Count
<1>2. Len(wal) \in Nat /\ Latest.map \subseteq Latest.rows
  <2>1. Len(wal) \in Nat
    BY ViewIsContent DEF TypeOK
  <2>. QED BY <2>1 DEF VaultInvariant, CommitsClosed, Latest
<1>3. SnapshotsInLog'
  <2>1. server'.pin \in {Unpinned, server.pin, Len(wal)}
    BY DEF Load, Select, Count, NoHandler, TypeOK
  <2>. QED BY <1>1, <1>2, <2>1, SnapshotsStay DEF VaultInvariant, InTransaction
<1>4. CommitsClosed'
  BY <1>1 DEF VaultInvariant, CommitsClosed, View
<1>5. CASE Load
  <2>1. server'.at = "load" /\ server'.got = <<>> /\ server'.pin = Unpinned
    BY <1>5 DEF Load, NoHandler
  <2>2. Len(<<>>) = 0 /\ DOMAIN <<>> = {}
    OBVIOUS
  <2>3. LoadSound'
    BY <2>1, <2>2 DEF LoadSound
  <2>. QED BY <1>1, <1>3, <1>4, <2>1, <2>3 DEF VaultInvariant, ErasesUndisturbed,
           LoadIsOneMap, SummaryCoversMap, ErasureReachesDisk
<1>6. CASE Select
  <2> DEFINE s == IF server.pin = Unpinned THEN Len(wal) ELSE server.pin
             n == Len(server.got)
             got == Append(server.got, View(s).map)
  <2>1. /\ server.at = "load" /\ n \in Nat /\ n < 4
        /\ server'.at = "load" /\ server'.got = got
        /\ server'.pin = IF n < 2 /\ View(s).map # {} THEN s ELSE server.pin
    <3>1. server.at = "load" /\ n < 4 /\ n \in Nat
      BY <1>6, Appended DEF Select, TypeOK
    <3>2. server' = [server EXCEPT !.got = got,
                       !.pin = IF n < 2 /\ View(s).map # {} THEN s ELSE server.pin]
      BY <1>6 DEF Select
    <3>3. server' = [at |-> server.at, got |-> got,
                     pin |-> IF n < 2 /\ View(s).map # {} THEN s ELSE server.pin,
                     counted |-> server.counted, blockers |-> server.blockers]
      BY <3>2 DEF TypeOK
    <3>. QED BY <3>1, <3>3
  <2>2. View(s).map \in SUBSET Messages /\ s \in Nat
    BY <1>2, ViewIsContent DEF TypeOK, VaultInvariant, SnapshotsInLog, Snapshots, Content
  <2>3. /\ Len(got) = n + 1 /\ DOMAIN server.got = 1 .. n /\ DOMAIN got = 1 .. (n + 1)
        /\ \A k \in 1 .. n : got[k] = server.got[k]
        /\ got[n + 1] = View(s).map
    <3>1. server.got \in Seq(SUBSET Messages)
      BY DEF TypeOK
    <3>. QED BY <2>2, <3>1, Appended
  <2>4. View(s).map \subseteq Latest.rows
    BY <1>2, <2>1 DEF VaultInvariant, LoadSound, Latest
  <2>5. \A k \in DOMAIN got : got[k] \subseteq Latest.rows
    BY <2>1, <2>3, <2>4 DEF VaultInvariant, LoadSound
  <2>6. server'.pin # Unpinned => View(server'.pin).map \subseteq Latest.rows
    BY <2>1, <2>4 DEF VaultInvariant, LoadSound
  <2>7. ASSUME got[1] # {}
        PROVE  /\ server'.pin # Unpinned
               /\ \A k \in DOMAIN got : got[k] = got[1]
               /\ got[1] = View(server'.pin).map
    <3>1. CASE n = 0
      <4>1. \A k \in DOMAIN got : k = 1
        BY <2>3, <3>1
      <4>2. View(s).map # {}
        BY <2>3, <2>7, <3>1
      <4>3. server'.pin = s
        BY <2>1, <3>1, <4>2
      <4>4. s # Unpinned
        BY <2>2 DEF Unpinned
      <4>. QED BY <2>3, <3>1, <4>1, <4>3, <4>4
    <3>2. CASE n >= 1
      <4>1. server.got[1] # {} /\ got[1] = server.got[1]
        BY <2>1, <2>3, <2>7, <3>2
      <4>2. /\ server.pin # Unpinned /\ s = server.pin
            /\ \A k \in 1 .. n : server.got[k] = server.got[1]
            /\ server.got[1] = View(server.pin).map
        BY <2>1, <2>3, <3>2, <4>1 DEF VaultInvariant, LoadSound
      <4>3. server'.pin = s
        BY <2>1, <4>2
      <4>4. \A k \in DOMAIN got : k \in 1 .. n \/ k = n + 1
        BY <2>1, <2>3
      <4>. QED BY <2>3, <4>1, <4>2, <4>3, <4>4
    <3>. QED BY <2>1, <3>1, <3>2
  <2>8. LoadSound'
    <3>1. Latest' = Latest /\ \A k : View(k)' = View(k)
      BY <1>1 DEF Latest, View
    <3>. QED BY <2>1, <2>3, <2>5, <2>6, <2>7, <3>1 DEF LoadSound
  <2>. QED BY <1>1, <1>3, <1>4, <2>1, <2>8 DEF VaultInvariant, ErasesUndisturbed,
           LoadIsOneMap, SummaryCoversMap, ErasureReachesDisk
<1>7. CASE Count
  <2>1. /\ server.at = "load" /\ Len(server.got) = 4 /\ DOMAIN server.got = 1 .. 4
        /\ server'.at = "loaded" /\ server'.got = server.got
        /\ server'.pin = Unpinned /\ server'.counted = Latest.rows
    <3>1. server.got \in Seq(SUBSET Messages)
      BY DEF TypeOK
    <3>2. Len(server.got) = 4 => DOMAIN server.got = 1 .. 4
      BY <3>1
    <3>3. server' = [at |-> "loaded", got |-> server.got, pin |-> Unpinned,
                     counted |-> Latest.rows, blockers |-> server.blockers]
      BY <1>7 DEF Count, TypeOK
    <3>. QED BY <1>7, <3>2, <3>3 DEF Count
  <2>2. LoadIsOneMap' /\ SummaryCoversMap' /\ LoadSound'
    BY <2>1 DEF VaultInvariant, LoadSound, LoadIsOneMap, SummaryCoversMap
  <2>. QED BY <1>1, <1>3, <1>4, <2>1, <2>2 DEF VaultInvariant, ErasesUndisturbed,
           ErasureReachesDisk
<1>. QED BY <1>5, <1>6, <1>7

LEMMA ResetStep ==
  ASSUME TypeOK, VaultInvariant, Reset \/ Erase \/ Checkpoint \/ Vacuum \/ ResetFails
  PROVE  VaultInvariant'
<1>1. Len(wal) \in Nat /\ Latest \in Content
  BY ViewIsContent DEF TypeOK
<1>2. importer' = importer
  BY DEF Reset, Erase, Checkpoint, Vacuum, ResetFails
<1>3. server'.pin = server.pin \/ server'.pin = Unpinned
  <2>1. CASE Reset \/ ResetFails
    BY <2>1 DEF Reset, ResetFails, NoHandler
  <2>2. CASE Erase \/ Vacuum
    BY <2>2 DEF Erase, Vacuum, Reach, TypeOK
  <2>3. CASE Checkpoint
    BY <2>3 DEF Checkpoint, TypeOK
  <2>. QED BY <2>1, <2>2, <2>3
<1>9. \A x \in Importers :
        InTransaction(x)' => InTransaction(x) /\ importer'[x].snap = importer[x].snap
  BY <1>2 DEF InTransaction
<1>4. ASSUME NEW at \in {"checkpoint", "last checkpoint"}, NEW content \in Content,
             UNCHANGED main, CommitAs(content), server' = [server EXCEPT !.at = at],
             content.map \subseteq content.rows,
             server.at \in {"erase", "vacuum"}
      PROVE  VaultInvariant'
  <2>1. /\ \A s \in 0 .. Len(wal) : View(s)' = View(s)
        /\ \A s \in 0 .. Len(wal)' : s \in 0 .. Len(wal) \/ View(s)' = content
        /\ Len(wal') = Len(wal) + 1
    BY <1>4, CommitView DEF TypeOK
  <2>2. server'.at = at /\ server'.pin = server.pin
    BY <1>4 DEF TypeOK
  <2>3. CommitsClosed'
    BY <1>4, <2>1 DEF VaultInvariant, CommitsClosed
  <2>4. SnapshotsInLog'
    <3>1. Len(wal') \in Nat /\ Len(wal) <= Len(wal')
      <4>1. Len(wal) \in Nat /\ Len(wal') = Len(wal) + 1
        BY <1>1, <2>1
      <4>. QED BY <4>1, OneMore
    <3>. QED BY <1>1, <1>9, <2>2, <3>1, SnapshotsStay DEF VaultInvariant
  <2>. QED BY <1>2, <1>4, <2>2, <2>3, <2>4 DEF VaultInvariant, ErasesUndisturbed, LoadSound,
           LoadIsOneMap, SummaryCoversMap, ErasureReachesDisk
<1>5. CASE Erase
  <2>1. Nothing \in Content /\ Nothing.map \subseteq Nothing.rows
    BY DEF Nothing, Content
  <2>. QED BY <1>4, <1>5, <2>1 DEF Erase, Reach
<1>6. CASE Vacuum
  <2>1. Latest.map \subseteq Latest.rows
    BY <1>1 DEF VaultInvariant, CommitsClosed, Latest
  <2>. QED BY <1>1, <1>4, <1>6, <2>1 DEF Vacuum, Reach
<1>7. CASE Reset \/ ResetFails
  <2>1. UNCHANGED <<main, wal>> /\ server'.at \in {"erase", "idle"} /\ server'.pin = Unpinned
    BY <1>7 DEF Reset, ResetFails, NoHandler
  <2>2. server'.at = "erase" => \A w \in Supervised : importer'[w].at = "idle"
    BY <1>7 DEF Reset, ResetFails, NoHandler
  <2>3. SnapshotsInLog'
    BY <1>1, <1>9, <2>1, SnapshotsStay DEF VaultInvariant
  <2>. QED BY <2>1, <2>2, <2>3 DEF VaultInvariant, CommitsClosed, View, ErasesUndisturbed,
           LoadSound, LoadIsOneMap, SummaryCoversMap, ErasureReachesDisk
<1>8. CASE Checkpoint
  <2>1. /\ server.at \in {"checkpoint", "last checkpoint"} /\ CopyBack
        /\ server'.at \in {"vacuum", "erased"} /\ server'.blockers = Blockers
        /\ server'.pin = Unpinned /\ server.pin = Unpinned
    BY <1>8 DEF Checkpoint, AfterCheckpoint, VaultInvariant, LoadSound, TypeOK
  <2>2. ErasesUndisturbed'
    BY <1>2, <2>1 DEF VaultInvariant, ErasesUndisturbed
  <2>3. LoadSound' /\ LoadIsOneMap' /\ SummaryCoversMap'
    BY <2>1 DEF LoadSound, LoadIsOneMap, SummaryCoversMap
  <2>4. CASE Blockers # {}
    <3>1. wal' = wal
      BY <1>8, <2>4 DEF Checkpoint
    <3>2. CommitsClosed'
      BY <2>1, <3>1, CopyKeepsViews
    <3>3. SnapshotsInLog'
      <4>1. Len(wal) \in Nat /\ Len(wal') \in Nat /\ Len(wal) <= Len(wal')
        <5>1. Len(wal) \in Nat /\ Len(wal') = Len(wal)
          BY <1>1, <3>1
        <5>. QED BY <5>1
      <4>. QED BY <1>9, <2>1, <4>1, SnapshotsStay DEF VaultInvariant
    <3>4. ErasureReachesDisk'
      <4>1. Blockers \cap Supervised = {}
        BY <2>1 DEF Blockers, InTransaction, VaultInvariant, ErasesUndisturbed
      <4>2. Blockers \ Supervised # {}
        BY <2>4, <4>1
      <4>. QED BY <2>1, <4>2 DEF ErasureReachesDisk
    <3>. QED BY <2>2, <2>3, <3>2, <3>3, <3>4 DEF VaultInvariant
  <2>5. CASE Blockers = {}
    <3>1. wal' = <<>> /\ Len(wal') = 0
      BY <1>8, <2>5 DEF Checkpoint
    <3>2. Snapshots = {Len(wal)}
      BY <2>1, <2>5 DEF Snapshots, Blockers
    <3>3. main' = Latest
      BY <2>1, <3>2 DEF CopyBack, Latest
    <3>4. \A s \in 0 .. Len(wal') : s = 0
      BY <3>1
    <3>5. CommitsClosed'
      <4>1. Latest.map \subseteq Latest.rows
        BY <1>1 DEF VaultInvariant, CommitsClosed, Latest
      <4>. QED BY <3>3, <3>4, <4>1 DEF CommitsClosed, View
    <3>6. SnapshotsInLog'
      <4>1. Snapshots' = {Len(wal')}
        BY <1>2, <2>1, <2>5 DEF Snapshots, Blockers, InTransaction
      <4>. QED BY <3>1, <4>1 DEF SnapshotsInLog
    <3>7. ErasureReachesDisk'
      BY <3>1, <3>4 DEF ErasureReachesDisk, Latest
    <3>. QED BY <2>2, <2>3, <3>5, <3>6, <3>7 DEF VaultInvariant
  <2>. QED BY <2>4, <2>5
<1>. QED BY <1>5, <1>6, <1>7, <1>8

LEMMA VaultStep == TypeOK /\ VaultInvariant /\ [Next]_vars => VaultInvariant'
<1>1. ASSUME VaultInvariant, UNCHANGED vars PROVE VaultInvariant'
  <2>1. CommitsClosed' /\ SnapshotsInLog'
    BY <1>1 DEF vars, VaultInvariant, CommitsClosed, SnapshotsInLog, Snapshots, InTransaction, View
  <2>2. ErasesUndisturbed' /\ LoadIsOneMap' /\ SummaryCoversMap'
    BY <1>1 DEF vars, VaultInvariant, ErasesUndisturbed, LoadIsOneMap, SummaryCoversMap
  <2>3. LoadSound' /\ ErasureReachesDisk'
    BY <1>1 DEF vars, VaultInvariant, LoadSound, ErasureReachesDisk, View, Latest
  <2>. QED BY <2>1, <2>2, <2>3 DEF VaultInvariant
<1>. QED BY <1>1, ImportStep, AutoCheckpointStep, LoadStep, ResetStep DEF Next, Handle

-----------------------------------------------------------------------------
(* The types and the inductive invariant of the vault file.                *)
THEOREM VaultInvariantHolds == Spec => [](TypeOK /\ VaultInvariant)
<1>1. Init => TypeOK /\ VaultInvariant
  BY TypeInit, VaultInit
<1>2. TypeOK /\ VaultInvariant /\ [Next]_vars => (TypeOK /\ VaultInvariant)'
  BY TypeStep, VaultStep DEF VaultInvariant
<1>. QED BY <1>1, <1>2, PTL DEF Spec

(* Files, transactions and handlers stay in their types.                   *)
THEOREM TypeCorrect == Spec => []TypeOK
BY VaultInvariantHolds, PTL

(* load_topography never mixes the maps of two commits once it has found   *)
(* nodes, however importers replace the map between its four SELECTs.      *)
THEOREM LoadsAreOneMap == Spec => []LoadIsOneMap
BY VaultInvariantHolds, PTL DEF VaultInvariant

(* The evidence count of an answer is no lower than what its map cites.    *)
THEOREM SummariesCoverMaps == Spec => []SummaryCoversMap
BY VaultInvariantHolds, PTL DEF VaultInvariant

(* An answered erasure is physical, unless another process had the vault   *)
(* in a transaction while the last checkpoint ran.                         *)
THEOREM ErasuresReachDisk == Spec => []ErasureReachesDisk
BY VaultInvariantHolds, PTL DEF VaultInvariant
=============================================================================
