------------------------ MODULE ResumableImportProofs ------------------------
(***************************************************************************)
(* Theorems about ResumableImport, for every number of importers, owners,  *)
(* files, file versions and messages, and every batch size.                *)
(***************************************************************************)
EXTENDS ResumableImport, TLAPS

(* A fresh frame is a well-typed one.                                      *)
LEMMA NoRunType ==
  ASSUME NEW how \in InProgress \cup Over
  PROVE  NoRun(how) \in Run
<1>1. /\ (CHOOSE o \in Owners : TRUE) \in Owners
      /\ (CHOOSE p \in Paths : TRUE) \in Paths
  BY SourcesAssumption
<1>2. 0 \in Versions
  BY SourcesAssumption DEF Versions
<1>3. <<>> \in Seq(RecordIds)
  OBVIOUS
<1>. QED
  BY <1>1, <1>2, <1>3 DEF NoRun, Run

(* The first ids of a sequence of record ids are record ids.               *)
LEMMA FirstIdsType ==
  ASSUME NEW S, NEW s \in Seq(S), NEW n
  PROVE  FirstIds(s, n) \subseteq S
BY DEF FirstIds

LEMMA ContentType ==
  ASSUME NEW p \in Paths, NEW v \in Versions
  PROVE  Content[p][v] \in Seq(RecordIds) /\ Len(Content[p][v]) \in Nat
BY SourcesAssumption

LEMMA CursorIndexType ==
  ASSUME NEW cursor \in Cursor \cup {NoCursor}, NEW p, NEW v
  PROVE  CursorIndex(cursor, p, v) \in Nat
BY DEF CursorIndex, Cursor

(* Every variable keeps its type: no step of an import, interruption,      *)
(* erasure or replacement of a file leaves the states the vault can store. *)
THEOREM TypeCorrect == Spec => []TypeOK
<1>1. Init => TypeOK
  <2>. SUFFICES ASSUME Init PROVE TypeOK
    OBVIOUS
  <2>1. NoRun("idle") \in Run
    BY NoRunType DEF Over
  <2>2. 0 \in Versions
    BY SourcesAssumption DEF Versions
  <2>. QED
    BY <2>1, <2>2 DEF Init, TypeOK
<1>2. TypeOK /\ [Next]_vars => TypeOK'
  <2>. SUFFICES ASSUME TypeOK, [Next]_vars PROVE TypeOK'
    OBVIOUS
  <2>. USE DEF TypeOK
  <2>1. ASSUME NEW w \in Importers, NEW o \in Owners, NEW p \in Paths, Start(w, o, p)
        PROVE  TypeOK'
    <3>1. NoRun("preview") \in Run
      BY NoRunType DEF InProgress
    <3>2. [NoRun("preview") EXCEPT !.owner = o, !.path = p, !.fp = disk[p]] \in Run
      BY <3>1 DEF Run
    <3>. QED
      BY <2>1, <3>2 DEF Start
  <2>2. ASSUME NEW w \in Importers, Step(w) \/ Interrupt(w)
        PROVE  TypeOK'
    <3>0. run[w] \in Run
      OBVIOUS
    <3>1. CASE Preview(w)
      <4>1. Len(Content[run[w].path][disk[run[w].path]]) \in Nat
        BY <3>0, ContentType DEF Run
      <4>2. run'[w] \in Run
        BY <3>0, <3>1, <4>1 DEF Preview, Run, InProgress
      <4>. QED BY <3>1, <4>2 DEF Preview
    <3>2. CASE ReadCursor(w)
      <4>1. CursorIndex(checkpoints[run[w].owner], run[w].path, run[w].fp) \in Nat
        BY <3>0, CursorIndexType DEF Run
      <4>2. run'[w] \in Run
        BY <3>0, <3>2, <4>1 DEF ReadCursor, Run, InProgress
      <4>. QED BY <3>2, <4>2 DEF ReadCursor
    <3>3. CASE OpenBox(w)
      <4>1. run'[w] \in Run
        BY <3>0, <3>3 DEF OpenBox, Run, InProgress
      <4>. QED BY <3>3, <4>1 DEF OpenBox
    <3>4. CASE ScanMessage(w)
      <4>1. Box(w) \in Seq(RecordIds) /\ Len(Box(w)) \in Nat
        BY <3>0, ContentType DEF Box, Run
      <4>2. Box(w)[run[w].pos + 1] \in RecordIds
        BY <3>0, <3>4, <4>1 DEF ScanMessage, Run
      <4>3. Append(run[w].records, Box(w)[run[w].pos + 1]) \in Seq(RecordIds)
        BY <3>0, <4>2 DEF Run
      <4>4. \/ run' = [run EXCEPT ![w].pos = @ + 1]
            \/ run' = [run EXCEPT ![w].pos = @ + 1,
                                  ![w].records = Append(@, Box(w)[run[w].pos + 1])]
        BY <3>4 DEF ScanMessage
      <4>5. run[w].pos + 1 \in Nat
        BY <3>0 DEF Run
      <4>6. run'[w] \in Run
        <5>1. CASE run' = [run EXCEPT ![w].pos = @ + 1]
          BY <3>0, <4>5, <5>1 DEF Run
        <5>2. CASE run' = [run EXCEPT ![w].pos = @ + 1,
                                     ![w].records = Append(@, Box(w)[run[w].pos + 1])]
          BY <3>0, <4>3, <4>5, <5>2 DEF Run
        <5>. QED BY <4>4, <5>1, <5>2
      <4>. QED BY <3>4, <4>4, <4>6 DEF ScanMessage
    <3>5. CASE YieldBatch(w) \/ EndOfBox(w)
      <4>1. \/ run' = [run EXCEPT ![w].pc = "ingest"]
            \/ run' = [run EXCEPT ![w].pc = "project"]
        BY <3>5 DEF YieldBatch, EndOfBox
      <4>2. run'[w] \in Run
        <5>1. CASE run' = [run EXCEPT ![w].pc = "ingest"]
          BY <3>0, <5>1 DEF Run, InProgress
        <5>2. CASE run' = [run EXCEPT ![w].pc = "project"]
          BY <3>0, <5>2 DEF Run, InProgress
        <5>. QED BY <4>1, <5>1, <5>2
      <4>. QED BY <3>5, <4>1, <4>2 DEF YieldBatch, EndOfBox
    <3>6. CASE PutEvidence(w)
      <4>1. run' = [run EXCEPT ![w].written = @ + 1]
        BY <3>6 DEF PutEvidence
      <4>2. run[w].written + 1 \in Nat
        BY <3>0 DEF Run
      <4>3. run'[w] \in Run
        BY <3>0, <4>1, <4>2 DEF Run
      <4>. QED BY <3>6, <4>1, <4>3 DEF PutEvidence
    <3>7. CASE CommitBatch(w)
      <4>1. RowsOf(run[w].owner, FirstIds(run[w].records, run[w].written)) \subseteq Rows
        BY <3>0, FirstIdsType DEF RowsOf, Rows, Run
      <4>2. [path |-> run[w].path, version |-> run[w].fp, index |-> run[w].pos] \in Cursor
        BY <3>0 DEF Cursor, Run
      <4>3. run' = [run EXCEPT ![w].pc = "scan", ![w].records = <<>>, ![w].written = 0]
        BY <3>7 DEF CommitBatch
      <4>4. run'[w] \in Run
        <5>. <<>> \in Seq(RecordIds)
          OBVIOUS
        <5>. QED BY <3>0, <4>3 DEF Run, InProgress
      <4>. QED BY <3>7, <4>1, <4>2, <4>3, <4>4 DEF CommitBatch
    <3>8. CASE ReadEvidence(w)
      <4>1. run'[w] \in Run
        BY <3>0, <3>8 DEF ReadEvidence, Run, InProgress
      <4>. QED BY <3>8, <4>1 DEF ReadEvidence
    <3>9. CASE ReplaceTopography(w)
      <4>1. run'[w] \in Run
        BY <3>0, <3>9 DEF ReplaceTopography, Run, Over
      <4>2. run[w].items \subseteq Rows
        BY <3>0 DEF Run
      <4>. QED BY <3>9, <4>1, <4>2 DEF ReplaceTopography
    <3>10. CASE RejectTopography(w) \/ BusyTimeout(w) \/ Interrupt(w)
      <4>1. NoRun("failed") \in Run
        BY NoRunType DEF Over
      <4>. QED BY <3>10, <4>1 DEF RejectTopography, BusyTimeout, Interrupt
    <3>. QED
      BY <2>2, <3>1, <3>2, <3>3, <3>4, <3>5, <3>6, <3>7, <3>8, <3>9, <3>10 DEF Step
  <2>3. CASE Reset
    <3>1. NoRun("idle") \in Run
      BY NoRunType DEF Over
    <3>. QED BY <2>3, <3>1 DEF Reset
  <2>4. ASSUME NEW p \in Paths, ReplaceSource(p) PROVE TypeOK'
    <3>1. disk[p] + 1 \in Versions
      BY <2>4, SourcesAssumption DEF ReplaceSource, Versions
    <3>. QED BY <2>4, <3>1 DEF ReplaceSource
  <2>5. ASSUME NEW p \in Paths, NEW v \in Versions, RestoreSource(p, v) PROVE TypeOK'
    BY <2>5 DEF RestoreSource
  <2>6. CASE UNCHANGED vars
    BY <2>6 DEF vars
  <2>. QED
    BY <2>1, <2>2, <2>3, <2>4, <2>5, <2>6 DEF Next
<1>. QED
  BY <1>1, <1>2, PTL DEF Spec
-----------------------------------------------------------------------------
(* The condition under which a resume is safe: no import is in progress    *)
(* when the vault is erased, and no earlier file comes back under a name.  *)
Undisturbed == Awaited = Importers /\ Restorable = {}

(* Covers, message by message.                                             *)
LEMMA CoversElements ==
  ASSUME NEW rows, NEW o, NEW p \in Paths, NEW v \in Versions, NEW n \in Nat
  PROVE  Covers(rows, o, p, v, n) <=>
           \A k \in 1 .. Len(Content[p][v]) : k <= n => <<o, Content[p][v][k]>> \in rows
<1>1. Content[p][v] \in Seq(RecordIds) /\ DOMAIN Content[p][v] = 1 .. Len(Content[p][v])
  BY ContentType
<1>. QED
  BY <1>1 DEF Covers, RowsOf, FirstIds

(* More rows keep a prefix covered.                                        *)
LEMMA CoversMonotone ==
  ASSUME NEW rows, NEW more, rows \subseteq more,
         NEW o, NEW p, NEW v, NEW n, Covers(rows, o, p, v, n)
  PROVE  Covers(more, o, p, v, n)
BY DEF Covers

(* Nothing has to be covered to start at the beginning.                    *)
LEMMA CoversNothing ==
  ASSUME NEW rows, NEW o, NEW p \in Paths, NEW v \in Versions
  PROVE  Covers(rows, o, p, v, 0)
<1>1. Covers(rows, o, p, v, 0) <=>
        \A k \in 1 .. Len(Content[p][v]) : k <= 0 => <<o, Content[p][v][k]>> \in rows
  BY CoversElements, 0 \in Nat
<1>2. \A k \in 1 .. Len(Content[p][v]) : ~(k <= 0)
  BY ContentType
<1>. QED
  BY <1>1, <1>2

(* What one importer relies on survives more rows and newer files.         *)
LEMMA RunSoundStable ==
  ASSUME NEW rows, NEW more, rows \subseteq more,
         NEW files \in [Paths -> Versions], NEW newer \in [Paths -> Versions],
         \A p \in Paths : files[p] <= newer[p],
         NEW r \in Run, RunSound(rows, files, r)
  PROVE  RunSound(more, newer, r)
<1>0. /\ r.path \in Paths /\ r.fp \in Versions /\ r.box \in Versions
      /\ files[r.path] \in Int /\ newer[r.path] \in Int /\ r.fp \in Int /\ r.box \in Int
      /\ files[r.path] <= newer[r.path]
  BY SourcesAssumption DEF Run, Versions
<1>1. VersionsOrdered(newer, r)
  BY <1>0 DEF RunSound, VersionsOrdered
<1>2. r.pc \in {"cursor", "open"} /\ r.fp = newer[r.path] => r.fp = files[r.path]
  BY <1>0 DEF RunSound, VersionsOrdered, InProgress
<1>3. StartSound(more, newer, r)
  BY <1>2, CoversMonotone DEF RunSound, StartSound
<1>4. ScanSound(more, r)
  BY CoversMonotone DEF RunSound, ScanSound
<1>5. CountSound(newer, r)
  BY <1>2 DEF RunSound, CountSound
<1>. QED
  BY <1>1, <1>3, <1>4, <1>5 DEF RunSound

(* So does what a stored cursor promises.                                  *)
LEMMA CursorSoundStable ==
  ASSUME NEW rows, NEW more, rows \subseteq more,
         NEW files \in [Paths -> Versions], NEW newer \in [Paths -> Versions],
         \A p \in Paths : files[p] <= newer[p],
         NEW o, NEW cursor \in Cursor \cup {NoCursor}, CursorSound(rows, files, o, cursor)
  PROVE  CursorSound(more, newer, o, cursor)
<1>. SUFFICES ASSUME cursor # NoCursor PROVE CursorSound(more, newer, o, cursor)
  BY DEF CursorSound
<1>a. cursor \in Cursor
  OBVIOUS
<1>b. cursor.path \in Paths /\ cursor.version \in Versions
  BY <1>a DEF Cursor
<1>c. files[cursor.path] \in Versions /\ newer[cursor.path] \in Versions
  BY <1>b
<1>d. files[cursor.path] <= newer[cursor.path]
  BY <1>b
<1>e. Versions \subseteq Int
  BY SourcesAssumption DEF Versions
<1>1. /\ cursor.path \in Paths /\ cursor.version \in Int
      /\ files[cursor.path] \in Int /\ newer[cursor.path] \in Int
      /\ files[cursor.path] <= newer[cursor.path]
  BY <1>b, <1>c, <1>d, <1>e
<1>2. cursor.version <= files[cursor.path]
  BY DEF CursorSound
<1>3. cursor.version = newer[cursor.path] => cursor.version = files[cursor.path]
  BY <1>1, <1>2
<1>. QED
  BY <1>1, <1>2, <1>3, CoversMonotone DEF CursorSound

(* A frame outside an import relies on nothing.                            *)
LEMMA NoRunSound ==
  ASSUME NEW rows, NEW files, NEW how \in {"idle", "failed"}
  PROVE  RunSound(rows, files, NoRun(how))
BY DEF NoRun, RunSound, VersionsOrdered, NothingRead, StartSound, ScanSound, BatchSound,
       CountSound, InProgress, Opened

(* A step of an import keeps what its own later steps rely on.             *)
LEMMA OwnStepSound ==
  ASSUME TypeOK, ResumeInvariant, NEW w \in Importers, Step(w)
  PROVE  RunSound(evidence', disk', run'[w])
<1>. DEFINE r == run[w]
            s == run'[w]
            box == Content[r.path][r.box]
<1>0. /\ r \in Run /\ RunSound(evidence, disk, r) /\ disk \in [Paths -> Versions]
      /\ r.path \in Paths /\ r.owner \in Owners /\ r.fp \in Versions /\ r.box \in Versions
      /\ r.pos \in Nat /\ r.start \in Nat /\ r.written \in Nat
      /\ r.records \in Seq(RecordIds) /\ Len(r.records) \in Nat
      /\ disk[r.path] \in Versions
  BY DEF TypeOK, Run, ResumeInvariant
<1>v. disk[r.path] \in Int
  BY <1>0, SourcesAssumption DEF Versions
<1>b. /\ box \in Seq(RecordIds) /\ Len(box) \in Nat
      /\ Box(w) = box
  BY <1>0, ContentType DEF Box
<1>1. CASE Preview(w)
  <2>1. /\ r.pc = "preview" /\ s.pc = "cursor" /\ s.fp = r.fp /\ s.path = r.path
        /\ s.total = Len(Content[r.path][disk[r.path]])
        /\ s.pos = r.pos /\ s.records = r.records /\ s.written = r.written
        /\ disk' = disk
    BY <1>0, <1>1 DEF Preview, TypeOK, Run
  <2>. QED
    BY <1>0, <2>1 DEF RunSound, VersionsOrdered, NothingRead, StartSound, ScanSound,
       BatchSound, CountSound, InProgress, Opened
<1>2. CASE ReadCursor(w)
  <2>. DEFINE cursor == checkpoints[r.owner]
  <2>1. /\ r.pc = "cursor" /\ s.pc = "open" /\ s.fp = r.fp /\ s.path = r.path
        /\ s.owner = r.owner /\ s.total = r.total /\ s.start = CursorIndex(cursor, r.path, r.fp)
        /\ s.pos = r.pos /\ s.records = r.records /\ s.written = r.written
        /\ disk' = disk /\ evidence' = evidence
    BY <1>0, <1>2 DEF ReadCursor, TypeOK, Run
  <2>2. ASSUME r.fp = disk[r.path]
        PROVE  Covers(evidence, r.owner, r.path, r.fp, s.start)
    <3>1. CASE cursor # NoCursor /\ cursor.path = r.path /\ cursor.version = r.fp
      <4>1. CursorSound(evidence, disk, r.owner, cursor)
        BY <1>0 DEF ResumeInvariant
      <4>. QED BY <2>1, <2>2, <3>1, <4>1 DEF CursorSound, CursorIndex
    <3>2. CASE ~(cursor # NoCursor /\ cursor.path = r.path /\ cursor.version = r.fp)
      <4>1. s.start = 0
        BY <2>1, <3>2 DEF CursorIndex
      <4>. QED BY <1>0, <4>1, CoversNothing
    <3>. QED BY <3>1, <3>2
  <2>. QED
    BY <1>0, <2>1, <2>2 DEF RunSound, VersionsOrdered, NothingRead, StartSound, ScanSound,
       BatchSound, CountSound, InProgress, Opened
<1>3. CASE OpenBox(w)
  <2>1. /\ r.pc = "open" /\ s.pc = "scan" /\ s.fp = r.fp /\ s.path = r.path
        /\ s.owner = r.owner /\ s.total = r.total /\ s.start = r.start
        /\ s.box = disk[r.path]
        /\ s.pos = r.pos /\ s.records = r.records /\ s.written = r.written
        /\ disk' = disk /\ evidence' = evidence
    BY <1>0, <1>3 DEF OpenBox, TypeOK, Run
  <2>. HIDE DEF r, s
  <2>2. /\ s.pos = 0 /\ s.records = <<>> /\ s.written = 0 
        /\ s.fp <= disk[r.path] /\ disk[r.path] <= disk[r.path]
    <3>1. s.pos = 0 /\ s.records = <<>> /\ s.written = 0 
      BY <1>0, <2>1 DEF RunSound, NothingRead
    <3>2. s.fp <= disk[r.path]
      BY <1>0, <2>1 DEF RunSound, VersionsOrdered, InProgress
    <3>3. disk[r.path] <= disk[r.path]
      BY <1>v
    <3>. QED BY <3>1, <3>2, <3>3
  <2>3. /\ VersionsOrdered(disk', s) /\ NothingRead(s) /\ StartSound(evidence', disk', s)
        /\ CountSound(disk', s)
    BY <1>0, <2>1, <2>2 DEF RunSound, VersionsOrdered, NothingRead, StartSound,
       CountSound, InProgress, Opened
  <2>4. Len(Content[s.path][s.box]) \in Nat
    BY <1>0, <2>1, ContentType
  <2>5. ScanSound(evidence', s) /\ BatchSound(s)
    BY <2>1, <2>2, <2>4, BatchAssumption DEF ScanSound, BatchSound
  <2>. QED BY <2>3, <2>5 DEF RunSound, s
<1>4. CASE ScanMessage(w)
  <2>0. /\ r.pc = "scan" /\ r.pos < Len(box) /\ disk' = disk /\ evidence' = evidence
        /\ \/ /\ r.pos < r.start \/ box[r.pos + 1] \in FirstIds(box, r.pos)
              /\ s = [r EXCEPT !.pos = r.pos + 1]
           \/ /\ box[r.pos + 1] \notin FirstIds(box, r.pos)
              /\ Len(r.records) < BatchSize
              /\ s = [r EXCEPT !.pos = r.pos + 1,
                               !.records = Append(r.records, box[r.pos + 1])]
    BY <1>4, <1>b DEF ScanMessage, IsDuplicate, TypeOK
  <2>. HIDE DEF s, r, box
  <2>1. /\ r.pc = "scan" /\ s.pc = "scan" /\ s.fp = r.fp /\ s.path = r.path
        /\ s.owner = r.owner /\ s.total = r.total /\ s.start = r.start /\ s.box = r.box
        /\ s.pos = r.pos + 1 /\ s.written = r.written /\ r.pos < Len(box)
        /\ disk' = disk /\ evidence' = evidence
    BY <1>0, <2>0 DEF Run
  <2>2. \/ /\ r.pos < r.start \/ box[r.pos + 1] \in FirstIds(box, r.pos)
           /\ s.records = r.records
        \/ /\ box[r.pos + 1] \notin FirstIds(box, r.pos)
           /\ Len(r.records) < BatchSize
           /\ s.records = Append(r.records, box[r.pos + 1])
    BY <1>0, <2>0 DEF Run
  <2>3. /\ VersionsOrdered(disk', s) /\ NothingRead(s) /\ StartSound(evidence', disk', s)
        /\ CountSound(disk', s)
    BY <1>0, <2>1 DEF RunSound, VersionsOrdered, NothingRead, StartSound,
       CountSound, InProgress, Opened
  <2>4. FirstIds(box, r.pos) = {box[k] : k \in 1 .. r.pos}
    BY <1>0, <1>b, <2>1 DEF FirstIds
  <2>5. ScanSound(evidence', s)
    <3>1. SUFFICES ASSUME r.box = r.fp, NEW k \in 1 .. Len(box), k <= r.pos + 1
                   PROVE  \/ <<r.owner, box[k]>> \in evidence
                          \/ \E j \in 1 .. Len(s.records) : s.records[j] = box[k]
      BY <2>1 DEF ScanSound, box
    <3>2. \A i \in 1 .. Len(r.records) : i \in 1 .. Len(s.records) /\ s.records[i] = r.records[i]
      BY <1>0, <2>2
    <3>3. ASSUME NEW m \in 1 .. Len(box), m <= r.pos
          PROVE  \/ <<r.owner, box[m]>> \in evidence
                 \/ \E j \in 1 .. Len(s.records) : s.records[j] = box[m]
      <4>1. \/ <<r.owner, box[m]>> \in evidence
            \/ \E j \in 1 .. Len(r.records) : r.records[j] = box[m]
        BY <1>0, <2>1, <3>1, <3>3 DEF RunSound, ScanSound, box
      <4>. QED BY <3>2, <4>1
    <3>4. CASE k <= r.pos
      BY <3>3, <3>4
    <3>5. CASE k = r.pos + 1
      <4>1. CASE r.pos < r.start
        <5>1. Covers(evidence, r.owner, r.path, r.box, r.start)
          BY <1>0, <2>1, <3>1 DEF RunSound, StartSound
        <5>2. k <= r.start
          BY <1>0, <3>5, <4>1
        <5>. QED BY <1>0, <5>1, <5>2, CoversElements DEF box
      <4>2. CASE box[r.pos + 1] \in FirstIds(box, r.pos)
        <5>1. PICK m \in 1 .. r.pos : box[m] = box[k]
          BY <2>4, <3>5, <4>2
        <5>2. m \in 1 .. Len(box) /\ m <= r.pos
          BY <1>0, <1>b, <2>1
        <5>. QED BY <3>3, <5>1, <5>2
      <4>3. CASE s.records = Append(r.records, box[r.pos + 1])
        <5>1. Len(r.records) + 1 \in 1 .. Len(s.records)
          BY <1>0, <4>3
        <5>2. s.records[Len(r.records) + 1] = box[k]
          BY <1>0, <3>5, <4>3
        <5>. QED BY <5>1, <5>2
      <4>. QED BY <2>2, <4>1, <4>2, <4>3
    <3>. QED BY <1>0, <1>b, <3>1, <3>4, <3>5
  <2>6. BatchSound(s)
    <3>1. /\ r.written <= Len(r.records) /\ Len(r.records) <= BatchSize
          /\ \A i, j \in 1 .. Len(r.records) : r.records[i] = r.records[j] => i = j
          /\ \A j \in 1 .. Len(r.records) : \E k \in 1 .. r.pos : box[k] = r.records[j]
      BY <1>0, <2>1 DEF RunSound, BatchSound, box
    <3>2. \A j \in 1 .. Len(r.records) : \E k \in 1 .. s.pos : box[k] = r.records[j]
      BY <1>0, <2>1, <3>1
    <3>n. s.pos <= Len(box)
      BY <1>0, <1>b, <2>1
    <3>3. CASE s.records = r.records
      BY <2>1, <3>1, <3>2, <3>3, <3>n DEF BatchSound, box
    <3>4. CASE /\ box[r.pos + 1] \notin FirstIds(box, r.pos)
               /\ Len(r.records) < BatchSize
               /\ s.records = Append(r.records, box[r.pos + 1])
      <4>1. /\ Len(s.records) = Len(r.records) + 1
            /\ \A i \in 1 .. Len(r.records) : s.records[i] = r.records[i]
            /\ s.records[Len(r.records) + 1] = box[r.pos + 1]
        BY <1>0, <3>4
      <4>2. \A i \in 1 .. Len(r.records) : r.records[i] # box[r.pos + 1]
        BY <2>4, <3>1, <3>4
      <4>3. ASSUME NEW i \in 1 .. Len(s.records), NEW j \in 1 .. Len(s.records),
                   s.records[i] = s.records[j]
            PROVE  i = j
        <5>1. i \in 1 .. Len(r.records) \/ i = Len(r.records) + 1
          BY <1>0, <4>1
        <5>2. j \in 1 .. Len(r.records) \/ j = Len(r.records) + 1
          BY <1>0, <4>1
        <5>. QED BY <3>1, <4>1, <4>2, <4>3, <5>1, <5>2
      <4>4. \A j \in 1 .. Len(s.records) : \E k \in 1 .. s.pos : box[k] = s.records[j]
        <5>1. r.pos + 1 \in 1 .. s.pos
          BY <1>0, <2>1
        <5>2. \A j \in 1 .. Len(s.records) : j \in 1 .. Len(r.records) \/ j = Len(r.records) + 1
          BY <1>0, <4>1
        <5>. QED BY <3>2, <4>1, <5>1, <5>2
      <4>5. Len(s.records) <= BatchSize /\ r.written <= Len(s.records)
        BY <1>0, <3>1, <3>4, <4>1, BatchAssumption
      <4>. QED BY <2>1, <3>n, <4>3, <4>4, <4>5 DEF BatchSound, box
    <3>. QED BY <2>2, <3>3, <3>4
  <2>. QED BY <2>3, <2>5, <2>6 DEF RunSound, s
<1>5. CASE YieldBatch(w)
  <2>1. s = [r EXCEPT !.pc = "ingest"] /\ r.pc = "scan" /\ disk' = disk /\ evidence' = evidence
    BY <1>0, <1>5 DEF YieldBatch, TypeOK
  <2>2. Len(r.records) >= 1
    BY <1>0, <1>5, BatchAssumption DEF YieldBatch
  <2>3. /\ s.pc = "ingest" /\ s.fp = r.fp /\ s.path = r.path /\ s.owner = r.owner
        /\ s.total = r.total /\ s.start = r.start /\ s.box = r.box /\ s.pos = r.pos
        /\ s.records = r.records /\ s.written = r.written
    BY <1>0, <2>1 DEF Run
  <2>. HIDE DEF s
  <2>4. /\ VersionsOrdered(disk', s) /\ NothingRead(s) /\ StartSound(evidence', disk', s)
        /\ CountSound(disk', s)
    BY <1>0, <2>1, <2>3
       DEF RunSound, VersionsOrdered, NothingRead, StartSound, CountSound, InProgress, Opened
  <2>5. ScanSound(evidence', s)
    <3>1. ScanSound(evidence, r)
      BY <1>0 DEF RunSound
    <3>. QED BY <2>1, <2>3, <3>1 DEF ScanSound
  <2>6. BatchSound(s)
    <3>1. BatchSound(r)
      BY <1>0 DEF RunSound
    <3>. QED BY <2>1, <2>2, <2>3, <3>1 DEF BatchSound
  <2>. QED BY <2>4, <2>5, <2>6 DEF RunSound, s
<1>6. CASE EndOfBox(w)
  <2>1. /\ r.pc = "scan" /\ s.pc = "project" /\ s.fp = r.fp /\ s.path = r.path
        /\ s.owner = r.owner /\ s.total = r.total /\ s.box = r.box
        /\ r.pos = Len(box) /\ r.records = <<>>
        /\ disk' = disk /\ evidence' = evidence
    BY <1>0, <1>6, <1>b DEF EndOfBox, TypeOK, Run
  <2>2. r.box = r.fp => Covers(evidence, r.owner, r.path, r.box, Len(box))
    <3>1. r.box = r.fp => \A k \in 1 .. Len(box) : <<r.owner, box[k]>> \in evidence
      BY <1>0, <1>b, <2>1 DEF RunSound, ScanSound
    <3>. QED BY <1>0, <1>b, <3>1, CoversElements
  <2>. QED
    BY <1>0, <2>1, <2>2 DEF RunSound, VersionsOrdered, NothingRead, StartSound, ScanSound,
       BatchSound, CountSound, InProgress, Opened
<1>7. CASE PutEvidence(w)
  <2>1. /\ r.pc = "ingest" /\ s.pc = "ingest" /\ s.fp = r.fp /\ s.path = r.path
        /\ s.owner = r.owner /\ s.total = r.total /\ s.start = r.start /\ s.box = r.box
        /\ s.pos = r.pos /\ s.records = r.records /\ s.written = r.written + 1
        /\ s.written <= Len(r.records)
        /\ disk' = disk /\ evidence' = evidence
    BY <1>0, <1>7 DEF PutEvidence, TypeOK, Run
  <2>. HIDE DEF s
  <2>2. VersionsOrdered(disk', s) /\ NothingRead(s) /\ CountSound(disk', s)
    BY <1>0, <2>1 DEF RunSound, VersionsOrdered, NothingRead, CountSound, InProgress, Opened
  <2>3. StartSound(evidence', disk', s) /\ ScanSound(evidence', s)
    BY <1>0, <2>1 DEF RunSound, StartSound, ScanSound
  <2>4. BatchSound(r)
    BY <1>0 DEF RunSound
  <2>5. BatchSound(s)
    <3>1. Content[s.path][s.box] = box
      BY <2>1
    <3>2. s.pos <= Len(box) /\ Len(s.records) <= BatchSize /\ Len(s.records) >= 1
      BY <2>1, <2>4 DEF BatchSound
    <3>3. \A i, j \in 1 .. Len(s.records) : s.records[i] = s.records[j] => i = j
      BY <2>1, <2>4 DEF BatchSound
    <3>4. \A j \in 1 .. Len(s.records) : \E k \in 1 .. s.pos : box[k] = s.records[j]
      BY <2>1, <2>4 DEF BatchSound
    <3>. QED
      BY <2>1, <3>1, <3>2, <3>3, <3>4 DEF BatchSound
  <2>. QED
    BY <2>2, <2>3, <2>5 DEF RunSound, s
<1>8. CASE CommitBatch(w)
  <2>1. /\ r.pc = "ingest" /\ s.pc = "scan" /\ s.fp = r.fp /\ s.path = r.path
        /\ s.owner = r.owner /\ s.total = r.total /\ s.start = r.start /\ s.box = r.box
        /\ s.pos = r.pos /\ s.records = <<>> /\ s.written = 0
        /\ disk' = disk /\ r.written = Len(r.records)
        /\ evidence' = evidence \cup RowsOf(r.owner, FirstIds(r.records, r.written))
    BY <1>0, <1>8 DEF CommitBatch, TypeOK, Run
  <2>2. \A j \in 1 .. Len(r.records) : <<r.owner, r.records[j]>> \in evidence'
    BY <1>0, <2>1 DEF RowsOf, FirstIds
  <2>3. ScanSound(evidence', s)
    <3>1. SUFFICES ASSUME r.box = r.fp, NEW k \in 1 .. Len(box), k <= r.pos
                   PROVE  <<r.owner, box[k]>> \in evidence'
      BY <2>1 DEF ScanSound
    <3>. QED BY <1>0, <2>1, <2>2, <3>1 DEF RunSound, ScanSound
  <2>4. StartSound(evidence', disk', s)
    BY <1>0, <2>1, CoversMonotone DEF RunSound, StartSound
  <2>5. BatchSound(s)
    <3>1. r.pos <= Len(box) /\ Len(s.records) = 0 /\ 0 <= BatchSize
      BY <1>0, <2>1, BatchAssumption DEF RunSound, BatchSound
    <3>. QED BY <2>1, <3>1 DEF BatchSound
  <2>. QED
    BY <1>0, <2>1, <2>3, <2>4, <2>5 DEF RunSound, VersionsOrdered, NothingRead,
       CountSound, InProgress, Opened
<1>9. CASE ReadEvidence(w) \/ ReplaceTopography(w)
  <2>1. /\ r.pc \in {"project", "replace"} /\ s.pc \in {"replace", "completed"}
        /\ s.fp = r.fp /\ s.path = r.path
        /\ s.owner = r.owner /\ s.total = r.total /\ s.box = r.box
        /\ disk' = disk /\ evidence' = evidence
    BY <1>0, <1>9 DEF ReadEvidence, ReplaceTopography, TypeOK, Run
  <2>. QED
    BY <1>0, <2>1 DEF RunSound, VersionsOrdered, NothingRead, StartSound, ScanSound,
       BatchSound, CountSound, InProgress, Opened
<1>10. CASE RejectTopography(w) \/ BusyTimeout(w)
  <2>1. s = NoRun("failed")
    BY <1>10 DEF RejectTopography, BusyTimeout, TypeOK
  <2>. QED BY <2>1, NoRunSound
<1>. QED
  BY <1>1, <1>2, <1>3, <1>4, <1>5, <1>6, <1>7, <1>8, <1>9, <1>10 DEF Step

(* A new import relies on nothing but the file not being from the future.  *)
LEMMA StartStepSound ==
  ASSUME TypeOK, NEW w \in Importers, NEW o \in Owners, NEW p \in Paths, Start(w, o, p)
  PROVE  RunSound(evidence', disk', run'[w])
<1>. DEFINE s == run'[w]
<1>1. NoRun("preview") \in Run
  BY NoRunType DEF InProgress
<1>2. s = [NoRun("preview") EXCEPT !.owner = o, !.path = p, !.fp = disk[p]] /\ disk' = disk
  BY DEF Start, TypeOK
<1>. HIDE DEF s
<1>3. /\ s.pc = "preview" /\ s.path = p /\ s.fp = disk[p]
      /\ s.pos = 0 /\ s.records = <<>> /\ s.written = 0
  BY <1>1, <1>2 DEF Run, NoRun
<1>4. disk[p] <= disk[p]
  BY SourcesAssumption DEF TypeOK, Versions
<1>5. RunSound(evidence', disk', s)
  BY <1>2, <1>3, <1>4 DEF RunSound, VersionsOrdered, NothingRead, StartSound, ScanSound,
     BatchSound, CountSound, Opened
<1>. QED BY <1>5 DEF s

(* The cursor a batch commits is sound: the file is not newer than the     *)
(* fingerprint only if it is the box that was read up to the position.     *)
LEMMA CommitSound ==
  ASSUME TypeOK, ResumeInvariant, NEW w \in Importers, CommitBatch(w)
  PROVE  /\ evidence \subseteq evidence'
         /\ CursorSound(evidence', disk', run[w].owner, checkpoints'[run[w].owner])
<1>. DEFINE r == run[w]
            box == Content[r.path][r.box]
            cursor == checkpoints'[r.owner]
<1>0. /\ r \in Run /\ RunSound(evidence, disk, r)
      /\ r.path \in Paths /\ r.owner \in Owners /\ r.box \in Versions /\ r.fp \in Versions
      /\ r.pos \in Nat /\ disk[r.path] \in Versions
      /\ r.records \in Seq(RecordIds) /\ Len(r.records) \in Nat
  BY DEF TypeOK, Run, ResumeInvariant
<1>i. r.fp \in Int /\ r.box \in Int /\ disk[r.path] \in Int
  BY <1>0, SourcesAssumption DEF Versions
<1>1. /\ r.pc = "ingest" /\ disk' = disk /\ evidence \subseteq evidence'
      /\ evidence' = evidence \cup RowsOf(r.owner, FirstIds(r.records, Len(r.records)))
      /\ cursor = [path |-> r.path, version |-> r.fp, index |-> r.pos]
  BY <1>0 DEF CommitBatch, TypeOK
<1>. HIDE DEF r, cursor
<1>2. \A j \in 1 .. Len(r.records) : <<r.owner, r.records[j]>> \in evidence'
  <2>1. DOMAIN r.records = 1 .. Len(r.records)
    BY <1>0 DEF Run
  <2>. QED BY <1>0, <1>1, <2>1 DEF RowsOf, FirstIds
<1>3. r.fp <= r.box /\ r.box <= disk[r.path]
  BY <1>0, <1>1 DEF RunSound, VersionsOrdered, Opened
<1>4. ASSUME r.fp = disk[r.path]
      PROVE  Covers(evidence', r.owner, r.path, r.fp, r.pos)
  <2>1. r.box = r.fp
    BY <1>i, <1>3, <1>4
  <2>2. \A k \in 1 .. Len(box) : k <= r.pos => <<r.owner, box[k]>> \in evidence'
    BY <1>0, <1>1, <1>2, <2>1 DEF RunSound, ScanSound
  <2>. QED BY <1>0, <2>1, <2>2, CoversElements
<1>5. r.fp <= disk[r.path]
  BY <1>i, <1>3
<1>6. CursorSound(evidence', disk', r.owner, cursor)
  BY <1>1, <1>4, <1>5 DEF CursorSound
<1>. QED BY <1>1, <1>6 DEF r, cursor

(* The inductive step.                                                     *)
LEMMA ResumeInvariantStep ==
  ASSUME Undisturbed, TypeOK, TypeOK', ResumeInvariant, [Next]_vars
  PROVE  ResumeInvariant'
<1>. USE DEF Undisturbed
<1>0. /\ disk \in [Paths -> Versions] /\ disk' \in [Paths -> Versions]
      /\ \A w \in Importers : run[w] \in Run
      /\ \A o \in Owners : checkpoints[o] \in Cursor \cup {NoCursor}
      /\ \A p \in Paths : disk[p] \in Int /\ disk'[p] \in Int
  BY SourcesAssumption DEF TypeOK, Versions
<1>1. ASSUME evidence \subseteq evidence', \A p \in Paths : disk[p] <= disk'[p]
      PROVE  /\ \A w \in Importers : run'[w] = run[w] => RunSound(evidence', disk', run'[w])
             /\ \A o \in Owners : checkpoints'[o] = checkpoints[o] =>
                  CursorSound(evidence', disk', o, checkpoints'[o])
  BY <1>0, <1>1, RunSoundStable, CursorSoundStable DEF ResumeInvariant
<1>2. \A p \in Paths : disk[p] <= disk[p]
  BY <1>0
<1>3. ASSUME NEW w \in Importers, NEW o \in Owners, NEW p \in Paths, Start(w, o, p)
      PROVE  ResumeInvariant'
  <2>1. /\ evidence' = evidence /\ disk' = disk /\ checkpoints' = checkpoints
        /\ \A v \in Importers \ {w} : run'[v] = run[v]
    BY <1>3 DEF Start, TypeOK
  <2>2. RunSound(evidence', disk', run'[w])
    BY <1>3, StartStepSound
  <2>. QED BY <1>1, <1>2, <2>1, <2>2 DEF ResumeInvariant
<1>4. ASSUME NEW w \in Importers, Step(w)
      PROVE  ResumeInvariant'
  <2>1. RunSound(evidence', disk', run'[w])
    BY <1>4, OwnStepSound
  <2>2. disk' = disk /\ \A v \in Importers \ {w} : run'[v] = run[v]
    BY <1>4 DEF Step, Preview, ReadCursor, OpenBox, ScanMessage, YieldBatch, EndOfBox,
       PutEvidence, CommitBatch, BusyTimeout, ReadEvidence, ReplaceTopography,
       RejectTopography, TypeOK
  <2>3. CASE CommitBatch(w)
    <3>1. /\ evidence \subseteq evidence'
          /\ CursorSound(evidence', disk', run[w].owner, checkpoints'[run[w].owner])
      BY <2>3, CommitSound
    <3>2. \A o \in Owners \ {run[w].owner} : checkpoints'[o] = checkpoints[o]
      BY <2>3 DEF CommitBatch, TypeOK
    <3>. QED BY <1>1, <1>2, <2>1, <2>2, <3>1, <3>2 DEF ResumeInvariant
  <2>4. CASE evidence' = evidence /\ checkpoints' = checkpoints
    BY <1>1, <1>2, <2>1, <2>2, <2>4 DEF ResumeInvariant
  <2>. QED
    BY <1>4, <2>3, <2>4 DEF Step, Preview, ReadCursor, OpenBox, ScanMessage, YieldBatch,
       EndOfBox, PutEvidence, BusyTimeout, ReadEvidence, ReplaceTopography, RejectTopography
<1>5. ASSUME NEW w \in Importers, Interrupt(w)
      PROVE  ResumeInvariant'
  <2>1. /\ evidence' = evidence /\ disk' = disk /\ checkpoints' = checkpoints
        /\ \A v \in Importers \ {w} : run'[v] = run[v]
        /\ run'[w] = NoRun("failed")
    BY <1>5 DEF Interrupt, TypeOK
  <2>2. RunSound(evidence', disk', run'[w])
    BY <2>1, NoRunSound
  <2>. QED BY <1>1, <1>2, <2>1, <2>2 DEF ResumeInvariant
<1>6. CASE Reset
  <2>1. \A w \in Importers : run'[w] = NoRun("idle")
    BY <1>6 DEF Reset
  <2>2. \A w \in Importers : RunSound(evidence', disk', run'[w])
    BY <2>1, NoRunSound
  <2>3. \A o \in Owners : checkpoints'[o] = NoCursor
    BY <1>6 DEF Reset
  <2>. QED BY <2>2, <2>3 DEF ResumeInvariant, CursorSound
<1>7. ASSUME NEW p \in Paths, ReplaceSource(p)
      PROVE  ResumeInvariant'
  <2>1. evidence' = evidence /\ checkpoints' = checkpoints /\ run' = run
    BY <1>7 DEF ReplaceSource
  <2>2. \A q \in Paths : disk[q] <= disk'[q]
    <3>1. \A q \in Paths : disk'[q] = IF q = p THEN disk[q] + 1 ELSE disk[q]
      BY <1>0, <1>7 DEF ReplaceSource
    <3>. QED BY <1>0, <3>1
  <2>. QED BY <1>1, <2>1, <2>2 DEF ResumeInvariant
<1>8. ASSUME NEW p \in Paths, NEW v \in Versions, RestoreSource(p, v)
      PROVE  ResumeInvariant'
  BY <1>8 DEF RestoreSource
<1>9. CASE UNCHANGED vars
  BY <1>1, <1>2, <1>9 DEF vars, ResumeInvariant
<1>. QED
  BY <1>3, <1>4, <1>5, <1>6, <1>7, <1>8, <1>9 DEF Next

(* The inductive invariant holds while imports are undisturbed.            *)
THEOREM ResumeInvariantHolds ==
  ASSUME Undisturbed
  PROVE  Spec => []ResumeInvariant
<1>1. Init => ResumeInvariant
  <2>. SUFFICES ASSUME Init PROVE ResumeInvariant
    OBVIOUS
  <2>1. \A w \in Importers : run[w] = NoRun("idle")
    BY DEF Init
  <2>2. \A o \in Owners : checkpoints[o] = NoCursor
    BY DEF Init
  <2>. QED BY <2>1, <2>2, NoRunSound DEF ResumeInvariant, CursorSound
<1>2. TypeOK /\ TypeOK' /\ ResumeInvariant /\ [Next]_vars => ResumeInvariant'
  BY ResumeInvariantStep
<1>. QED
  BY <1>1, <1>2, TypeCorrect, PTL DEF Spec
-----------------------------------------------------------------------------
(* A re-import never skips a message that is not evidence.                 *)
THEOREM ResumeIsSafe ==
  ASSUME Undisturbed
  PROVE  Spec => []ResumeSafe
<1>1. TypeOK /\ ResumeInvariant => ResumeSafe
  <2>. SUFFICES ASSUME TypeOK, ResumeInvariant, NEW o \in Owners, NEW p \in Paths
                PROVE  Covers(evidence, o, p, disk[p], CursorIndex(checkpoints[o], p, disk[p]))
    BY DEF ResumeSafe
  <2>1. disk[p] \in Versions /\ CursorSound(evidence, disk, o, checkpoints[o])
    BY DEF TypeOK, ResumeInvariant
  <2>2. CASE CursorIndex(checkpoints[o], p, disk[p]) = 0
    BY <2>1, <2>2, CoversNothing
  <2>3. CASE /\ checkpoints[o] # NoCursor /\ checkpoints[o].path = p
             /\ checkpoints[o].version = disk[p]
    BY <2>1, <2>3 DEF CursorSound, CursorIndex
  <2>. QED BY <2>2, <2>3 DEF CursorIndex
<1>. QED
  BY <1>1, TypeCorrect, ResumeInvariantHolds, PTL

(* An import that completed on an unchanged file imported all of it, and   *)
(* says so.                                                                *)
THEOREM ImportsAreWhole ==
  ASSUME Undisturbed
  PROVE  Spec => []CompletedImportIsWhole
<1>1. ResumeInvariant => CompletedImportIsWhole
  BY DEF ResumeInvariant, RunSound, ScanSound, CountSound, CompletedImportIsWhole, Box, Opened
<1>. QED
  BY <1>1, ResumeInvariantHolds, PTL

(* Every batch yielded is one that IngestBatch accepts.                    *)
THEOREM BatchesAreValid ==
  ASSUME Undisturbed
  PROVE  Spec => []BatchIsValid
<1>1. TypeOK /\ ResumeInvariant => BatchIsValid
  <2>. SUFFICES ASSUME TypeOK, ResumeInvariant, NEW w \in Importers, run[w].pc = "ingest"
                PROVE  /\ Len(run[w].records) \in 1 .. BatchSize
                       /\ \A i, j \in 1 .. Len(run[w].records) :
                            run[w].records[i] = run[w].records[j] => i = j
    BY DEF BatchIsValid
  <2>1. BatchSound(run[w]) /\ run[w].records \in Seq(RecordIds)
    BY DEF ResumeInvariant, RunSound, TypeOK, Run
  <2>. QED
    BY <2>1, BatchAssumption DEF BatchSound
<1>. QED
  BY <1>1, TypeCorrect, ResumeInvariantHolds, PTL

(* The map never cites a row that is gone, even when the vault is erased   *)
(* under a running import and files come back.                             *)
THEOREM ProvenanceIsClosed == Spec => []ProvenanceClosed
<1>1. Init => ProvenanceClosed
  BY DEF Init, ProvenanceClosed
<1>2. ProvenanceClosed /\ [Next]_vars => ProvenanceClosed'
  <2>. SUFFICES ASSUME ProvenanceClosed, [Next]_vars PROVE ProvenanceClosed'
    OBVIOUS
  <2>. USE DEF ProvenanceClosed
  <2>1. ASSUME NEW w \in Importers, CommitBatch(w) PROVE ProvenanceClosed'
    BY <2>1 DEF CommitBatch
  <2>2. ASSUME NEW w \in Importers, ReplaceTopography(w) PROVE ProvenanceClosed'
    BY <2>2 DEF ReplaceTopography
  <2>3. CASE Reset
    BY <2>3 DEF Reset
  <2>4. CASE topography' = topography /\ evidence' = evidence
    BY <2>4
  <2>. QED
    BY <2>1, <2>2, <2>3, <2>4 DEF Next, Step, Start, Preview, ReadCursor, OpenBox, ScanMessage,
       YieldBatch, EndOfBox, PutEvidence, BusyTimeout, ReadEvidence, RejectTopography,
       Interrupt, ReplaceSource, RestoreSource, vars
<1>. QED
  BY <1>1, <1>2, PTL DEF Spec

(* Nobody holds the write lock but an import inside its transaction,       *)
(* however imports overlap, fail, die or lose the vault: what the busy     *)
(* timeout refuses, another import's work refused.                         *)
THEOREM LockIsOnlyInUse == Spec => []LockIsInUse
<1>1. Init => LockIsInUse
  BY ImportersAssumption DEF Init, LockIsInUse
<1>2. TypeOK /\ LockIsInUse /\ [Next]_vars => LockIsInUse'
  <2>. SUFFICES ASSUME TypeOK, LockIsInUse, [Next]_vars, NEW x \in Importers, lock' = x
                PROVE  run'[x].pc = "ingest" /\ run'[x].written > 0
    BY DEF LockIsInUse
  <2>1. ASSUME NEW w \in Importers, PutEvidence(w)
        PROVE  run'[x].pc = "ingest" /\ run'[x].written > 0
    <3>1. x = w /\ run[w] \in Run /\ run[w].pc = "ingest"
          /\ run'[w] = [run[w] EXCEPT !.written = @ + 1]
      BY <2>1 DEF PutEvidence, TypeOK
    <3>2. run[w].written \in Nat /\ run'[w].written = run[w].written + 1
          /\ run'[w].pc = "ingest"
      BY <3>1 DEF Run
    <3>. QED BY <3>1, <3>2
  <2>2. ASSUME lock = x, run'[x] = run[x]
        PROVE  run'[x].pc = "ingest" /\ run'[x].written > 0
    BY <2>2 DEF LockIsInUse
  <2>3. ASSUME lock = x, NEW w \in Importers, w # x, NEW r, run' = [run EXCEPT ![w] = r]
        PROVE  run'[x] = run[x]
    BY <2>3 DEF TypeOK
  <2>4. ASSUME NEW w \in Importers,
               \/ Preview(w) \/ ReadCursor(w) \/ OpenBox(w) \/ ScanMessage(w)
               \/ YieldBatch(w) \/ EndOfBox(w) \/ BusyTimeout(w)
               \/ ReadEvidence(w) \/ ReplaceTopography(w) \/ RejectTopography(w)
        PROVE  run'[x].pc = "ingest" /\ run'[x].written > 0
    <3>1. lock = x /\ w # x
      BY <2>4, ImportersAssumption DEF LockIsInUse, Preview, ReadCursor, OpenBox, ScanMessage,
         YieldBatch, EndOfBox, BusyTimeout, ReadEvidence, ReplaceTopography, RejectTopography
    <3>2. run'[x] = run[x]
      BY <2>4, <3>1 DEF TypeOK, Preview, ReadCursor, OpenBox, ScanMessage, YieldBatch,
         EndOfBox, BusyTimeout, ReadEvidence, ReplaceTopography, RejectTopography
    <3>. QED BY <2>2, <3>1, <3>2
  <2>5. ASSUME NEW w \in Importers, CommitBatch(w) PROVE FALSE
    BY <2>5, ImportersAssumption DEF CommitBatch
  <2>6. ASSUME NEW w \in Importers, Interrupt(w)
        PROVE  run'[x].pc = "ingest" /\ run'[x].written > 0
    <3>1. lock = x /\ w # x
      BY <2>6, ImportersAssumption DEF Interrupt
    <3>. QED BY <2>2, <2>3, <2>6, <3>1 DEF Interrupt
  <2>7. ASSUME NEW w \in Importers, NEW o \in Owners, NEW p \in Paths, Start(w, o, p)
        PROVE  run'[x].pc = "ingest" /\ run'[x].written > 0
    <3>1. lock = x /\ w # x
      BY <2>7 DEF Start, Running, InProgress, LockIsInUse
    <3>2. run'[x] = run[x]
      BY <2>7, <3>1 DEF Start, TypeOK
    <3>. QED BY <2>2, <3>1, <3>2
  <2>8. CASE Reset
    BY <2>8, ImportersAssumption DEF Reset
  <2>9. CASE run' = run /\ lock' = lock
    BY <2>2, <2>9
  <2>. QED
    BY <2>1, <2>4, <2>5, <2>6, <2>7, <2>8, <2>9
    DEF Next, Step, ReplaceSource, RestoreSource, vars
<1>. QED
  BY <1>1, <1>2, TypeCorrect, PTL DEF Spec

(* The importers implement the ledger: each of their steps is one of its   *)
(* steps or changes none of its variables.                                 *)
THEOREM KeepsTheLedger ==
  ASSUME Undisturbed
  PROVE  Spec => KeepsLedger
<1>1. Init => Ledger!Init
  BY DEF Init, Ledger!Init
<1>2. TypeOK /\ TypeOK' /\ ResumeInvariant /\ ProvenanceClosed /\ [Next]_vars
        => [Ledger!Next]_Ledger!ledgerVars
  <2>. SUFFICES ASSUME TypeOK, TypeOK', ResumeInvariant, ProvenanceClosed, [Next]_vars
                PROVE  [Ledger!Next]_Ledger!ledgerVars
    OBVIOUS
  <2>1. ASSUME NEW w \in Importers, CommitBatch(w)
        PROVE  Ledger!Commit(run[w].owner) /\ run[w].owner \in Owners
    <3>. DEFINE o == run[w].owner
                cursor == [path |-> run[w].path, version |-> run[w].fp, index |-> run[w].pos]
    <3>1. run[w] \in Run /\ o \in Owners /\ run[w].records \in Seq(RecordIds)
      BY DEF TypeOK, Run
    <3>2. cursor \in Cursor
      BY <3>1 DEF Run, Cursor
    <3>3. /\ checkpoints' = [checkpoints EXCEPT ![o] = cursor] /\ checkpoints'[o] = cursor
          /\ disk' = disk /\ topography' = topography
          /\ evidence' = evidence \cup RowsOf(o, FirstIds(run[w].records, run[w].written))
      BY <2>1, <3>1 DEF CommitBatch, TypeOK
    <3>4. CursorSound(evidence', disk', o, cursor)
      BY <2>1, <3>3, CommitSound
    <3>5. RowsOf(o, FirstIds(run[w].records, run[w].written)) \subseteq {o} \X RecordIds
      BY <3>1, FirstIdsType DEF RowsOf
    <3>6. cursor # NoCursor
      BY <3>2, CursorAssumption
    <3>. HIDE DEF cursor, o
    <3>7. Ledger!Honest(evidence', o, cursor)
      BY <3>3, <3>4, <3>6 DEF CursorSound, Covers, RowsOf, FirstIds, Ledger!Honest,
         Ledger!Covers, Ledger!RowsOf, Ledger!FirstIds
    <3>8. Ledger!Commit(o)
      BY <3>2, <3>3, <3>5, <3>7 DEF Ledger!Commit, Ledger!Cursor, Ledger!Versions,
         Cursor, Versions
    <3>. QED BY <3>1, <3>8 DEF o
  <2>2. ASSUME NEW w \in Importers, ReplaceTopography(w)
        PROVE  Ledger!Project
    BY <2>2 DEF ReplaceTopography, Ledger!Project
  <2>3. CASE Reset
    BY <2>3 DEF Reset, Ledger!Next, Ledger!Erase
  <2>4. ASSUME NEW p \in Paths, ReplaceSource(p)
        PROVE  Ledger!ReplaceFile(p)
    BY <2>4 DEF ReplaceSource, Ledger!ReplaceFile
  <2>5. ASSUME NEW p \in Paths, NEW v \in Versions, RestoreSource(p, v)
        PROVE  FALSE
    BY <2>5 DEF RestoreSource, Undisturbed
  <2>6. CASE UNCHANGED <<disk, evidence, checkpoints, topography>>
    BY <2>6 DEF Ledger!ledgerVars
  <2>. QED
    BY <2>1, <2>2, <2>3, <2>4, <2>5, <2>6 DEF Next, Step, Start, Preview, ReadCursor, OpenBox,
       ScanMessage, YieldBatch, EndOfBox, PutEvidence, BusyTimeout, ReadEvidence,
       RejectTopography, Interrupt, vars, Ledger!Next
<1>. QED
  BY <1>1, <1>2, TypeCorrect, ResumeInvariantHolds, ProvenanceIsClosed, PTL
  DEF Spec, KeepsLedger, Ledger!Spec
-----------------------------------------------------------------------------
(* When every import is a job of the one server, at most one is under way. *)
SoleServer == Importers = Supervised

OneAtATime == \A v, w \in Importers : Running(v) /\ Running(w) => v = w

(* Nothing is committed between the SELECT and the new map.                *)
ReadsLatest == \A w \in Importers : run[w].pc = "replace" => run[w].items = evidence

MapInvariant == OneAtATime /\ ReadsLatest /\ QuiescentMapCurrent

(* What a step of an import does to who is running.                        *)
LEMMA StepKeepsOthers ==
  ASSUME TypeOK, NEW w \in Importers, Step(w) \/ Interrupt(w)
  PROVE  Running(w) /\ \A v \in Importers \ {w} : run'[v] = run[v]
<1>1. Running(w)
  BY DEF Step, Preview, ReadCursor, OpenBox, ScanMessage, YieldBatch, EndOfBox,
     PutEvidence, CommitBatch, BusyTimeout, ReadEvidence, ReplaceTopography,
     RejectTopography, Interrupt, Running, InProgress
<1>2. \A v \in Importers \ {w} : run'[v] = run[v]
  BY DEF Step, Preview, ReadCursor, OpenBox, ScanMessage, YieldBatch, EndOfBox,
     PutEvidence, CommitBatch, BusyTimeout, ReadEvidence, ReplaceTopography,
     RejectTopography, Interrupt, TypeOK
<1>. QED BY <1>1, <1>2

(* The job manager's check keeps imports apart.                            *)
LEMMA OneAtATimeStep ==
  ASSUME SoleServer, TypeOK, OneAtATime, [Next]_vars
  PROVE  OneAtATime'
<1>1. ASSUME NEW w \in Importers, Step(w) \/ Interrupt(w)
      PROVE  OneAtATime'
  BY <1>1, StepKeepsOthers DEF OneAtATime, Running
<1>2. ASSUME NEW w \in Importers, NEW o \in Owners, NEW p \in Paths, Start(w, o, p)
      PROVE  OneAtATime'
  <2>1. \A v \in Importers : ~Running(v)
    BY <1>2 DEF Start, SoleServer
  <2>2. \A v \in Importers \ {w} : run'[v] = run[v]
    BY <1>2 DEF Start, TypeOK
  <2>. QED BY <2>1, <2>2 DEF OneAtATime, Running
<1>3. CASE Reset
  <2>1. \A w \in Importers : run'[w] = run[w] \/ run'[w] = NoRun("idle")
    BY <1>3 DEF Reset
  <2>2. NoRun("idle").pc \notin InProgress
    BY DEF NoRun, InProgress
  <2>. QED BY <2>1, <2>2 DEF OneAtATime, Running
<1>4. CASE UNCHANGED run
  BY <1>4 DEF OneAtATime, Running
<1>. QED
  BY <1>1, <1>2, <1>3, <1>4 DEF Next, ReplaceSource, RestoreSource, vars

(* An import's own steps leave the map current or are not its last.        *)
LEMMA MapInvariantOwnStep ==
  ASSUME TypeOK, MapInvariant, NEW w \in Importers, Step(w) \/ Interrupt(w)
  PROVE  ReadsLatest' /\ QuiescentMapCurrent'
<1>0. /\ \A v \in Importers : run[v] \in Run
      /\ Running(w) /\ \A v \in Importers \ {w} : run'[v] = run[v]
      /\ \A v \in Importers \ {w} : ~Running(v)
  BY StepKeepsOthers DEF MapInvariant, OneAtATime, TypeOK
<1>1. \A v \in Importers \ {w} : run'[v].pc # "replace"
  BY <1>0 DEF Running, InProgress
<1>2. CASE ReadEvidence(w)
  <2>1. run'[w].pc = "replace" /\ run'[w].items = evidence /\ evidence' = evidence
    BY <1>0, <1>2 DEF ReadEvidence, Run, TypeOK
  <2>. QED BY <1>1, <2>1 DEF ReadsLatest, QuiescentMapCurrent
<1>3. CASE ReplaceTopography(w)
  <2>1. /\ run[w].pc = "replace" /\ topography' = run[w].items /\ evidence' = evidence
        /\ run'[w].pc = "completed"
    BY <1>0, <1>3 DEF ReplaceTopography, Run, TypeOK
  <2>2. topography' = evidence'
    BY <2>1 DEF MapInvariant, ReadsLatest
  <2>. QED BY <1>1, <2>1, <2>2 DEF ReadsLatest, QuiescentMapCurrent
<1>4. CASE run'[w].pc \notin {"idle", "completed", "replace"}
  BY <1>1, <1>4 DEF ReadsLatest, QuiescentMapCurrent
<1>5. ASSUME ~ReadEvidence(w), ~ReplaceTopography(w)
      PROVE  run'[w].pc \notin {"idle", "completed", "replace"}
  <2>1. run[w].pc \in InProgress /\ run[w] \in Run
    BY <1>0 DEF Running
  <2>2. CASE Preview(w) \/ ReadCursor(w) \/ OpenBox(w)
    BY <2>1, <2>2 DEF Preview, ReadCursor, OpenBox, Run, TypeOK
  <2>3. CASE ScanMessage(w)
    BY <2>1, <2>3 DEF ScanMessage, Run, TypeOK
  <2>4. CASE YieldBatch(w) \/ EndOfBox(w)
    BY <2>1, <2>4 DEF YieldBatch, EndOfBox, Run, TypeOK
  <2>5. CASE PutEvidence(w)
    BY <2>1, <2>5 DEF PutEvidence, Run, TypeOK
  <2>6. CASE CommitBatch(w)
    BY <2>1, <2>6 DEF CommitBatch, Run, TypeOK
  <2>7. CASE BusyTimeout(w) \/ RejectTopography(w) \/ Interrupt(w)
    BY <2>7 DEF BusyTimeout, RejectTopography, Interrupt, NoRun, TypeOK
  <2>. QED BY <1>5, <2>2, <2>3, <2>4, <2>5, <2>6, <2>7 DEF Step
<1>. QED BY <1>2, <1>3, <1>4, <1>5

LEMMA MapInvariantStep ==
  ASSUME SoleServer, TypeOK, MapInvariant, [Next]_vars
  PROVE  MapInvariant'
<1>1. OneAtATime'
  BY OneAtATimeStep DEF MapInvariant
<1>2. ASSUME NEW w \in Importers, Step(w) \/ Interrupt(w)
      PROVE  ReadsLatest' /\ QuiescentMapCurrent'
  BY <1>2, MapInvariantOwnStep
<1>3. ASSUME NEW w \in Importers, NEW o \in Owners, NEW p \in Paths, Start(w, o, p)
      PROVE  ReadsLatest' /\ QuiescentMapCurrent'
  <2>1. run'[w].pc = "preview" /\ \A v \in Importers \ {w} : run'[v] = run[v]
    BY <1>3 DEF Start, NoRun, TypeOK
  <2>2. evidence' = evidence
    BY <1>3 DEF Start
  <2>. QED BY <2>1, <2>2 DEF MapInvariant, ReadsLatest, QuiescentMapCurrent
<1>4. CASE Reset
  <2>1. \A w \in Importers : run'[w].pc = "idle"
    BY <1>4, ImportersAssumption DEF Reset, SoleServer, NoRun
  <2>. QED BY <1>1, <1>4, <2>1 DEF Reset, MapInvariant, ReadsLatest, QuiescentMapCurrent
<1>5. CASE UNCHANGED <<evidence, topography, run>>
  BY <1>1, <1>5 DEF MapInvariant, ReadsLatest, QuiescentMapCurrent
<1>. QED
  BY <1>1, <1>2, <1>3, <1>4, <1>5 DEF MapInvariant, Next, ReplaceSource, RestoreSource, vars

(* Once every import is over and none failed since, the map shows all the  *)
(* evidence: whoever committed rows last also projected them, since the    *)
(* next import of the server waits for that.                               *)
THEOREM QuiescentMapIsCurrent ==
  ASSUME SoleServer
  PROVE  Spec => []QuiescentMapCurrent
<1>1. Init => MapInvariant
  <2>. SUFFICES ASSUME Init PROVE MapInvariant
    OBVIOUS
  <2>1. \A w \in Importers : run[w].pc = "idle"
    BY DEF Init, NoRun
  <2>. QED
    BY <2>1 DEF Init, MapInvariant, OneAtATime, Running, InProgress, ReadsLatest,
       QuiescentMapCurrent
<1>2. TypeOK /\ MapInvariant /\ [Next]_vars => MapInvariant'
  BY MapInvariantStep
<1>3. MapInvariant => QuiescentMapCurrent
  BY DEF MapInvariant
<1>. QED
  BY <1>1, <1>2, <1>3, TypeCorrect, PTL DEF Spec
-----------------------------------------------------------------------------
(* What keeps the stored position from moving back: an import that resumes *)
(* from it has it as its start, and its batch holds messages that come     *)
(* after the start.                                                        *)
BatchIsNew(r) ==
  /\ r.pc \in {"preview", "cursor", "open"} => r.pos = 0 /\ r.records = <<>>
  /\ r.pc = "ingest" => r.records # <<>>
  /\ r.pc \in {"scan", "ingest"} => r.records = <<>> \/ r.start <= r.pos

ResumesAtCursor(cursor, r) ==
  r.pc \in {"open", "scan", "ingest"} /\ cursor # NoCursor
    /\ cursor.path = r.path /\ cursor.version = r.fp =>
      cursor.index <= r.start \/ cursor.index <= r.pos

CursorInvariant ==
  /\ OneAtATime
  /\ \A w \in Importers : BatchIsNew(run[w]) /\ ResumesAtCursor(checkpoints[run[w].owner], run[w])

(* A frame that is not running promises nothing.                           *)
LEMMA NoRunIsNew ==
  ASSUME NEW how \in {"idle", "failed"}, NEW cursor
  PROVE  BatchIsNew(NoRun(how)) /\ ResumesAtCursor(cursor, NoRun(how))
BY DEF NoRun, BatchIsNew, ResumesAtCursor

LEMMA CursorInvariantOwnStep ==
  ASSUME TypeOK, CursorInvariant, NEW w \in Importers, Step(w)
  PROVE  BatchIsNew(run'[w]) /\ ResumesAtCursor(checkpoints'[run'[w].owner], run'[w])
<1>. DEFINE r == run[w]
            s == run'[w]
            cursor == checkpoints[r.owner]
            box == Content[r.path][r.box]
<1>0. /\ r \in Run /\ BatchIsNew(r) /\ ResumesAtCursor(cursor, r)
      /\ cursor \in Cursor \cup {NoCursor} /\ r.owner \in Owners
      /\ r.pos \in Nat /\ r.start \in Nat /\ r.records \in Seq(RecordIds)
      /\ checkpoints \in [Owners -> Cursor \cup {NoCursor}] /\ run \in [Importers -> Run]
  BY DEF TypeOK, Run, CursorInvariant
<1>1. CASE Preview(w) \/ OpenBox(w)
  <2>1. /\ \/ r.pc = "preview" /\ s.pc = "cursor"
           \/ r.pc = "open" /\ s.pc = "scan"
        /\ s.owner = r.owner /\ s.path = r.path /\ s.fp = r.fp /\ s.start = r.start
        /\ s.pos = r.pos /\ s.records = r.records /\ checkpoints' = checkpoints
    BY <1>0, <1>1 DEF Preview, OpenBox, Run
  <2>. HIDE DEF r, s
  <2>2. BatchIsNew(s) /\ ResumesAtCursor(cursor, s)
    BY <1>0, <2>1 DEF BatchIsNew, ResumesAtCursor
  <2>. QED BY <2>1, <2>2 DEF s
<1>2. CASE ReadCursor(w)
  <2>1. /\ r.pc = "cursor" /\ s.pc = "open"
        /\ s.owner = r.owner /\ s.path = r.path /\ s.fp = r.fp
        /\ s.start = CursorIndex(cursor, r.path, r.fp)
        /\ s.pos = r.pos /\ s.records = r.records /\ checkpoints' = checkpoints
    BY <1>0, <1>2 DEF ReadCursor, Run
  <2>. HIDE DEF r, s, cursor
  <2>2. BatchIsNew(s)
    BY <1>0, <2>1 DEF BatchIsNew
  <2>3. cursor # NoCursor => cursor.index \in Nat
    BY <1>0 DEF Cursor
  <2>4. ResumesAtCursor(cursor, s)
    BY <2>1, <2>3 DEF CursorIndex, ResumesAtCursor
  <2>. QED BY <2>1, <2>2, <2>4 DEF s, cursor
<1>3. CASE ScanMessage(w)
  <2>1. /\ r.pc = "scan" /\ s.pc = "scan"
        /\ s.owner = r.owner /\ s.path = r.path /\ s.fp = r.fp /\ s.start = r.start
        /\ s.pos = r.pos + 1 /\ checkpoints' = checkpoints
        /\ s.records = r.records \/ r.pos >= r.start
    BY <1>0, <1>3 DEF ScanMessage, Run
  <2>. HIDE DEF r, s, cursor
  <2>2. BatchIsNew(s)
    BY <1>0, <2>1 DEF BatchIsNew
  <2>3. cursor # NoCursor => cursor.index \in Nat
    BY <1>0 DEF Cursor
  <2>4. ResumesAtCursor(cursor, s)
    BY <1>0, <2>1, <2>3 DEF ResumesAtCursor
  <2>. QED BY <2>1, <2>2, <2>4 DEF s, cursor
<1>4. CASE YieldBatch(w)
  <2>1. /\ r.pc = "scan" /\ s.pc = "ingest"
        /\ s.owner = r.owner /\ s.path = r.path /\ s.fp = r.fp /\ s.start = r.start
        /\ s.pos = r.pos /\ s.records = r.records /\ checkpoints' = checkpoints
        /\ r.records # <<>>
    <3>1. r.records # <<>>
      BY <1>0, <1>4, BatchAssumption DEF YieldBatch
    <3>. QED BY <1>0, <1>4, <3>1 DEF YieldBatch, Run
  <2>. HIDE DEF r, s, cursor
  <2>2. BatchIsNew(s) /\ ResumesAtCursor(cursor, s)
    BY <1>0, <2>1 DEF BatchIsNew, ResumesAtCursor
  <2>. QED BY <2>1, <2>2 DEF s, cursor
<1>5. CASE PutEvidence(w)
  <2>1. /\ r.pc = "ingest" /\ s.pc = "ingest"
        /\ s.owner = r.owner /\ s.path = r.path /\ s.fp = r.fp /\ s.start = r.start
        /\ s.pos = r.pos /\ s.records = r.records /\ checkpoints' = checkpoints
    BY <1>0, <1>5 DEF PutEvidence, Run
  <2>. HIDE DEF r, s, cursor
  <2>2. BatchIsNew(s) /\ ResumesAtCursor(cursor, s)
    BY <1>0, <2>1 DEF BatchIsNew, ResumesAtCursor
  <2>. QED BY <2>1, <2>2 DEF s, cursor
<1>6. CASE CommitBatch(w)
  <2>1. /\ s.pc = "scan" /\ s.owner = r.owner /\ s.pos = r.pos /\ s.records = <<>>
        /\ checkpoints'[r.owner].index = r.pos
    BY <1>0, <1>6 DEF CommitBatch, Run
  <2>. QED BY <1>0, <2>1 DEF BatchIsNew, ResumesAtCursor
<1>7. CASE EndOfBox(w) \/ ReadEvidence(w) \/ ReplaceTopography(w)
  <2>1. s.pc \in {"project", "replace", "completed"}
    BY <1>0, <1>7 DEF EndOfBox, ReadEvidence, ReplaceTopography, Run
  <2>. QED BY <2>1 DEF BatchIsNew, ResumesAtCursor
<1>8. CASE BusyTimeout(w) \/ RejectTopography(w)
  <2>1. s = NoRun("failed")
    BY <1>0, <1>8 DEF BusyTimeout, RejectTopography
  <2>. QED BY <2>1, NoRunIsNew
<1>. QED
  BY <1>1, <1>2, <1>3, <1>4, <1>5, <1>6, <1>7, <1>8 DEF Step

LEMMA CursorInvariantStep ==
  ASSUME SoleServer, TypeOK, CursorInvariant, [Next]_vars
  PROVE  CursorInvariant'
<1>0. OneAtATime'
  BY OneAtATimeStep DEF CursorInvariant
<1>1. ASSUME NEW w \in Importers, Step(w) \/ Interrupt(w)
      PROVE  CursorInvariant'
  <2>1. /\ \A v \in Importers \ {w} : run'[v] = run[v]
        /\ \A v \in Importers \ {w} : ~Running(v)
    BY <1>1, StepKeepsOthers DEF CursorInvariant, OneAtATime
  <2>2. ASSUME NEW v \in Importers \ {w}
        PROVE  BatchIsNew(run'[v]) /\ ResumesAtCursor(checkpoints'[run'[v].owner], run'[v])
    BY <2>1 DEF Running, InProgress, BatchIsNew, ResumesAtCursor
  <2>3. CASE Step(w)
    BY <1>0, <2>2, <2>3, CursorInvariantOwnStep DEF CursorInvariant
  <2>4. CASE Interrupt(w)
    <3>1. run'[w] = NoRun("failed")
      BY <2>4 DEF Interrupt, TypeOK
    <3>. QED BY <1>0, <2>2, <3>1, NoRunIsNew DEF CursorInvariant
  <2>. QED BY <1>1, <2>3, <2>4
<1>2. ASSUME NEW w \in Importers, NEW o \in Owners, NEW p \in Paths, Start(w, o, p)
      PROVE  CursorInvariant'
  <2>1. /\ run'[w].pc = "preview" /\ run'[w].pos = 0 /\ run'[w].records = <<>>
        /\ \A v \in Importers \ {w} : run'[v] = run[v]
        /\ checkpoints' = checkpoints
    BY <1>2 DEF Start, NoRun, TypeOK
  <2>2. BatchIsNew(run'[w]) /\ ResumesAtCursor(checkpoints'[run'[w].owner], run'[w])
    BY <2>1 DEF BatchIsNew, ResumesAtCursor
  <2>. QED BY <1>0, <2>1, <2>2 DEF CursorInvariant
<1>3. CASE Reset
  <2>1. \A w \in Importers : run'[w] = NoRun("idle")
    BY <1>3, ImportersAssumption DEF Reset, SoleServer
  <2>. QED BY <1>0, <2>1, NoRunIsNew DEF CursorInvariant
<1>4. CASE UNCHANGED <<checkpoints, run>>
  BY <1>0, <1>4 DEF CursorInvariant
<1>. QED
  BY <1>1, <1>2, <1>3, <1>4 DEF Next, ReplaceSource, RestoreSource, vars

(* The step property behind CheckpointNeverRewinds.                        *)
Advances(o) ==
  LET old == checkpoints[o]
      new == checkpoints'[o]
  IN  old # NoCursor /\ new # NoCursor /\ old.path = new.path
        /\ old.version = new.version => old.index <= new.index

LEMMA CommitAdvances ==
  ASSUME TypeOK, CursorInvariant, NEW w \in Importers, CommitBatch(w), NEW o \in Owners
  PROVE  Advances(o)
<1>. DEFINE r == run[w]
            old == checkpoints[o]
            new == checkpoints'[o]
<1>0. /\ r \in Run /\ r.pos \in Nat /\ r.start \in Nat /\ r.owner \in Owners
      /\ checkpoints \in [Owners -> Cursor \cup {NoCursor}]
  BY DEF TypeOK, Run
<1>1. old # NoCursor => old.index \in Nat
  BY <1>0 DEF Cursor
<1>2. CASE o = r.owner
  <2>1. /\ r.pc = "ingest" /\ new = [path |-> r.path, version |-> r.fp, index |-> r.pos]
    BY <1>0, <1>2 DEF CommitBatch
  <2>2. r.start <= r.pos
    BY <2>1 DEF CursorInvariant, BatchIsNew
  <2>3. old # NoCursor /\ old.path = r.path /\ old.version = r.fp =>
          old.index <= r.start \/ old.index <= r.pos
    BY <1>2, <2>1 DEF CursorInvariant, ResumesAtCursor
  <2>. HIDE DEF r, old
  <2>. QED BY <1>0, <1>1, <2>1, <2>2, <2>3 DEF Advances, old
<1>3. CASE o # r.owner
  <2>1. new = old
    BY <1>0, <1>3 DEF CommitBatch
  <2>. QED BY <1>1, <2>1 DEF Advances
<1>. QED BY <1>2, <1>3

(* A stored resume position never moves back within one state of a file:   *)
(* with one import at a time, its batches start at the stored position.    *)
THEOREM CheckpointsAdvance ==
  ASSUME SoleServer
  PROVE  Spec => CheckpointNeverRewinds
<1>1. Init => CursorInvariant
  <2>. SUFFICES ASSUME Init PROVE CursorInvariant
    OBVIOUS
  <2>1. \A w \in Importers : run[w] = NoRun("idle")
    BY DEF Init
  <2>2. \A w \in Importers : run[w].pc = "idle"
    BY DEF Init, NoRun
  <2>. QED
    BY <2>1, <2>2, NoRunIsNew DEF CursorInvariant, OneAtATime, Running, InProgress
<1>2. TypeOK /\ CursorInvariant /\ [Next]_vars => CursorInvariant'
  BY CursorInvariantStep
<1>3. TypeOK /\ CursorInvariant /\ [Next]_vars
        => [\A o \in Owners :
              LET old == checkpoints[o]
                  new == checkpoints'[o]
              IN  old # NoCursor /\ new # NoCursor /\ old.path = new.path
                    /\ old.version = new.version => old.index <= new.index]_vars
  <2>. SUFFICES ASSUME TypeOK, CursorInvariant, [Next]_vars
                PROVE  \A o \in Owners : Advances(o)
    BY DEF Advances
  <2>1. ASSUME NEW w \in Importers, CommitBatch(w)
        PROVE  \A o \in Owners : Advances(o)
    BY <2>1, CommitAdvances
  <2>2. CASE Reset
    BY <2>2 DEF Reset, Advances
  <2>3. CASE checkpoints' = checkpoints
    <3>1. \A o \in Owners : checkpoints[o] # NoCursor => checkpoints[o].index \in Nat
      BY DEF TypeOK, Cursor
    <3>. QED BY <2>3, <3>1 DEF Advances
  <2>. QED
    BY <2>1, <2>2, <2>3 DEF Next, Step, Start, Preview, ReadCursor, OpenBox, ScanMessage,
       YieldBatch, EndOfBox, PutEvidence, BusyTimeout, ReadEvidence, ReplaceTopography,
       RejectTopography, Interrupt, ReplaceSource, RestoreSource, vars
<1>. QED
  BY <1>1, <1>2, <1>3, TypeCorrect, PTL DEF Spec, CheckpointNeverRewinds
=============================================================================
