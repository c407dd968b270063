------------------------- MODULE EvidenceLedgerProofs -------------------------
(***************************************************************************)
(* The ledger alone keeps the vault's two promises, so whatever implements *)
(* it keeps them, for every set of accounts, files and messages.           *)
(***************************************************************************)
EXTENDS EvidenceLedger, TLAPS

LedgerTyped ==
  /\ disk \in [Paths -> Versions]
  /\ checkpoints \in [Owners -> Cursor \cup {NoCursor}]

(* Every stored cursor is honest about the rows that are committed.        *)
AllHonest ==
  \A o \in Owners : checkpoints[o] # NoCursor => Honest(evidence, o, checkpoints[o])

LedgerInvariant == LedgerTyped /\ AllHonest /\ ProvenanceClosed

LEMMA CommitKeeps ==
  ASSUME LedgerInvariant, NEW o \in Owners, Commit(o)
  PROVE  LedgerInvariant'
<1>1. PICK cursor \in Cursor : /\ checkpoints' = [checkpoints EXCEPT ![o] = cursor]
                               /\ Honest(evidence', o, cursor)
  BY DEF Commit
<1>2. /\ disk' = disk /\ topography' = topography /\ evidence \subseteq evidence'
      /\ checkpoints'[o] = cursor /\ \A q \in Owners \ {o} : checkpoints'[q] = checkpoints[q]
  BY <1>1 DEF Commit, LedgerInvariant, LedgerTyped
<1>3. LedgerTyped'
  BY <1>1, <1>2 DEF LedgerInvariant, LedgerTyped
<1>4. ASSUME NEW q \in Owners, checkpoints'[q] # NoCursor
      PROVE  Honest(evidence, q, checkpoints[q])' 
  <2>1. CASE q = o
    BY <1>1, <1>2, <2>1 DEF Honest
  <2>2. CASE q # o
    BY <1>2, <1>4, <2>2 DEF LedgerInvariant, AllHonest, Honest, Covers
  <2>. QED BY <2>1, <2>2
<1>5. ProvenanceClosed'
  BY <1>2 DEF LedgerInvariant, ProvenanceClosed
<1>. QED BY <1>3, <1>4, <1>5 DEF LedgerInvariant, AllHonest

(* A newer file makes the cursors into it worthless, not dishonest.        *)
LEMMA ReplaceFileKeeps ==
  ASSUME LedgerInvariant, NEW p \in Paths, ReplaceFile(p)
  PROVE  LedgerInvariant'
<1>1. /\ evidence' = evidence /\ topography' = topography /\ checkpoints' = checkpoints
      /\ disk \in [Paths -> Versions] /\ disk' = [disk EXCEPT ![p] = @ + 1]
      /\ disk[p] < MaxVersion /\ \A q \in Paths : disk[q] \in Nat
  BY SourcesAssumption DEF ReplaceFile, LedgerInvariant, LedgerTyped, Versions
<1>2. disk[p] + 1 \in Versions
  BY <1>1, SourcesAssumption DEF Versions
<1>3. LedgerTyped'
  BY <1>1, <1>2 DEF LedgerInvariant, LedgerTyped
<1>4. ASSUME NEW o \in Owners, checkpoints[o] # NoCursor
      PROVE  Honest(evidence, o, checkpoints[o])'
  <2>. DEFINE cursor == checkpoints[o]
  <2>1. Honest(evidence, o, cursor) /\ cursor \in Cursor
    BY <1>4 DEF LedgerInvariant, AllHonest, LedgerTyped
  <2>2. cursor.path \in Paths /\ cursor.version \in Nat
    BY <2>1, SourcesAssumption DEF Cursor, Versions
  <2>3. disk'[cursor.path] = disk[cursor.path] \/ disk'[cursor.path] = disk[cursor.path] + 1
    BY <1>1, <2>2
  <2>4. disk[cursor.path] \in Nat
    BY <1>1, <2>2
  <2>. HIDE DEF cursor
  <2>5. cursor.version <= disk[cursor.path]
    BY <2>1 DEF Honest
  <2>6. /\ cursor.version <= disk'[cursor.path]
        /\ cursor.version = disk'[cursor.path] => cursor.version = disk[cursor.path]
    BY <2>2, <2>3, <2>4, <2>5
  <2>. QED BY <1>1, <2>1, <2>6 DEF Honest, cursor
<1>. QED BY <1>1, <1>3, <1>4 DEF LedgerInvariant, AllHonest, ProvenanceClosed

(* What the ledger's steps allow keeps cursors honest and maps closed.     *)
THEOREM LedgerInvariantHolds == Spec => []LedgerInvariant
<1>1. Init => LedgerInvariant
  BY SourcesAssumption
  DEF Init, LedgerInvariant, LedgerTyped, AllHonest, ProvenanceClosed, Versions
<1>2. LedgerInvariant /\ [Next]_ledgerVars => LedgerInvariant'
  <2>. SUFFICES ASSUME LedgerInvariant, [Next]_ledgerVars PROVE LedgerInvariant'
    OBVIOUS
  <2>1. ASSUME NEW o \in Owners, Commit(o) PROVE LedgerInvariant'
    BY <2>1, CommitKeeps
  <2>2. ASSUME NEW p \in Paths, ReplaceFile(p) PROVE LedgerInvariant'
    BY <2>2, ReplaceFileKeeps
  <2>3. CASE Project
    BY <2>3 DEF Project, LedgerInvariant, LedgerTyped, AllHonest, ProvenanceClosed, Honest
  <2>4. CASE Erase
    BY <2>4 DEF Erase, LedgerInvariant, LedgerTyped, AllHonest, ProvenanceClosed
  <2>5. CASE UNCHANGED ledgerVars
    BY <2>5 DEF ledgerVars, LedgerInvariant, LedgerTyped, AllHonest, ProvenanceClosed, Honest
  <2>. QED BY <2>1, <2>2, <2>3, <2>4, <2>5 DEF Next
<1>. QED BY <1>1, <1>2, PTL DEF Spec

(* A re-import skips no message that is not evidence, whoever keeps the    *)
(* ledger and in whatever steps.                                           *)
THEOREM LedgerResumesSafely == Spec => []ResumeSafe
<1>1. LedgerInvariant => ResumeSafe
  <2>. SUFFICES ASSUME LedgerInvariant, NEW o \in Owners, NEW p \in Paths
                PROVE  Covers(evidence, o, p, disk[p], CursorIndex(checkpoints[o], p, disk[p]))
    BY DEF ResumeSafe
  <2>1. disk[p] \in Versions
    BY DEF LedgerInvariant, LedgerTyped
  <2>2. CASE /\ checkpoints[o] # NoCursor /\ checkpoints[o].path = p
             /\ checkpoints[o].version = disk[p]
    BY <2>2 DEF LedgerInvariant, AllHonest, Honest, CursorIndex
  <2>3. CASE ~(/\ checkpoints[o] # NoCursor /\ checkpoints[o].path = p
               /\ checkpoints[o].version = disk[p])
    <3>1. CursorIndex(checkpoints[o], p, disk[p]) = 0
      BY <2>3 DEF CursorIndex
    <3>2. \A k \in DOMAIN Content[p][disk[p]] : ~(k <= 0)
      BY <2>1, SourcesAssumption
    <3>. QED BY <3>1, <3>2 DEF Covers, RowsOf, FirstIds
  <2>. QED BY <2>2, <2>3
<1>. QED BY <1>1, LedgerInvariantHolds, PTL

(* The map cites only rows that exist.                                     *)
THEOREM LedgerIsClosed == Spec => []ProvenanceClosed
<1>1. LedgerInvariant => ProvenanceClosed
  BY DEF LedgerInvariant
<1>. QED BY <1>1, LedgerInvariantHolds, PTL
=============================================================================
