--------------------------- MODULE TopographyProofs ---------------------------
(***************************************************************************)
(* What the projection computes, for every list of evidence and every set  *)
(* of owner addresses.                                                     *)
(***************************************************************************)
EXTENDS Topography, FiniteSetTheorems, WellFoundedInduction, TLAPS

(* cited tells which elements of ev cite n, if element k contributes the   *)
(* objects at[k].                                                          *)
Accumulated(cited, at, ev) ==
  /\ DOMAIN cited = UNION {at[k] : k \in DOMAIN ev}
  /\ \A n \in DOMAIN cited : cited[n] = {ev[k] : k \in {x \in DOMAIN ev : n \in at[x]}}

(* Touching some objects for element j accumulates what j contributes now. *)
LEMMA TouchAccumulates ==
  ASSUME NEW old, NEW new, NEW at, NEW later, NEW ev, NEW j \in DOMAIN ev, NEW touched,
         Accumulated(old, at, ev),
         \A k \in DOMAIN ev : k # j => later[k] = at[k],
         later[j] = at[j] \cup touched,
         DOMAIN new = DOMAIN old \cup touched,
         \A n \in DOMAIN new :
           new[n] = (IF n \in DOMAIN old THEN old[n] ELSE {})
                      \cup (IF n \in touched THEN {ev[j]} ELSE {})
  PROVE  Accumulated(new, later, ev)
<1>1. DOMAIN new = UNION {later[k] : k \in DOMAIN ev}
  <2>1. ASSUME NEW n \in DOMAIN new PROVE n \in UNION {later[k] : k \in DOMAIN ev}
    <3>1. CASE n \in touched
      BY <3>1
    <3>2. CASE n \in DOMAIN old
      <4>1. PICK k \in DOMAIN ev : n \in at[k]
        BY <3>2 DEF Accumulated
      <4>. QED BY <4>1
    <3>. QED BY <3>1, <3>2
  <2>2. ASSUME NEW k \in DOMAIN ev, NEW n \in later[k] PROVE n \in DOMAIN new
    <3>1. n \in at[k] \/ n \in touched
      BY <2>2
    <3>2. n \in at[k] => n \in DOMAIN old
      BY DEF Accumulated
    <3>. QED BY <3>1, <3>2
  <2>. QED BY <2>1, <2>2
<1>2. ASSUME NEW n \in DOMAIN new
      PROVE  new[n] = {ev[k] : k \in {x \in DOMAIN ev : n \in later[x]}}
  <2>1. (IF n \in DOMAIN old THEN old[n] ELSE {})
          = {ev[k] : k \in {x \in DOMAIN ev : n \in at[x]}}
    <3>1. CASE n \in DOMAIN old
      BY <3>1 DEF Accumulated
    <3>2. CASE n \notin DOMAIN old
      <4>1. \A x \in DOMAIN ev : n \notin at[x]
        BY <3>2 DEF Accumulated
      <4>. QED BY <3>2, <4>1
    <3>. QED BY <3>1, <3>2
  <2>2. CASE n \in touched
    <3>1. {x \in DOMAIN ev : n \in later[x]} = {x \in DOMAIN ev : n \in at[x]} \cup {j}
      BY <2>2
    <3>. QED BY <2>1, <2>2, <3>1
  <2>3. CASE n \notin touched
    <3>1. {x \in DOMAIN ev : n \in later[x]} = {x \in DOMAIN ev : n \in at[x]}
      BY <2>3
    <3>. QED BY <2>1, <2>3, <3>1
  <2>. QED BY <2>2, <2>3
<1>. QED BY <1>1, <1>2 DEF Accumulated
-----------------------------------------------------------------------------
(* One participant more.                                                   *)
LEMMA AmongNext ==
  ASSUME NEW i \in Identities, NEW t \in 1 .. Len(Participants[i])
  PROVE  Among(i, t + 1) = Among(i, t) \cup {Participants[i][t][1]}
<1>1. /\ Len(Participants[i]) \in Nat /\ DOMAIN Participants[i] = 1 .. Len(Participants[i])
      /\ t \in DOMAIN Participants[i] /\ t \in Nat
  BY TopographyAssumption
<1>2. {j \in DOMAIN Participants[i] : j < t + 1} = {j \in DOMAIN Participants[i] : j < t} \cup {t}
  <2>1. ASSUME NEW j \in 1 .. Len(Participants[i]) PROVE j < t + 1 <=> j < t \/ j = t
    BY <1>1
  <2>. QED BY <1>1, <2>1
<1>. QED BY <1>2 DEF Among

LEMMA AmongNone ==
  ASSUME NEW i \in Identities
  PROVE  Among(i, 1) = {}
BY TopographyAssumption DEF Among

(* The parts of the state that a step of the projection may read.          *)
LEMMA Reading ==
  ASSUME TypeOK, item <= Len(evidence)
  PROVE  /\ evidence \in Seq(Identities) /\ item \in DOMAIN evidence /\ item \in Nat
         /\ Current \in Identities /\ turn \in Nat
         /\ Participants[Current] \in Seq(Addresses \X Texts)
         /\ Len(Participants[Current]) \in Nat
         /\ turn \in 1 .. Len(Participants[Current]) =>
              Address \in Addresses /\ Name \in Texts /\ Domain[Address] \in Texts
<1>1. evidence \in Seq(Identities) /\ item \in DOMAIN evidence /\ item \in Nat
  BY TopographyAssumption DEF TypeOK, PlaceTyped
<1>2. Current \in Identities
  BY <1>1 DEF Current
<1>3. Participants[Current] \in Seq(Addresses \X Texts)
  BY <1>2, TopographyAssumption
<1>4. ASSUME turn \in 1 .. Len(Participants[Current])
      PROVE  Address \in Addresses /\ Name \in Texts /\ Domain[Address] \in Texts
  <2>1. Participants[Current][turn] \in Addresses \X Texts
    BY <1>3, <1>4
  <2>2. Address \in Addresses /\ Name \in Texts
    BY <2>1 DEF Address, Name
  <2>. QED BY <2>2, TopographyAssumption
<1>5. turn \in Nat /\ Len(Participants[Current]) \in Nat
  BY <1>3, <1>1 DEF TypeOK, PlaceTyped
<1>. QED BY <1>1, <1>2, <1>3, <1>4, <1>5
-----------------------------------------------------------------------------
(* Touching keeps the accumulators typed.                                  *)
LEMMA TouchTyped ==
  ASSUME NodesTyped, Current \in Identities, NEW label,
         \A n \in DOMAIN label : label[n] \in Texts \cup {You}, TouchNodes(label)
  PROVE  NodesTyped'
<1>. SUFFICES ASSUME NEW n \in DOMAIN nodes'
              PROVE  /\ nodes'[n].labels \in Seq(Texts \cup {You})
                     /\ nodes'[n].evidence \subseteq Identities
  BY DEF NodesTyped
<1>. DEFINE old == IF n \in DOMAIN nodes THEN nodes[n] ELSE [labels |-> <<>>, evidence |-> {}]
<1>1. old.labels \in Seq(Texts \cup {You}) /\ old.evidence \subseteq Identities
  BY DEF NodesTyped
<1>2. n \in DOMAIN nodes \cup DOMAIN label
  BY DEF TouchNodes
<1>3. nodes'[n] = IF n \in DOMAIN label
                  THEN [labels |-> Append(old.labels, label[n]),
                        evidence |-> old.evidence \cup {Current}]
                  ELSE old
  BY <1>2 DEF TouchNodes
<1>. HIDE DEF old
<1>. QED BY <1>1, <1>3

LEMMA TouchEdgesTyped ==
  ASSUME EdgesTyped, Current \in Identities, NEW touched, TouchEdges(touched)
  PROVE  EdgesTyped'
BY DEF EdgesTyped, TouchEdges
-----------------------------------------------------------------------------
(* A step stays inside the list and the message it walks through.          *)
LEMMA PlaceStep ==
  ASSUME TypeOK, Next
  PROVE  PlaceTyped'
<1>. DEFINE len == Len(Participants[Current])
<1>1. item <= Len(evidence) /\ evidence' = evidence /\ owners' = owners
  BY DEF Next, SkipMessage, BeginMessage, EndMessage, SkipRepeated, TakeOwner, TakePerson,
         AtMessage, AtParticipant
<1>2. /\ evidence \in Seq(Identities) /\ Len(evidence) \in Nat /\ item \in Nat \ {0}
      /\ turn \in Nat /\ len \in Nat /\ seen \subseteq Addresses
      /\ turn \in 1 .. len => Address \in Addresses
  BY <1>1, Reading DEF TypeOK, PlaceTyped
<1>3. CASE item' = item /\ turn' \in 1 .. len + 1 /\ seen' \subseteq Addresses
  <2>1. Current' = Current
    BY <1>1, <1>3 DEF Current
  <2>. QED BY <1>1, <1>2, <1>3, <2>1 DEF TypeOK, PlaceTyped
<1>4. CASE item' = item + 1 /\ turn' = 0 /\ seen' = seen
  <2>1. item' <= Len(evidence) => Len(Participants[Current']) \in Nat
    <3>1. item' <= Len(evidence) => evidence[item'] \in Identities
      BY <1>2, <1>4
    <3>. QED BY <3>1, <1>1, TopographyAssumption DEF Current
  <2>2. item' \in 1 .. Len(evidence) + 1
    BY <1>1, <1>2, <1>4
  <2>. QED BY <1>1, <1>2, <1>4, <2>1, <2>2 DEF TypeOK, PlaceTyped
<1>5. CASE SkipMessage
  BY <1>4, <1>5 DEF SkipMessage, AtMessage
<1>6. CASE BeginMessage
  BY <1>2, <1>3, <1>6 DEF BeginMessage
<1>7. CASE EndMessage
  BY <1>4, <1>7 DEF EndMessage
<1>8. CASE SkipRepeated
  BY <1>2, <1>3, <1>8 DEF SkipRepeated, AtParticipant
<1>9. CASE TakeOwner
  BY <1>2, <1>3, <1>9 DEF TakeOwner, AtParticipant
<1>10. CASE TakePerson
  BY <1>2, <1>3, <1>10 DEF TakePerson, AtParticipant
<1>. QED BY <1>5, <1>6, <1>7, <1>8, <1>9, <1>10 DEF Next

(* Every variable keeps its type; the projector's positions stay inside    *)
(* the list and the message that build_topography's loops walk through.    *)
THEOREM TypeCorrect == Spec => []TypeOK
<1>1. Init => TypeOK
  BY TopographyAssumption DEF Init, TypeOK, PlaceTyped, NodesTyped, EdgesTyped
<1>2. TypeOK /\ [Next]_vars => TypeOK'
  <2>. SUFFICES ASSUME TypeOK, [Next]_vars PROVE TypeOK'
    OBVIOUS
  <2>1. CASE UNCHANGED vars
    BY <2>1 DEF vars, TypeOK, PlaceTyped, NodesTyped, EdgesTyped, Current
  <2>2. CASE Next
    <3>1. item <= Len(evidence)
      BY <2>2 DEF Next, SkipMessage, BeginMessage, EndMessage, SkipRepeated, TakeOwner,
                  TakePerson, AtMessage, AtParticipant
    <3>2. Current \in Identities /\ NodesTyped /\ EdgesTyped
      BY <3>1, Reading DEF TypeOK
    <3>3. (nodes' = nodes => NodesTyped') /\ (edges' = edges => EdgesTyped')
      BY <3>2 DEF NodesTyped, EdgesTyped
    <3>4. CASE SkipMessage \/ EndMessage \/ SkipRepeated
      BY <2>2, <3>3, <3>4, PlaceStep DEF TypeOK, SkipMessage, EndMessage, SkipRepeated
    <3>5. CASE BeginMessage
      <4>. DEFINE label == [n \in {Self, Thread(Current)} |->
                              IF n = Self THEN You ELSE Subject[Current]]
      <4>1. \A n \in DOMAIN label : label[n] \in Texts \cup {You}
        BY <3>2, TopographyAssumption
      <4>2. TouchNodes(label) /\ edges' = edges
        BY <3>5 DEF BeginMessage
      <4>. HIDE DEF label
      <4>3. NodesTyped'
        BY <3>2, <4>1, <4>2, TouchTyped
      <4>. QED BY <2>2, <3>3, <4>2, <4>3, PlaceStep DEF TypeOK
    <3>6. CASE TakeOwner
      <4>1. nodes' = nodes /\ EdgesTyped'
        BY <3>2, <3>6, TouchEdgesTyped DEF TakeOwner
      <4>. QED BY <2>2, <3>3, <4>1, PlaceStep DEF TypeOK
    <3>7. CASE TakePerson
      <4>. DEFINE touched == {Person(Address)} \cup
                    (IF IsOrganization(Address) THEN {Organization(Domain[Address])} ELSE {})
                  label == [n \in touched |->
                              IF n = Person(Address) THEN Name ELSE Domain[Address]]
      <4>1. Name \in Texts /\ Domain[Address] \in Texts
        BY <3>1, <3>7, Reading DEF TakePerson, AtParticipant
      <4>2. \A n \in DOMAIN label : label[n] \in Texts \cup {You}
        BY <4>1
      <4>3. TouchNodes(label)
        BY <3>7 DEF TakePerson
      <4>4. EdgesTyped'
        BY <3>2, <3>7, TouchEdgesTyped DEF TakePerson
      <4>. HIDE DEF label
      <4>5. NodesTyped'
        BY <3>2, <4>2, <4>3, TouchTyped
      <4>. QED BY <2>2, <4>4, <4>5, PlaceStep DEF TypeOK
    <3>. QED BY <2>2, <3>4, <3>5, <3>6, <3>7 DEF Next
  <2>. QED BY <2>1, <2>2
<1>. QED BY <1>1, <1>2, PTL DEF Spec
-----------------------------------------------------------------------------
(* A message contributes the same as long as it has been read as far.      *)
LEMMA SameReach ==
  ASSUME owners' = owners, evidence' = evidence, NEW k, Reached(k)' = Reached(k)
  PROVE  NodesAt(k)' = NodesAt(k) /\ EdgesAt(k)' = EdgesAt(k)
BY DEF NodesAt, EdgesAt, NodesUpTo, EdgesUpTo, PeopleAmong

(* While one message is read, the others do not move.                      *)
LEMMA OthersStay ==
  ASSUME owners' = owners, evidence' = evidence, item' = item, NEW k, k # item
  PROVE  NodesAt(k)' = NodesAt(k) /\ EdgesAt(k)' = EdgesAt(k)
<1>1. Reached(k)' = Reached(k)
  BY DEF Reached
<1>. QED BY <1>1, SameReach

LEMMA NodesKept ==
  ASSUME NodesSoFar, nodes' = nodes, evidence' = evidence,
         \A k \in DOMAIN evidence : NodesAt(k)' = NodesAt(k)
  PROVE  NodesSoFar'
BY DEF NodesSoFar, Citing

LEMMA EdgesKept ==
  ASSUME EdgesSoFar, edges' = edges, evidence' = evidence,
         \A k \in DOMAIN evidence : EdgesAt(k)' = EdgesAt(k)
  PROVE  EdgesSoFar'
BY DEF EdgesSoFar, Citing

(* What message j adds to its contribution is what the step touches.       *)
LEMMA NodesGrow ==
  ASSUME NodesSoFar, evidence' = evidence, NEW j \in DOMAIN evidence, j = item,
         NEW label, TouchNodes(label),
         \A k \in DOMAIN evidence : k # j => NodesAt(k)' = NodesAt(k),
         NodesAt(j)' = NodesAt(j) \cup DOMAIN label
  PROVE  NodesSoFar'
<1>. DEFINE old == [n \in DOMAIN nodes |-> nodes[n].evidence]
            new == [n \in DOMAIN nodes' |-> nodes'[n].evidence]
            at == [k \in DOMAIN evidence |-> NodesAt(k)]
            later == [k \in DOMAIN evidence |-> NodesAt(k)']
            touched == DOMAIN label
<1>1. Accumulated(old, at, evidence)
  BY DEF NodesSoFar, Citing, Accumulated
<1>2. DOMAIN new = DOMAIN old \cup touched
  BY DEF TouchNodes
<1>3. ASSUME NEW n \in DOMAIN new
      PROVE  new[n] = (IF n \in DOMAIN old THEN old[n] ELSE {})
                        \cup (IF n \in touched THEN {evidence[j]} ELSE {})
  BY DEF TouchNodes, Current
<1>4. /\ \A k \in DOMAIN evidence : k # j => later[k] = at[k]
      /\ later[j] = at[j] \cup touched
  OBVIOUS
<1>5. Accumulated(new, later, evidence)
  <2>. HIDE DEF old, new, at, later, touched
  <2>. QED BY <1>1, <1>2, <1>3, <1>4, TouchAccumulates
<1>6. DOMAIN nodes' = UNION {NodesAt(k)' : k \in DOMAIN evidence}
  BY <1>5 DEF Accumulated
<1>7. ASSUME NEW n \in DOMAIN nodes'
      PROVE  nodes'[n].evidence
               = {evidence[k] : k \in {x \in DOMAIN evidence : n \in NodesAt(x)'}}
  <2>1. {x \in DOMAIN evidence : n \in later[x]} = {x \in DOMAIN evidence : n \in NodesAt(x)'}
    OBVIOUS
  <2>2. new[n] = {evidence[k] : k \in {x \in DOMAIN evidence : n \in later[x]}}
    BY <1>5 DEF Accumulated
  <2>. QED BY <2>1, <2>2
<1>. QED BY <1>6, <1>7 DEF NodesSoFar, Citing

LEMMA EdgesGrow ==
  ASSUME EdgesSoFar, evidence' = evidence, NEW j \in DOMAIN evidence, j = item,
         NEW touched, TouchEdges(touched),
         \A k \in DOMAIN evidence : k # j => EdgesAt(k)' = EdgesAt(k),
         EdgesAt(j)' = EdgesAt(j) \cup touched
  PROVE  EdgesSoFar'
<1>. DEFINE old == edges
            new == edges'
            at == [k \in DOMAIN evidence |-> EdgesAt(k)]
            later == [k \in DOMAIN evidence |-> EdgesAt(k)']
<1>1. Accumulated(old, at, evidence)
  BY DEF EdgesSoFar, Citing, Accumulated
<1>2. DOMAIN new = DOMAIN old \cup touched
  BY DEF TouchEdges
<1>3. ASSUME NEW e \in DOMAIN new
      PROVE  new[e] = (IF e \in DOMAIN old THEN old[e] ELSE {})
                        \cup (IF e \in touched THEN {evidence[j]} ELSE {})
  BY DEF TouchEdges, Current
<1>4. /\ \A k \in DOMAIN evidence : k # j => later[k] = at[k]
      /\ later[j] = at[j] \cup touched
  OBVIOUS
<1>5. Accumulated(new, later, evidence)
  <2>. HIDE DEF old, new, at, later
  <2>. QED BY <1>1, <1>2, <1>3, <1>4, TouchAccumulates
<1>. QED BY <1>5 DEF EdgesSoFar, Citing, Accumulated
-----------------------------------------------------------------------------
LEMMA ProjectionStep ==
  ASSUME TypeOK, ProjectionInvariant, Next
  PROVE  ProjectionInvariant'
<1>. DEFINE len == Len(Participants[Current])
<1>0. item <= Len(evidence) /\ evidence' = evidence /\ owners' = owners
  BY DEF Next, SkipMessage, BeginMessage, EndMessage, SkipRepeated, TakeOwner, TakePerson,
         AtMessage, AtParticipant
<1>1. /\ item \in DOMAIN evidence /\ item \in Nat /\ evidence \in Seq(Identities)
      /\ Current \in Identities /\ turn \in Nat /\ len \in Nat /\ Current = evidence[item]
  BY <1>0, Reading DEF Current
<1>2. SeenSoFar /\ NodesSoFar /\ EdgesSoFar
  BY DEF ProjectionInvariant
<1>3. ASSUME item' = item
      PROVE  /\ Current' = Current
             /\ NodesAt(item) = NodesUpTo(Current, turn) /\ EdgesAt(item) = EdgesUpTo(Current, turn)
             /\ \A k \in DOMAIN evidence : k # item => /\ NodesAt(k)' = NodesAt(k)
                                                     /\ EdgesAt(k)' = EdgesAt(k)
  BY <1>0, <1>1, <1>3, OthersStay DEF Current, NodesAt, EdgesAt, Reached
<1>4. CASE SkipMessage \/ EndMessage
  <2>1. /\ item' = item + 1 /\ turn' = 0 /\ turn = Whole(evidence[item])
        /\ nodes' = nodes /\ edges' = edges
    BY <1>1, <1>4 DEF SkipMessage, EndMessage, AtMessage, Whole
  <2>2. ASSUME NEW k \in DOMAIN evidence PROVE Reached(k)' = Reached(k)
    <3>1. k \in Int
      BY <1>1
    <3>2. CASE k < item
      BY <1>0, <1>1, <2>1, <3>1, <3>2 DEF Reached
    <3>3. CASE k = item
      BY <1>0, <1>1, <2>1, <3>1, <3>3 DEF Reached
    <3>4. CASE k > item
      BY <1>0, <1>1, <2>1, <3>1, <3>4 DEF Reached
    <3>. QED BY <1>1, <3>1, <3>2, <3>3, <3>4
  <2>3. \A k \in DOMAIN evidence : NodesAt(k)' = NodesAt(k) /\ EdgesAt(k)' = EdgesAt(k)
    BY <1>0, <2>2, SameReach
  <2>4. NodesSoFar' /\ EdgesSoFar'
    BY <1>0, <1>2, <2>1, <2>3, NodesKept, EdgesKept
  <2>. QED BY <2>1, <2>4 DEF ProjectionInvariant, SeenSoFar
<1>5. CASE BeginMessage
  <2>. DEFINE label == [n \in {Self, Thread(Current)} |->
                          IF n = Self THEN You ELSE Subject[Current]]
  <2>1. /\ item' = item /\ turn' = 1 /\ turn = 0 /\ seen' = {} /\ edges' = edges
        /\ TouchNodes(label) /\ Participants[Current] # <<>>
    BY <1>5 DEF BeginMessage, AtMessage
  <2>2. NodesUpTo(Current, turn) = {} /\ EdgesUpTo(Current, turn) = {}
    BY <2>1 DEF NodesUpTo, EdgesUpTo
  <2>3. Among(Current, 1) = {}
    BY <1>1, AmongNone
  <2>4. ASSUME NEW j \in DOMAIN evidence, j = item
        PROVE  NodesAt(j)' = {Self, Thread(Current)} /\ EdgesAt(j)' = {}
    <3>1. Reached(j)' = 1 /\ evidence'[j] = Current
      BY <1>0, <1>1, <2>1, <2>4 DEF Reached
    <3>2. NodesAt(j)' = {Self, Thread(Current)}
      BY <3>1, <2>3 DEF NodesAt, NodesUpTo, PeopleAmong
    <3>3. EdgesAt(j)' = {}
      BY <3>1, <2>3 DEF EdgesAt, EdgesUpTo, PeopleAmong
    <3>. QED BY <3>2, <3>3
  <2>5. DOMAIN label = {Self, Thread(Current)}
    OBVIOUS
  <2>. HIDE DEF label
  <2>6. PICK j \in DOMAIN evidence : j = item
    BY <1>1
  <2>7. NodesSoFar'
    BY <1>0, <1>2, <1>3, <2>1, <2>2, <2>4, <2>5, <2>6, NodesGrow
  <2>8. EdgesSoFar'
    BY <1>0, <1>2, <1>3, <2>1, <2>2, <2>4, <2>6, EdgesKept
  <2>9. SeenSoFar'
    BY <1>3, <2>1, <2>3 DEF SeenSoFar
  <2>. QED BY <2>7, <2>8, <2>9 DEF ProjectionInvariant
<1>6. ASSUME AtParticipant, item' = item, turn' = turn + 1
      PROVE  /\ turn \in 1 .. len /\ turn # 0 /\ turn + 1 # 0
             /\ Participants[Current] # <<>> /\ seen = Among(Current, turn)
             /\ Among(Current, turn + 1) = Among(Current, turn) \cup {Address}
             /\ \A j \in DOMAIN evidence :
                  j = item => /\ NodesAt(j)' = NodesUpTo(Current, turn + 1)
                              /\ EdgesAt(j)' = EdgesUpTo(Current, turn + 1)
  <2>1. turn \in 1 .. len /\ Participants[Current] # <<>> /\ seen = Among(Current, turn)
    BY <1>1, <1>2, <1>6 DEF AtParticipant, SeenSoFar
  <2>2. Among(Current, turn + 1) = Among(Current, turn) \cup {Address}
    BY <1>1, <2>1, AmongNext DEF Address
  <2>3. ASSUME NEW j \in DOMAIN evidence, j = item
        PROVE  NodesAt(j)' = NodesUpTo(Current, turn + 1) /\ EdgesAt(j)' = EdgesUpTo(Current, turn + 1)
    <3>1. Reached(j)' = turn + 1 /\ evidence'[j] = Current
      BY <1>0, <1>1, <1>6, <2>3 DEF Reached
    <3>. QED BY <1>0, <3>1 DEF NodesAt, EdgesAt, NodesUpTo, EdgesUpTo, PeopleAmong
  <2>4. turn # 0 /\ turn + 1 # 0
    BY <1>1, <2>1
  <2>. QED BY <2>1, <2>2, <2>3, <2>4
<1>7. CASE SkipRepeated
  <2>1. /\ AtParticipant /\ item' = item /\ turn' = turn + 1 /\ seen' = seen
        /\ nodes' = nodes /\ edges' = edges /\ Address \in seen
    BY <1>7 DEF SkipRepeated, Repeated
  <2>2. Among(Current, turn + 1) = Among(Current, turn) /\ turn # 0 /\ turn + 1 # 0
    BY <1>6, <2>1
  <2>3. /\ NodesUpTo(Current, turn + 1) = NodesUpTo(Current, turn)
        /\ EdgesUpTo(Current, turn + 1) = EdgesUpTo(Current, turn)
    BY <2>2 DEF NodesUpTo, EdgesUpTo, PeopleAmong
  <2>4. \A k \in DOMAIN evidence : NodesAt(k)' = NodesAt(k) /\ EdgesAt(k)' = EdgesAt(k)
    BY <1>3, <1>6, <2>1, <2>3
  <2>5. NodesSoFar' /\ EdgesSoFar'
    BY <1>0, <1>2, <2>1, <2>4, NodesKept, EdgesKept
  <2>6. SeenSoFar'
    BY <1>3, <1>6, <2>1, <2>2 DEF SeenSoFar
  <2>. QED BY <2>5, <2>6 DEF ProjectionInvariant
<1>8. CASE TakeOwner
  <2>1. /\ AtParticipant /\ item' = item /\ turn' = turn + 1 /\ seen' = seen \cup {Address}
        /\ nodes' = nodes /\ TouchEdges({ParticipatedIn(Self, Current)}) /\ Address \in owners
    BY <1>8 DEF TakeOwner
  <2>2. /\ Among(Current, turn + 1) = Among(Current, turn) \cup {Address} /\ turn # 0 /\ turn + 1 # 0
        /\ PeopleAmong(Current, turn + 1) = PeopleAmong(Current, turn)
    BY <1>6, <2>1 DEF PeopleAmong
  <2>3. NodesUpTo(Current, turn + 1) = NodesUpTo(Current, turn)
    BY <2>2 DEF NodesUpTo
  <2>4. EdgesUpTo(Current, turn + 1) = EdgesUpTo(Current, turn) \cup {ParticipatedIn(Self, Current)}
    BY <2>1, <2>2 DEF EdgesUpTo
  <2>5. PICK j \in DOMAIN evidence : j = item
    BY <1>1
  <2>6. NodesSoFar'
    BY <1>0, <1>2, <1>3, <1>6, <2>1, <2>3, NodesKept
  <2>7. EdgesSoFar'
    BY <1>0, <1>2, <1>3, <1>6, <2>1, <2>4, <2>5, EdgesGrow
  <2>8. SeenSoFar'
    BY <1>3, <1>6, <2>1, <2>2 DEF SeenSoFar
  <2>. QED BY <2>6, <2>7, <2>8 DEF ProjectionInvariant
<1>9. CASE TakePerson
  <2>. DEFINE touched == {Person(Address)} \cup
                (IF IsOrganization(Address) THEN {Organization(Domain[Address])} ELSE {})
              label == [n \in touched |->
                          IF n = Person(Address) THEN Name ELSE Domain[Address]]
              linked == {InteractedWith(Address), ParticipatedIn(Person(Address), Current)}
                          \cup (IF IsOrganization(Address) THEN {MemberOf(Address)} ELSE {})
  <2>1. /\ AtParticipant /\ item' = item /\ turn' = turn + 1 /\ seen' = seen \cup {Address}
        /\ TouchNodes(label) /\ TouchEdges(linked) /\ Address \notin owners
    BY <1>9 DEF TakePerson
  <2>2. /\ Among(Current, turn + 1) = Among(Current, turn) \cup {Address} /\ turn # 0 /\ turn + 1 # 0
        /\ PeopleAmong(Current, turn + 1) = PeopleAmong(Current, turn) \cup {Address}
        /\ Among(Current, turn + 1) \cap owners = Among(Current, turn) \cap owners
    BY <1>6, <2>1 DEF PeopleAmong
  <2>3. NodesUpTo(Current, turn + 1) = NodesUpTo(Current, turn) \cup touched
    BY <2>2 DEF NodesUpTo
  <2>4. EdgesUpTo(Current, turn + 1) = EdgesUpTo(Current, turn) \cup linked
    BY <2>2 DEF EdgesUpTo
  <2>5. PICK j \in DOMAIN evidence : j = item
    BY <1>1
  <2>6. DOMAIN label = touched
    OBVIOUS
  <2>. HIDE DEF label, touched, linked
  <2>7. NodesSoFar'
    BY <1>0, <1>2, <1>3, <1>6, <2>1, <2>3, <2>5, <2>6, NodesGrow
  <2>8. EdgesSoFar'
    BY <1>0, <1>2, <1>3, <1>6, <2>1, <2>4, <2>5, EdgesGrow
  <2>9. SeenSoFar'
    BY <1>3, <1>6, <2>1, <2>2 DEF SeenSoFar
  <2>. QED BY <2>7, <2>8, <2>9 DEF ProjectionInvariant
<1>. QED BY <1>4, <1>5, <1>7, <1>8, <1>9 DEF Next

(* While the messages are projected, the map is that of what was read so   *)
(* far: each step of build_topography's loops adds to nodes and edges what *)
(* its participant implies, and cites its message for it.                  *)
THEOREM ProjectionInvariantHolds == Spec => []ProjectionInvariant
<1>1. Init => ProjectionInvariant
  <2>. SUFFICES ASSUME Init PROVE ProjectionInvariant
    OBVIOUS
  <2>1. evidence \in Seq(Identities) /\ item = 1 /\ turn = 0 /\ nodes = <<>> /\ edges = <<>>
    BY TopographyAssumption DEF Init
  <2>2. ASSUME NEW k \in DOMAIN evidence PROVE NodesAt(k) = {} /\ EdgesAt(k) = {}
    <3>1. k \in Int /\ k >= 1
      BY <2>1
    <3>2. Reached(k) = 0
      BY <2>1, <3>1 DEF Reached
    <3>. QED BY <3>2 DEF NodesAt, EdgesAt, NodesUpTo, EdgesUpTo
  <2>3. DOMAIN nodes = {} /\ DOMAIN edges = {}
    BY <2>1
  <2>4. UNION {NodesAt(k) : k \in DOMAIN evidence} = {}
        /\ UNION {EdgesAt(k) : k \in DOMAIN evidence} = {}
    BY <2>2
  <2>. QED BY <2>1, <2>3, <2>4 DEF ProjectionInvariant, SeenSoFar, NodesSoFar, EdgesSoFar
<1>2. TypeOK /\ ProjectionInvariant /\ [Next]_vars => ProjectionInvariant'
  <2>1. CASE UNCHANGED vars
    <3>1. ASSUME NEW k PROVE NodesAt(k)' = NodesAt(k) /\ EdgesAt(k)' = EdgesAt(k)
      BY <2>1, SameReach DEF vars, Reached
    <3>. QED BY <2>1, <3>1, NodesKept, EdgesKept DEF vars, ProjectionInvariant, SeenSoFar, Current
  <2>2. CASE Next
    BY <2>2, ProjectionStep
  <2>. QED BY <2>1, <2>2
<1>. QED BY <1>1, <1>2, TypeCorrect, PTL DEF Spec

(* The map that build_topography returns has exactly the nodes and edges   *)
(* its evidence implies, each citing exactly the messages that imply it.   *)
THEOREM MapIsComplete == Spec => []MapMatchesEvidence
<1>1. TypeOK /\ ProjectionInvariant => MapMatchesEvidence
  <2>. SUFFICES ASSUME TypeOK, ProjectionInvariant, Returned PROVE MapMatchesEvidence
    BY DEF MapMatchesEvidence
  <2>1. evidence \in Seq(Identities) /\ item \in Nat /\ item > Len(evidence)
    BY TopographyAssumption DEF TypeOK, PlaceTyped, Returned
  <2>2. ASSUME NEW k \in DOMAIN evidence
        PROVE  NodesAt(k) = NodesOf(evidence[k]) /\ EdgesAt(k) = EdgesOf(evidence[k])
    <3>1. k \in Nat /\ k < item
      BY <2>1
    <3>2. Reached(k) = Whole(evidence[k])
      BY <2>1, <3>1 DEF Reached
    <3>. QED BY <3>2 DEF NodesAt, EdgesAt, NodesOf, EdgesOf
  <2>3. /\ UNION {NodesAt(k) : k \in DOMAIN evidence} = UNION {NodesOf(i) : i \in Given}
        /\ UNION {EdgesAt(k) : k \in DOMAIN evidence} = UNION {EdgesOf(i) : i \in Given}
    BY <2>2 DEF Given
  <2>4. ASSUME NEW n
        PROVE  Citing({k \in DOMAIN evidence : n \in NodesAt(k)}) = {i \in Given : n \in NodesOf(i)}
    BY <2>2 DEF Given, Citing
  <2>5. ASSUME NEW e
        PROVE  Citing({k \in DOMAIN evidence : e \in EdgesAt(k)}) = {i \in Given : e \in EdgesOf(i)}
    BY <2>2 DEF Given, Citing
  <2>. QED BY <2>3, <2>4, <2>5 DEF ProjectionInvariant, NodesSoFar, EdgesSoFar, MapMatchesEvidence
<1>. QED BY <1>1, TypeCorrect, ProjectionInvariantHolds, PTL

(* A message that contributes an edge contributes both of its ends.        *)
LEMMA EndsOfAnEdge ==
  ASSUME NEW i, NEW n, NEW e \in EdgesUpTo(i, n)
  PROVE  e[2] \in NodesUpTo(i, n) /\ e[3] \in NodesUpTo(i, n)
<1>1. n # 0
  BY DEF EdgesUpTo
<1>2. CASE \E a \in PeopleAmong(i, n) : e = InteractedWith(a)
  BY <1>1, <1>2 DEF InteractedWith, NodesUpTo
<1>3. CASE \E a \in PeopleAmong(i, n) : e = ParticipatedIn(Person(a), i)
  BY <1>1, <1>3 DEF ParticipatedIn, NodesUpTo
<1>4. CASE e = ParticipatedIn(Self, i)
  BY <1>1, <1>4 DEF ParticipatedIn, NodesUpTo
<1>5. CASE \E a \in PeopleAmong(i, n) : IsOrganization(a) /\ e = MemberOf(a)
  BY <1>1, <1>5 DEF MemberOf, NodesUpTo
<1>. QED BY <1>1, <1>2, <1>3, <1>4, <1>5 DEF EdgesUpTo

(* At every moment both ends of an edge are nodes of the map, and cite     *)
(* every message that the edge cites.                                      *)
THEOREM EdgesAreJoined == Spec => []EdgesJoinNodes
<1>1. ProjectionInvariant => EdgesJoinNodes
  <2>. SUFFICES ASSUME ProjectionInvariant, NEW e \in DOMAIN edges, NEW end \in {e[2], e[3]}
                PROVE  end \in DOMAIN nodes /\ edges[e] \subseteq nodes[end].evidence
    BY DEF EdgesJoinNodes
  <2>1. ASSUME NEW k \in DOMAIN evidence, e \in EdgesAt(k) PROVE end \in NodesAt(k)
    BY <2>1, EndsOfAnEdge DEF EdgesAt, NodesAt
  <2>2. end \in DOMAIN nodes
    BY <2>1 DEF ProjectionInvariant, NodesSoFar, EdgesSoFar
  <2>3. edges[e] \subseteq nodes[end].evidence
    BY <2>1, <2>2 DEF ProjectionInvariant, NodesSoFar, EdgesSoFar, Citing
  <2>. QED BY <2>2, <2>3
<1>. QED BY <1>1, ProjectionInvariantHolds, PTL
-----------------------------------------------------------------------------
(* OneVotePerMessage with what counting needs: evidence is finite.         *)
Votes ==
  \A n \in DOMAIN nodes :
    /\ IsFiniteSet(nodes[n].evidence)
    /\ n[1] # "organization" => Len(nodes[n].labels) = Cardinality(nodes[n].evidence)

(* The identities of a list of evidence are those of rows, hence distinct. *)
Distinct(list) == \A j, k \in DOMAIN list : list[j] = list[k] => j = k

(* A vote is counted when its message is cited for the first time.         *)
LEMMA TouchVotes ==
  ASSUME Votes, NodesTyped, NEW label, TouchNodes(label),
         \A n \in DOMAIN nodes \cap DOMAIN label :
           n[1] # "organization" => Current \notin nodes[n].evidence
  PROVE  Votes'
<1>. SUFFICES ASSUME NEW n \in DOMAIN nodes'
              PROVE  /\ IsFiniteSet(nodes'[n].evidence)
                     /\ n[1] # "organization" =>
                          Len(nodes'[n].labels) = Cardinality(nodes'[n].evidence)
  BY DEF Votes
<1>. DEFINE old == IF n \in DOMAIN nodes THEN nodes[n] ELSE [labels |-> <<>>, evidence |-> {}]
<1>1. /\ IsFiniteSet(old.evidence)
      /\ n[1] # "organization" => Len(old.labels) = Cardinality(old.evidence)
      /\ old.labels \in Seq(Texts \cup {You})
  <2>1. CASE n \in DOMAIN nodes
    BY <2>1 DEF Votes, NodesTyped
  <2>2. CASE n \notin DOMAIN nodes
    BY <2>2, FS_EmptySet
  <2>. QED BY <2>1, <2>2
<1>2. n \in DOMAIN nodes \cup DOMAIN label
  BY DEF TouchNodes
<1>3. nodes'[n] = IF n \in DOMAIN label
                  THEN [labels |-> Append(old.labels, label[n]),
                        evidence |-> old.evidence \cup {Current}]
                  ELSE old
  BY <1>2 DEF TouchNodes
<1>4. n \in DOMAIN label /\ n[1] # "organization" => Current \notin old.evidence
  OBVIOUS
<1>. HIDE DEF old
<1>5. CASE n \in DOMAIN label
  <2>1. IsFiniteSet(old.evidence \cup {Current})
    BY <1>1, FS_AddElement
  <2>2. ASSUME n[1] # "organization"
        PROVE  Cardinality(old.evidence \cup {Current}) = Cardinality(old.evidence) + 1
    BY <1>1, <1>4, <1>5, <2>2, FS_AddElement
  <2>3. Len(Append(old.labels, label[n])) = Len(old.labels) + 1
    BY <1>1
  <2>. QED BY <1>1, <1>3, <1>5, <2>1, <2>2, <2>3
<1>6. CASE n \notin DOMAIN label
  BY <1>1, <1>3, <1>6
<1>. QED BY <1>5, <1>6

(* What the message at hand has not contributed yet does not cite it.      *)
LEMMA NotYetCited ==
  ASSUME TypeOK, ProjectionInvariant, item <= Len(evidence), Distinct(evidence),
         NEW n \in DOMAIN nodes, n \notin NodesUpTo(Current, turn)
  PROVE  Current \notin nodes[n].evidence
<1>1. item \in DOMAIN evidence /\ item \in Nat
  BY Reading
<1>2. NodesAt(item) = NodesUpTo(Current, turn)
  BY <1>1 DEF NodesAt, Reached, Current
<1>3. nodes[n].evidence = {evidence[k] : k \in {x \in DOMAIN evidence : n \in NodesAt(x)}}
  BY DEF ProjectionInvariant, NodesSoFar, Citing
<1>4. ASSUME NEW k \in DOMAIN evidence, n \in NodesAt(k) PROVE evidence[k] # Current
  BY <1>1, <1>2, <1>4 DEF Distinct, Current
<1>. QED BY <1>3, <1>4

LEMMA VotesStep ==
  ASSUME TypeOK, ProjectionInvariant, Distinct(evidence), Votes, Next
  PROVE  Votes'
<1>0. item <= Len(evidence)
  BY DEF Next, SkipMessage, BeginMessage, EndMessage, SkipRepeated, TakeOwner, TakePerson,
         AtMessage, AtParticipant
<1>1. NodesTyped
  BY DEF TypeOK
<1>2. CASE SkipMessage \/ EndMessage \/ SkipRepeated \/ TakeOwner
  BY <1>2 DEF SkipMessage, EndMessage, SkipRepeated, TakeOwner, Votes
<1>3. CASE BeginMessage
  <2>. DEFINE label == [n \in {Self, Thread(Current)} |->
                          IF n = Self THEN You ELSE Subject[Current]]
  <2>1. TouchNodes(label) /\ turn = 0
    BY <1>3 DEF BeginMessage, AtMessage
  <2>2. NodesUpTo(Current, turn) = {}
    BY <2>1 DEF NodesUpTo
  <2>. HIDE DEF label
  <2>. QED BY <1>0, <1>1, <2>1, <2>2, NotYetCited, TouchVotes
<1>4. CASE TakePerson
  <2>. DEFINE touched == {Person(Address)} \cup
                (IF IsOrganization(Address) THEN {Organization(Domain[Address])} ELSE {})
              label == [n \in touched |->
                          IF n = Person(Address) THEN Name ELSE Domain[Address]]
  <2>1. TouchNodes(label) /\ AtParticipant /\ Address \notin seen
    BY <1>4 DEF TakePerson, Repeated
  <2>2. turn > 0 /\ seen = Among(Current, turn)
    BY <1>0, <2>1, Reading DEF ProjectionInvariant, SeenSoFar, AtParticipant
  <2>3. Person(Address) \notin NodesUpTo(Current, turn)
    BY <2>1, <2>2 DEF NodesUpTo, PeopleAmong, Person, Organization, Thread, Self
  <2>4. ASSUME NEW n \in DOMAIN label PROVE n = Person(Address) \/ n[1] = "organization"
    BY DEF Organization
  <2>. HIDE DEF label
  <2>. QED BY <1>0, <1>1, <2>1, <2>3, <2>4, NotYetCited, TouchVotes
<1>. QED BY <1>2, <1>3, <1>4 DEF Next

(* If no message is listed twice, as none is by evidence_items, then each  *)
(* has one vote on the label of the self node, of its thread and of each   *)
(* person: seen_addresses passes over those it mentions again.             *)
THEOREM VotesAreSingle ==
  ASSUME \A list \in Inputs : Distinct(list)
  PROVE  Spec => []OneVotePerMessage
<1>1. Init => Votes
  BY DEF Init, Votes
<1>2. TypeOK => Distinct(evidence)
  BY DEF TypeOK, PlaceTyped
<1>3. TypeOK /\ ProjectionInvariant /\ Votes /\ [Next]_vars => Votes'
  <2>1. CASE UNCHANGED vars
    BY <2>1 DEF vars, Votes
  <2>2. CASE Next
    BY <1>2, <2>2, VotesStep
  <2>. QED BY <2>1, <2>2
<1>4. Votes => OneVotePerMessage
  BY DEF Votes, OneVotePerMessage
<1>. QED BY <1>1, <1>3, <1>4, TypeCorrect, ProjectionInvariantHolds, PTL DEF Spec
-----------------------------------------------------------------------------
(* The ranks of a finite set of numbers are numbers up to its size.        *)
LEMMA RankIn ==
  ASSUME NEW P \in SUBSET Nat, IsFiniteSet(P), NEW k \in P
  PROVE  Cardinality(P) \in Nat /\ Rank(P, k) \in 1 .. Cardinality(P)
<1>. DEFINE upto == {j \in P : j <= k}
<1>1. /\ IsFiniteSet(upto) /\ Cardinality(upto) \in Nat /\ Cardinality(P) \in Nat
      /\ Cardinality(upto) <= Cardinality(P)
  BY FS_Subset, FS_CardinalityType
<1>2. k \in upto
  OBVIOUS
<1>3. Rank(P, k) = Cardinality(upto)
  BY DEF Rank
<1>. HIDE DEF upto
<1>4. Cardinality(upto) # 0
  BY <1>1, <1>2, FS_EmptySet
<1>. QED BY <1>1, <1>3, <1>4

(* They number it: there is one element of each rank.                      *)
LEMMA RanksNumber ==
  ASSUME NEW P \in SUBSET Nat, IsFiniteSet(P)
  PROVE  /\ Cardinality(P) \in Nat
         /\ \A k \in P : Rank(P, k) \in 1 .. Cardinality(P) /\ Ranked(P, Rank(P, k)) = k
         /\ \A x \in 1 .. Cardinality(P) : Ranked(P, x) \in P /\ Rank(P, Ranked(P, x)) = x
<1>1. Cardinality(P) \in Nat /\ \A k \in P : Rank(P, k) \in 1 .. Cardinality(P)
  BY RankIn, FS_CardinalityType
<1>2. ASSUME NEW k \in P, NEW l \in P, k < l PROVE Rank(P, k) # Rank(P, l)
  <2>. DEFINE uptoK == {j \in P : j <= k}
              uptoL == {j \in P : j <= l}
  <2>1. /\ uptoK \in SUBSET uptoL /\ l \in uptoL /\ l \notin uptoK
        /\ uptoL \in SUBSET P
    <3>1. \A j \in P : j <= k => j <= l
      BY <1>2
    <3>2. ~(l <= k) /\ l <= l
      BY <1>2
    <3>. QED BY <3>1, <3>2
  <2>2. Rank(P, k) = Cardinality(uptoK) /\ Rank(P, l) = Cardinality(uptoL)
    BY DEF Rank
  <2>. HIDE DEF uptoK, uptoL
  <2>3. IsFiniteSet(uptoL)
    BY <2>1, FS_Subset
  <2>4. Cardinality(uptoK) # Cardinality(uptoL)
    BY <2>1, <2>3, FS_Subset
  <2>. QED BY <2>2, <2>4
<1>3. ASSUME NEW k \in P, NEW l \in P, Rank(P, k) = Rank(P, l) PROVE k = l
  <2>1. ~(k < l) /\ ~(l < k)
    BY <1>2, <1>3
  <2>2. k \in Nat /\ l \in Nat
    OBVIOUS
  <2>. QED BY <2>1, <2>2
<1>. DEFINE number == [k \in P |-> Rank(P, k)]
<1>4. number \in Injection(P, 1 .. Cardinality(P))
  BY <1>1, <1>3 DEF Injection, IsInjective
<1>5. IsFiniteSet(1 .. Cardinality(P)) /\ Cardinality(1 .. Cardinality(P)) = Cardinality(P)
  BY <1>1, FS_Interval
<1>6. number \in Surjection(P, 1 .. Cardinality(P))
  <2>. HIDE DEF number
  <2>. QED BY <1>4, <1>5, FS_Injection
<1>7. \A x \in 1 .. Cardinality(P) : \E k \in P : Rank(P, k) = x
  BY <1>6 DEF Surjection
<1>8. \A k \in P : Ranked(P, Rank(P, k)) = k
  BY <1>3 DEF Ranked
<1>9. \A x \in 1 .. Cardinality(P) : Ranked(P, x) \in P /\ Rank(P, Ranked(P, x)) = x
  BY <1>7 DEF Ranked
<1>. QED BY <1>1, <1>8, <1>9

(* One element more, greater than the others, is ranked last and leaves the *)
(* ranks of the others alone.                                              *)
LEMMA RankOfLast ==
  ASSUME NEW P \in SUBSET Nat, IsFiniteSet(P), NEW x \in Nat, \A k \in P : k < x
  PROVE  /\ Cardinality(P) \in Nat /\ Cardinality(P \cup {x}) = Cardinality(P) + 1
         /\ \A k \in P : /\ Rank(P \cup {x}, k) = Rank(P, k)
                         /\ Rank(P, k) \in 1 .. Cardinality(P)
         /\ Rank(P \cup {x}, x) = Cardinality(P) + 1
<1>0. Cardinality(P) \in Nat /\ x \notin P
  BY FS_CardinalityType
<1>1. Cardinality(P \cup {x}) = Cardinality(P) + 1
  BY <1>0, FS_AddElement
<1>2. ASSUME NEW k \in P
      PROVE  Rank(P \cup {x}, k) = Rank(P, k) /\ Rank(P, k) \in 1 .. Cardinality(P)
  <2>1. {j \in P \cup {x} : j <= k} = {j \in P : j <= k}
    BY <1>0
  <2>. QED BY <2>1, RankIn DEF Rank
<1>3. {j \in P \cup {x} : j <= x} = P \cup {x}
  <2>1. x <= x /\ \A j \in P : j <= x
    OBVIOUS
  <2>. QED BY <2>1
<1>. QED BY <1>0, <1>1, <1>2, <1>3 DEF Rank
(* The labels counted for a node are the votes of the messages it cites,   *)
(* in the order of the evidence.                                           *)
LabelledByVotes(n) ==
  LET citing == {k \in DOMAIN evidence : evidence[k] \in nodes[n].evidence}
  IN  /\ Len(nodes[n].labels) = Cardinality(citing)
      /\ \A k \in citing : nodes[n].labels[Rank(citing, k)] = Vote(evidence[k], n)

LabelsInOrder == \A n \in DOMAIN nodes : n[1] # "organization" => LabelledByVotes(n)

(* The messages that cite a node have been begun.                          *)
LEMMA CitedIsRead ==
  ASSUME TypeOK, ProjectionInvariant, Distinct(evidence), item <= Len(evidence),
         NEW n \in DOMAIN nodes, NEW k \in DOMAIN evidence, evidence[k] \in nodes[n].evidence
  PROVE  k <= item
<1>1. evidence \in Seq(Identities) /\ item \in Nat /\ k \in Nat
  BY Reading
<1>2. PICK x \in DOMAIN evidence : n \in NodesAt(x) /\ evidence[x] = evidence[k]
  BY DEF ProjectionInvariant, NodesSoFar, Citing
<1>3. n \in NodesAt(k)
  BY <1>2 DEF Distinct
<1>4. Reached(k) # 0
  BY <1>3 DEF NodesAt, NodesUpTo
<1>. QED BY <1>1, <1>4 DEF Reached

(* A node's labels get the vote of the message that begins to cite it; the *)
(* labels of others stay.                                                  *)
LEMMA LabelsGrow ==
  ASSUME TypeOK, ProjectionInvariant, Distinct(evidence), LabelsInOrder,
         item <= Len(evidence), evidence' = evidence,
         NEW label, TouchNodes(label),
         \A n \in DOMAIN label : n[1] # "organization" =>
           /\ label[n] \in Texts \cup {You} /\ label[n] = Vote(Current, n)
           /\ n \in DOMAIN nodes => Current \notin nodes[n].evidence
  PROVE  LabelsInOrder'
<1>. SUFFICES ASSUME NEW n \in DOMAIN nodes', n[1] # "organization" PROVE LabelledByVotes(n)'
  BY DEF LabelsInOrder
<1>. DEFINE old == IF n \in DOMAIN nodes THEN nodes[n] ELSE [labels |-> <<>>, evidence |-> {}]
            citing == {k \in DOMAIN evidence : evidence[k] \in old.evidence}
            later == {k \in DOMAIN evidence : evidence[k] \in nodes'[n].evidence}
<1>1. /\ n \in DOMAIN nodes \cup DOMAIN label
      /\ nodes'[n] = IF n \in DOMAIN label
                     THEN [labels |-> Append(old.labels, label[n]),
                           evidence |-> old.evidence \cup {Current}]
                     ELSE old
  BY DEF TouchNodes
<1>2. /\ evidence \in Seq(Identities) /\ item \in DOMAIN evidence /\ item \in Nat
      /\ DOMAIN evidence = 1 .. Len(evidence) /\ Len(evidence) \in Nat
  BY Reading
<1>3. old.labels \in Seq(Texts \cup {You})
  BY DEF TypeOK, NodesTyped
<1>4. /\ citing \in SUBSET Nat /\ IsFiniteSet(citing)
  <2>1. citing \subseteq 1 .. Len(evidence) /\ citing \in SUBSET Nat
    BY <1>2
  <2>2. IsFiniteSet(1 .. Len(evidence))
    BY <1>2, FS_Interval
  <2>. HIDE DEF citing
  <2>. QED BY <2>1, <2>2, FS_Subset
<1>5. /\ Len(old.labels) = Cardinality(citing)
      /\ \A k \in citing :
           old.labels[Rank(citing, k)] = Vote(evidence[k], n)
  <2>1. CASE n \in DOMAIN nodes
    BY <2>1 DEF LabelsInOrder, LabelledByVotes
  <2>2. CASE n \notin DOMAIN nodes
    <3>1. old.labels = <<>> /\ citing = {}
      BY <2>2
    <3>. HIDE DEF old, citing
    <3>. QED BY <3>1, FS_EmptySet
  <2>. QED BY <2>1, <2>2
<1>6. CASE n \notin DOMAIN label
  <2>1. nodes'[n] = old /\ n \in DOMAIN nodes
    BY <1>1, <1>6
  <2>. HIDE DEF old
  <2>. QED BY <1>5, <2>1 DEF LabelledByVotes
<1>7. CASE n \in DOMAIN label
  <2>1. /\ nodes'[n].labels = Append(old.labels, label[n])
        /\ nodes'[n].evidence = old.evidence \cup {Current}
        /\ label[n] \in Texts \cup {You} /\ label[n] = Vote(Current, n)
    BY <1>1, <1>7
  <2>2. \A k \in citing : k < item
    <3>1. Current \notin old.evidence
      BY <1>7
    <3>2. \A k \in citing : k <= item /\ k # item /\ k \in Nat
      <4>. SUFFICES ASSUME NEW k \in citing PROVE k <= item /\ k # item /\ k \in Nat
        OBVIOUS
      <4>1. k \in Nat
        BY <1>4
      <4>2. n \in DOMAIN nodes
        OBVIOUS
      <4>3. k <= item
        BY <4>2, CitedIsRead
      <4>. QED BY <3>1, <4>1, <4>3 DEF Current
    <3>. QED BY <1>2, <3>2
  <2>3. later = citing \cup {item}
    <3>1. \A k \in DOMAIN evidence : evidence[k] = Current <=> k = item
      BY <1>2 DEF Distinct, Current
    <3>. QED BY <1>2, <2>1, <3>1
  <2>. HIDE DEF old, citing, later
  <2>4. /\ Len(nodes'[n].labels) = Cardinality(later)
        /\ \A k \in citing : nodes'[n].labels[Rank(later, k)]
                             = Vote(evidence[k], n)
        /\ nodes'[n].labels[Rank(later, item)] = Vote(Current, n)
    <3>1. /\ Cardinality(citing) \in Nat
          /\ Cardinality(citing \cup {item}) = Cardinality(citing) + 1
          /\ \A k \in citing : /\ Rank(citing \cup {item}, k) = Rank(citing, k)
                               /\ Rank(citing, k) \in 1 .. Cardinality(citing)
          /\ Rank(citing \cup {item}, item) = Cardinality(citing) + 1
      BY <1>2, <1>4, <2>2, RankOfLast
    <3>2. /\ Len(nodes'[n].labels) = Cardinality(citing) + 1
          /\ \A k \in 1 .. Cardinality(citing) : nodes'[n].labels[k] = old.labels[k]
          /\ nodes'[n].labels[Cardinality(citing) + 1] = label[n]
      BY <1>3, <1>5, <2>1
    <3>. QED BY <1>5, <2>1, <2>3, <3>1, <3>2
  <2>5. \A k \in later : nodes'[n].labels[Rank(later, k)]
                             = Vote(evidence[k], n)
    BY <2>3, <2>4 DEF Current
  <2>. QED BY <2>4, <2>5 DEF LabelledByVotes, later
<1>. QED BY <1>6, <1>7

(* A turn with no earlier one of the same address is its first.            *)
LEMMA FirstTurnIs ==
  ASSUME NEW i \in Identities, NEW t \in DOMAIN Participants[i],
         \A s \in DOMAIN Participants[i] : Participants[i][s][1] = Participants[i][t][1] => t <= s
  PROVE  FirstTurn(i, Participants[i][t][1]) = t
<1>1. DOMAIN Participants[i] \subseteq Nat
  <2>1. Participants[i] \in Seq(Addresses \X Texts)
    BY TopographyAssumption
  <2>. QED BY <2>1
<1>. DEFINE IsFirst(u) ==
              /\ Participants[i][u][1] = Participants[i][t][1]
              /\ \A s \in DOMAIN Participants[i] :
                   Participants[i][s][1] = Participants[i][t][1] => u <= s
<1>2. IsFirst(t)
  OBVIOUS
<1>3. ASSUME NEW u \in DOMAIN Participants[i], IsFirst(u) PROVE u = t
  <2>1. u <= t /\ t <= u
    BY <1>2, <1>3
  <2>2. u \in Nat /\ t \in Nat
    BY <1>1
  <2>. QED BY <2>1, <2>2
<1>4. FirstTurn(i, Participants[i][t][1]) = CHOOSE u \in DOMAIN Participants[i] : IsFirst(u)
  BY Zenon DEF FirstTurn
<1>. HIDE DEF IsFirst
<1>. QED BY <1>2, <1>3, <1>4

LEMMA LabelsInOrderStep ==
  ASSUME TypeOK, ProjectionInvariant, Distinct(evidence), LabelsInOrder, Next
  PROVE  LabelsInOrder'
<1>0. item <= Len(evidence) /\ evidence' = evidence
  BY DEF Next, SkipMessage, BeginMessage, EndMessage, SkipRepeated, TakeOwner, TakePerson,
         AtMessage, AtParticipant
<1>1. CASE nodes' = nodes
  BY <1>0, <1>1 DEF LabelsInOrder, LabelledByVotes
<1>2. CASE BeginMessage
  <2>. DEFINE label == [n \in {Self, Thread(Current)} |->
                          IF n = Self THEN You ELSE Subject[Current]]
  <2>1. TouchNodes(label) /\ turn = 0
    BY <1>2 DEF BeginMessage, AtMessage
  <2>2. NodesUpTo(Current, turn) = {}
    BY <2>1 DEF NodesUpTo
  <2>3. Subject[Current] \in Texts
    BY <1>0, Reading, TopographyAssumption
  <2>4. \A n \in DOMAIN label : label[n] \in Texts \cup {You} /\ label[n] = Vote(Current, n)
    BY <2>3 DEF Self, Thread, Vote
  <2>. HIDE DEF label
  <2>5. \A n \in DOMAIN nodes : Current \notin nodes[n].evidence
    BY <1>0, <2>2, NotYetCited
  <2>. QED BY <1>0, <2>1, <2>4, <2>5, LabelsGrow
<1>3. CASE TakePerson
  <2>. DEFINE touched == {Person(Address)} \cup
                (IF IsOrganization(Address) THEN {Organization(Domain[Address])} ELSE {})
              label == [n \in touched |->
                          IF n = Person(Address) THEN Name ELSE Domain[Address]]
  <2>1. TouchNodes(label) /\ AtParticipant /\ Address \notin seen
    BY <1>3 DEF TakePerson, Repeated
  <2>2. /\ turn > 0 /\ seen = Among(Current, turn) /\ turn \in Nat
        /\ Current \in Identities /\ turn \in 1 .. Len(Participants[Current])
        /\ Participants[Current] \in Seq(Addresses \X Texts) /\ Name \in Texts
    BY <1>0, <2>1, Reading DEF ProjectionInvariant, SeenSoFar, AtParticipant
  <2>3. Person(Address) \notin NodesUpTo(Current, turn)
    BY <2>1, <2>2 DEF NodesUpTo, PeopleAmong, Person, Organization, Thread, Self
  <2>4. Name = Vote(Current, Person(Address))
    <3>1. turn \in DOMAIN Participants[Current]
      BY <2>2
    <3>2. \A s \in DOMAIN Participants[Current] :
            s < turn => Participants[Current][s][1] # Participants[Current][turn][1]
      BY <2>1, <2>2 DEF Among, Address
    <3>3. \A s \in DOMAIN Participants[Current] :
            Participants[Current][s][1] = Participants[Current][turn][1] => turn <= s
      BY <2>2, <3>2
    <3>4. FirstTurn(Current, Address) = turn
      BY <2>2, <3>1, <3>3, FirstTurnIs DEF Address
    <3>. QED BY <3>4 DEF Vote, Person, Name
  <2>5. ASSUME NEW n \in DOMAIN label, n[1] # "organization"
        PROVE  n = Person(Address) /\ label[n] = Name
    BY <2>5 DEF Organization
  <2>. HIDE DEF label
  <2>6. \A n \in DOMAIN label : n[1] # "organization" =>
          /\ label[n] \in Texts \cup {You} /\ label[n] = Vote(Current, n)
          /\ n \in DOMAIN nodes => Current \notin nodes[n].evidence
    BY <1>0, <2>2, <2>3, <2>4, <2>5, NotYetCited
  <2>. QED BY <1>0, <2>1, <2>6, LabelsGrow
<1>. QED
  BY <1>1, <1>2, <1>3 DEF Next, SkipMessage, EndMessage, SkipRepeated, TakeOwner

LEMMA LabelsInOrderHolds ==
  ASSUME \A list \in Inputs : Distinct(list)
  PROVE  Spec => []LabelsInOrder
<1>1. Init => LabelsInOrder
  BY DEF Init, LabelsInOrder
<1>2. TypeOK => Distinct(evidence)
  BY DEF TypeOK, PlaceTyped
<1>3. TypeOK /\ ProjectionInvariant /\ LabelsInOrder /\ [Next]_vars => LabelsInOrder'
  <2>1. CASE UNCHANGED vars
    BY <2>1 DEF vars, LabelsInOrder, LabelledByVotes
  <2>2. CASE Next
    BY <1>2, <2>2, LabelsInOrderStep
  <2>. QED BY <2>1, <2>2
<1>. QED BY <1>1, <1>3, TypeCorrect, ProjectionInvariantHolds, PTL DEF Spec
-----------------------------------------------------------------------------
(* Among the turns of an address there is a first.                         *)
LEMMA HasFirstTurn ==
  ASSUME NEW i \in Identities, NEW s \in DOMAIN Participants[i]
  PROVE  /\ FirstTurn(i, Participants[i][s][1]) \in DOMAIN Participants[i]
         /\ Participants[i][FirstTurn(i, Participants[i][s][1])][1] = Participants[i][s][1]
         /\ \A u \in DOMAIN Participants[i] :
              Participants[i][u][1] = Participants[i][s][1] =>
                FirstTurn(i, Participants[i][s][1]) <= u
<1>. DEFINE turns == {t \in DOMAIN Participants[i] : Participants[i][t][1] = Participants[i][s][1]}
            less == OpToRel(<, Nat)
<1>1. DOMAIN Participants[i] \subseteq Nat
  <2>1. Participants[i] \in Seq(Addresses \X Texts)
    BY TopographyAssumption
  <2>. QED BY <2>1
<1>2. turns \in SUBSET Nat /\ s \in turns
  BY <1>1
<1>3. IsWellFoundedOn(less, Nat)
  BY NatLessThanWellFounded
<1>4. \A x, y \in Nat : x < y => <<x, y>> \in less
  BY DEF OpToRel
<1>5. PICK t \in turns : \A u \in turns : <<u, t>> \notin less
  <2>. HIDE DEF less, turns
  <2>. QED BY <1>2, <1>3, WFMin
<1>6. \A u \in turns : t <= u
  <2>. SUFFICES ASSUME NEW u \in turns PROVE t <= u
    OBVIOUS
  <2>1. u \in Nat /\ t \in Nat
    BY <1>2
  <2>2. ~(u < t)
    BY <1>4, <1>5, <2>1
  <2>. QED BY <2>1, <2>2
<1>7. FirstTurn(i, Participants[i][t][1]) = t
  BY <1>6, FirstTurnIs
<1>. QED BY <1>6, <1>7

(* What a message can call a node: You, or a text.                         *)
TextsFor(n) == IF n = Self THEN {You} ELSE Texts

LEMMA VoteTyped ==
  ASSUME NEW i \in Identities, NEW n \in NodesOf(i), n[1] # "organization"
  PROVE  Vote(i, n) \in TextsFor(n)
<1>1. CASE n = Self
  BY <1>1 DEF Self, Vote, TextsFor
<1>2. CASE n = Thread(i)
  BY <1>2, TopographyAssumption DEF Self, Thread, Vote, TextsFor
<1>3. ASSUME NEW a \in PeopleAmong(i, Whole(i)), n = Person(a)
      PROVE  Vote(i, n) \in TextsFor(n)
  <2>1. PICK s \in DOMAIN Participants[i] : Participants[i][s][1] = a
    BY DEF PeopleAmong, Among
  <2>2. FirstTurn(i, a) \in DOMAIN Participants[i]
    BY <2>1, HasFirstTurn
  <2>3. Participants[i] \in Seq(Addresses \X Texts)
    BY TopographyAssumption
  <2>4. Participants[i][FirstTurn(i, a)] \in Addresses \X Texts
    BY <2>2, <2>3
  <2>5. Vote(i, n) = Participants[i][FirstTurn(i, a)][2] /\ n # Self
    BY <1>3 DEF Vote, Person, Self
  <2>. QED BY <2>4, <2>5 DEF TextsFor
<1>4. n \in NodesUpTo(i, Whole(i))
  BY DEF NodesOf
<1>. QED BY <1>1, <1>2, <1>3, <1>4 DEF NodesUpTo, Organization

(* The places of a list whose messages imply n can be counted.             *)
LEMMA CitingPlaces ==
  ASSUME NEW list \in Seq(Identities), NEW n
  PROVE  LET citing == {k \in DOMAIN list : n \in NodesOf(list[k])}
         IN  citing \in SUBSET Nat /\ IsFiniteSet(citing)
<1>. DEFINE citing == {k \in DOMAIN list : n \in NodesOf(list[k])}
<1>1. DOMAIN list = 1 .. Len(list) /\ Len(list) \in Nat
  OBVIOUS
<1>2. IsFiniteSet(1 .. Len(list)) /\ citing \in SUBSET (1 .. Len(list)) /\ citing \in SUBSET Nat
  BY <1>1, FS_Interval
<1>. HIDE DEF citing
<1>3. citing \in SUBSET Nat /\ IsFiniteSet(citing)
  BY <1>2, FS_Subset
<1>. QED BY <1>3 DEF citing

(* The messages of a set that imply n and call it x.                       *)
Callers(messages, n, x) == {i \in messages : n \in NodesOf(i) /\ Vote(i, n) = x}

(* In a list without repetition a label gets one vote of each message that *)
(* implies n and calls it so.                                              *)
LEMMA VotesCounted ==
  ASSUME NEW list \in Seq(Identities), Distinct(list), NEW n, NEW x
  PROVE  /\ IsFiniteSet(Counts(VotesIn(list, n), x))
         /\ Times(VotesIn(list, n), x) = Cardinality(Callers(Candidates(list), n, x))
<1>. DEFINE citing == {k \in DOMAIN list : n \in NodesOf(list[k])}
            places == {r \in DOMAIN VotesIn(list, n) : VotesIn(list, n)[r] = x}
            callers == {i \in {list[k] : k \in DOMAIN list} : n \in NodesOf(i) /\ Vote(i, n) = x}
            caller == [r \in places |-> list[Ranked(citing, r)]]
<1>1. citing \in SUBSET Nat /\ IsFiniteSet(citing)
  BY CitingPlaces
<1>2. /\ DOMAIN VotesIn(list, n) = 1 .. Cardinality(citing)
      /\ \A r \in 1 .. Cardinality(citing) :
           VotesIn(list, n)[r] = Vote(list[Ranked(citing, r)], n)
  BY DEF VotesIn
<1>3. \A k \in citing : k \in DOMAIN list /\ n \in NodesOf(list[k])
  OBVIOUS
<1>4. \A k \in DOMAIN list : n \in NodesOf(list[k]) => k \in citing
  OBVIOUS
<1>. HIDE DEF citing
<1>5. /\ Cardinality(citing) \in Nat
      /\ \A k \in citing : /\ Rank(citing, k) \in 1 .. Cardinality(citing)
                           /\ Ranked(citing, Rank(citing, k)) = k
      /\ \A r \in 1 .. Cardinality(citing) : /\ Ranked(citing, r) \in citing
                                              /\ Rank(citing, Ranked(citing, r)) = r
  BY <1>1, RanksNumber
<1>6. caller \in [places -> callers]
  BY <1>2, <1>3, <1>5
<1>7. \A r, s \in places : caller[r] = caller[s] => r = s
  <2>. SUFFICES ASSUME NEW r \in places, NEW s \in places, caller[r] = caller[s] PROVE r = s
    OBVIOUS
  <2>1. Ranked(citing, r) = Ranked(citing, s)
    BY <1>2, <1>3, <1>5 DEF Distinct
  <2>. QED BY <1>2, <1>5, <2>1
<1>8. \A i \in callers : \E r \in places : caller[r] = i
  <2>. SUFFICES ASSUME NEW i \in callers PROVE \E r \in places : caller[r] = i
    OBVIOUS
  <2>1. PICK k \in DOMAIN list : list[k] = i
    OBVIOUS
  <2>2. k \in citing
    BY <1>4, <2>1
  <2>3. Rank(citing, k) \in places
    BY <1>2, <1>5, <2>1, <2>2
  <2>. QED BY <1>5, <2>1, <2>2, <2>3
<1>9. IsFiniteSet(places)
  <2>1. IsFiniteSet(1 .. Cardinality(citing)) /\ places \in SUBSET (1 .. Cardinality(citing))
    BY <1>2, <1>5, FS_Interval
  <2>. HIDE DEF places
  <2>. QED BY <2>1, FS_Subset
<1>10. /\ Counts(VotesIn(list, n), x) = places
       /\ Callers(Candidates(list), n, x) = callers
  BY DEF Counts, Callers, Candidates
<1>11. Cardinality(places) = Cardinality(callers)
  <2>. HIDE DEF places, callers, caller
  <2>1. caller \in Bijection(places, callers)
    BY <1>6, <1>7, <1>8 DEF Bijection, Injection, Surjection, IsInjective
  <2>2. ExistsBijection(places, callers)
    BY <2>1 DEF ExistsBijection
  <2>. QED BY <1>9, <2>2, FS_Bijection
<1>. QED BY <1>9, <1>10, <1>11 DEF Times

(* Of labels that differ in length or casefold it never matters which was  *)
(* counted first.                                                          *)
LEMMA PreferredWhenApart ==
  ASSUME NEW counted, NEW x, NEW y, Times(counted, x) \in Nat, Times(counted, y) \in Nat,
         Length[x] \in Nat, Length[y] \in Nat, Folded[x] \in Nat, Folded[y] \in Nat,
         Length[x] # Length[y] \/ Folded[x] # Folded[y]
  PROVE  Preferred(counted, x, y)
           <=> \/ Times(counted, x) > Times(counted, y)
               \/ /\ Times(counted, x) = Times(counted, y)
                  /\ \/ Length[x] > Length[y]
                     \/ Length[x] = Length[y] /\ Folded[x] < Folded[y]
<1>. DEFINE Key(t) == <<-Times(counted, t), -Length[t], Folded[t], FirstCount(counted, t)>>
            Before(n) == /\ Key(x)[n] < Key(y)[n]
                         /\ \A m \in 1 .. n - 1 : Key(x)[m] = Key(y)[m]
<1>1. Preferred(counted, x, y) <=> \E n \in 1 .. 4 : Before(n)
  BY DEF Preferred
<1>2. \A t : /\ Key(t)[1] = -Times(counted, t) /\ Key(t)[2] = -Length[t]
              /\ Key(t)[3] = Folded[t]
  OBVIOUS
<1>. HIDE DEF Key
<1>3. Before(1) <=> Times(counted, x) > Times(counted, y)
  BY <1>2
<1>4. Before(2) <=> Times(counted, x) = Times(counted, y) /\ Length[x] > Length[y]
  <2>1. 1 .. 2 - 1 = {1}
    OBVIOUS
  <2>2. Before(2) <=> Key(x)[2] < Key(y)[2] /\ Key(x)[1] = Key(y)[1]
    BY <2>1
  <2>. QED BY <1>2, <2>2
<1>5. Before(3) <=> /\ Times(counted, x) = Times(counted, y) /\ Length[x] = Length[y]
                    /\ Folded[x] < Folded[y]
  <2>1. 1 .. 3 - 1 = {1, 2}
    OBVIOUS
  <2>2. Before(3) <=> Key(x)[3] < Key(y)[3] /\ Key(x)[1] = Key(y)[1] /\ Key(x)[2] = Key(y)[2]
    BY <2>1
  <2>. QED BY <1>2, <2>2
<1>6. ~Before(4)
  <2>1. 2 \in 1 .. 4 - 1 /\ 3 \in 1 .. 4 - 1
    OBVIOUS
  <2>2. Before(4) => Key(x)[2] = Key(y)[2] /\ Key(x)[3] = Key(y)[3]
    BY <2>1
  <2>. QED BY <1>2, <2>2
<1>. HIDE DEF Before
<1>7. (\E n \in 1 .. 4 : Before(n)) <=> Before(1) \/ Before(2) \/ Before(3) \/ Before(4)
  <2>1. 1 .. 4 = {1, 2, 3, 4}
    OBVIOUS
  <2>. QED BY <2>1
<1>. QED BY <1>1, <1>3, <1>4, <1>5, <1>6, <1>7

(* A label is a candidate exactly if it was counted at all.                *)
LEMMA TimesTell ==
  ASSUME NEW counted, NEW x, IsFiniteSet(Counts(counted, x))
  PROVE  Times(counted, x) \in Nat /\ (x \in Candidates(counted) <=> Times(counted, x) # 0)
<1>1. x \in Candidates(counted) <=> Counts(counted, x) # {}
  BY DEF Candidates, Counts
<1>2. /\ Cardinality(Counts(counted, x)) \in Nat
      /\ Cardinality(Counts(counted, x)) = 0 <=> Counts(counted, x) = {}
  BY FS_CardinalityType, FS_EmptySet
<1>. QED BY <1>1, <1>2 DEF Times

(* Labels that were counted equally often are chosen from alike.           *)
LEMMA SameLabel ==
  ASSUME NEW S, NEW s, NEW t, Candidates(s) \subseteq S,
         \A x : IsFiniteSet(Counts(s, x)) /\ IsFiniteSet(Counts(t, x)),
         \A x : Times(s, x) = Times(t, x),
         \A x, y \in S : x # y =>
           /\ Length[x] \in Nat /\ Length[y] \in Nat /\ Folded[x] \in Nat /\ Folded[y] \in Nat
           /\ Length[x] # Length[y] \/ Folded[x] # Folded[y]
  PROVE  Label(s) = Label(t)
<1>1. ASSUME NEW x
      PROVE  /\ Times(s, x) \in Nat /\ Times(t, x) = Times(s, x)
             /\ x \in Candidates(s) <=> x \in Candidates(t)
  <2>1. Times(s, x) \in Nat /\ (x \in Candidates(s) <=> Times(s, x) # 0)
    BY TimesTell
  <2>2. Times(t, x) \in Nat /\ (x \in Candidates(t) <=> Times(t, x) # 0)
    BY TimesTell
  <2>3. Times(s, x) = Times(t, x)
    BY Zenon
  <2>. QED BY <2>1, <2>2, <2>3, Zenon
<1>2. Candidates(s) = Candidates(t)
  BY <1>1
<1>3. ASSUME NEW x \in S, NEW y \in S, x # y PROVE Preferred(s, x, y) <=> Preferred(t, x, y)
  <2>1. /\ Length[x] \in Nat /\ Length[y] \in Nat /\ Folded[x] \in Nat /\ Folded[y] \in Nat
        /\ Length[x] # Length[y] \/ Folded[x] # Folded[y]
    BY <1>3
  <2>2. /\ Times(s, x) \in Nat /\ Times(s, y) \in Nat
        /\ Times(t, x) = Times(s, x) /\ Times(t, y) = Times(s, y)
    BY <1>1, Zenon
  <2>3. Preferred(s, x, y)
           <=> \/ Times(s, x) > Times(s, y)
               \/ /\ Times(s, x) = Times(s, y)
                  /\ \/ Length[x] > Length[y]
                     \/ Length[x] = Length[y] /\ Folded[x] < Folded[y]
    BY <2>1, <2>2, PreferredWhenApart
  <2>4. Preferred(t, x, y)
           <=> \/ Times(t, x) > Times(t, y)
               \/ /\ Times(t, x) = Times(t, y)
                  /\ \/ Length[x] > Length[y]
                     \/ Length[x] = Length[y] /\ Folded[x] < Folded[y]
    BY <2>1, <2>2, PreferredWhenApart
  <2>. QED BY <2>2, <2>3, <2>4
<1>6. Foremost(s) = Foremost(t)
  BY <1>2, <1>3 DEF Foremost
<1>. QED BY <1>6 DEF Label

(* What is returned has counted the votes in the order of the evidence.    *)
LEMMA ReturnedVotes ==
  ASSUME TypeOK, MapMatchesEvidence, LabelsInOrder, Returned,
         NEW n \in DOMAIN nodes, n[1] # "organization"
  PROVE  nodes[n].labels = VotesIn(evidence, n)
<1>. DEFINE citing == {k \in DOMAIN evidence : n \in NodesOf(evidence[k])}
<1>1. evidence \in Seq(Identities)
  BY TopographyAssumption DEF TypeOK, PlaceTyped
<1>2. {k \in DOMAIN evidence : evidence[k] \in nodes[n].evidence} = citing
  BY DEF MapMatchesEvidence, Given
<1>3. citing \in SUBSET Nat /\ IsFiniteSet(citing)
  BY <1>1, CitingPlaces
<1>4. /\ Len(nodes[n].labels) = Cardinality(citing)
      /\ \A k \in citing : nodes[n].labels[Rank(citing, k)] = Vote(evidence[k], n)
  BY <1>2 DEF LabelsInOrder, LabelledByVotes
<1>5. nodes[n].labels \in Seq(Texts \cup {You})
  BY DEF TypeOK, NodesTyped
<1>6. VotesIn(evidence, n)
        = [r \in 1 .. Cardinality(citing) |-> Vote(evidence[Ranked(citing, r)], n)]
  BY DEF VotesIn
<1>. HIDE DEF citing
<1>7. \A r \in 1 .. Cardinality(citing) :
        nodes[n].labels[r] = Vote(evidence[Ranked(citing, r)], n)
  <2>. SUFFICES ASSUME NEW r \in 1 .. Cardinality(citing)
                PROVE  nodes[n].labels[r] = Vote(evidence[Ranked(citing, r)], n)
    OBVIOUS
  <2>1. Ranked(citing, r) \in citing /\ Rank(citing, Ranked(citing, r)) = r
    BY <1>3, RanksNumber
  <2>. QED BY <1>4, <2>1
<1>8. nodes[n].labels = [r \in 1 .. Cardinality(citing) |-> nodes[n].labels[r]]
  BY <1>4, <1>5
<1>. QED BY <1>6, <1>7, <1>8

(* Labels of the same length that differ in case alone are the only reason *)
(* for the order of the evidence to show: "input order cannot affect       *)
(* output" where there are none, and no message is listed twice.           *)
THEOREM OrderShowsInTiesOnly ==
  ASSUME \A list \in Inputs : Distinct(list),
         \A x, y \in Texts : Length[x] = Length[y] /\ Folded[x] = Folded[y] => x = y
  PROVE  Spec => []InputOrderIrrelevant
<1>1. ASSUME TypeOK, MapMatchesEvidence, LabelsInOrder, Returned,
             NEW other \in Inputs, {other[k] : k \in DOMAIN other} = Given,
             NEW n \in DOMAIN nodes, n[1] # "organization"
      PROVE  Label(nodes[n].labels) = Label(VotesIn(other, n))
  <2>1. evidence \in Seq(Identities) /\ other \in Seq(Identities)
    BY <1>1, TopographyAssumption DEF TypeOK, PlaceTyped
  <2>2. Distinct(evidence) /\ Distinct(other)
    BY <1>1 DEF TypeOK, PlaceTyped
  <2>3. nodes[n].labels = VotesIn(evidence, n)
    BY <1>1, ReturnedVotes
  <2>4. ASSUME NEW list \in Seq(Identities), NEW k \in DOMAIN VotesIn(list, n)
        PROVE  VotesIn(list, n)[k] \in TextsFor(n)
    <3>. DEFINE citing == {j \in DOMAIN list : n \in NodesOf(list[j])}
    <3>1. /\ k \in 1 .. Cardinality(citing)
          /\ VotesIn(list, n)[k] = Vote(list[Ranked(citing, k)], n)
      BY DEF VotesIn
    <3>2. citing \in SUBSET Nat /\ IsFiniteSet(citing)
      BY CitingPlaces
    <3>3. Ranked(citing, k) \in citing
      <4>. HIDE DEF citing
      <4>. QED BY <3>1, <3>2, RanksNumber
    <3>4. /\ list[Ranked(citing, k)] \in Identities
          /\ n \in NodesOf(list[Ranked(citing, k)])
      BY <3>3
    <3>. QED BY <1>1, <3>1, <3>4, VoteTyped
  <2>5. Candidates(VotesIn(evidence, n)) \subseteq TextsFor(n)
    BY <2>1, <2>4 DEF Candidates
  <2>6. \A x, y \in TextsFor(n) : x # y =>
          /\ Length[x] \in Nat /\ Length[y] \in Nat /\ Folded[x] \in Nat /\ Folded[y] \in Nat
          /\ Length[x] # Length[y] \/ Folded[x] # Folded[y]
    BY TopographyAssumption DEF TextsFor
  <2>7. Candidates(evidence) = Candidates(other)
    BY <1>1 DEF Candidates, Given
  <2>8. \A x : /\ IsFiniteSet(Counts(VotesIn(evidence, n), x))
                /\ IsFiniteSet(Counts(VotesIn(other, n), x))
                /\ Times(VotesIn(evidence, n), x) = Times(VotesIn(other, n), x)
    BY <2>1, <2>2, <2>7, VotesCounted
  <2>9. Label(VotesIn(evidence, n)) = Label(VotesIn(other, n))
    <3>. DEFINE s == VotesIn(evidence, n)
                t == VotesIn(other, n)
                S == TextsFor(n)
    <3>1. /\ Candidates(s) \subseteq S
          /\ \A x : IsFiniteSet(Counts(s, x)) /\ IsFiniteSet(Counts(t, x))
          /\ \A x : Times(s, x) = Times(t, x)
          /\ \A x, y \in S : x # y =>
               /\ Length[x] \in Nat /\ Length[y] \in Nat /\ Folded[x] \in Nat /\ Folded[y] \in Nat
               /\ Length[x] # Length[y] \/ Folded[x] # Folded[y]
      BY <2>5, <2>6, <2>8
    <3>. HIDE DEF s, t, S
    <3>2. Label(s) = Label(t)
      BY <3>1, SameLabel
    <3>. QED BY <3>2 DEF s, t
  <2>. QED BY <2>3, <2>9
<1>2. TypeOK /\ MapMatchesEvidence /\ LabelsInOrder => InputOrderIrrelevant
  BY <1>1 DEF InputOrderIrrelevant
<1>. QED BY <1>2, TypeCorrect, MapIsComplete, LabelsInOrderHolds, PTL
=============================================================================
