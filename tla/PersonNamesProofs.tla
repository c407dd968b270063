--------------------------- MODULE PersonNamesProofs ---------------------------
(***************************************************************************)
(* Persons are called as their messages name them, for all messages,       *)
(* headers and lists of evidence.                                          *)
(***************************************************************************)
EXTENDS PersonNames, TopographyProofs, HeadersProofs

(* What the connector keeps of a header is a list of pairs that has every  *)
(* address at one place only, with the name given.                         *)
LEMMA KeptPlaces ==
  ASSUME NEW Entries, NEW header \in Seq(Entries)
  PROVE  /\ Deduplicated(header) \in Seq(Pairs(header))
         /\ \A k \in DOMAIN Deduplicated(header) :
              Deduplicated(header)[k][2] = NameGiven(header, Deduplicated(header)[k][1])
         /\ \A k, l \in DOMAIN Deduplicated(header) :
              Deduplicated(header)[k][1] = Deduplicated(header)[l][1] => k = l
<1>. DEFINE kept == Deduplicated(header)
            FirstAt(k) == First(Mentions(header, kept[k][1]))
<1>1. kept \in Seq(Pairs(header))
  BY DictAfterKeeps
<1>2. /\ \A k, l \in DOMAIN kept : k < l => FirstAt(k) < FirstAt(l)
      /\ \A k \in DOMAIN kept : kept[k][2] = NameGiven(header, kept[k][1])
      /\ {kept[k][1] : k \in DOMAIN kept} = Mentioned(header)
  BY EveryAddressIsKeptOnce DEF KeptOnce
<1>3. ASSUME NEW k \in DOMAIN kept PROVE FirstAt(k) \in Nat /\ k \in Nat
  <2>1. Mentions(header, kept[k][1]) # {} /\ Mentions(header, kept[k][1]) \in SUBSET Nat
    BY <1>2 DEF Mentioned, Mentions
  <2>2. FirstAt(k) \in Nat
    BY <2>1, FirstIsLeast
  <2>. QED BY <1>1, <2>2
<1>4. ASSUME NEW k \in DOMAIN kept, NEW l \in DOMAIN kept, kept[k][1] = kept[l][1]
      PROVE  k = l
  <2>1. FirstAt(k) = FirstAt(l)
    BY <1>4
  <2>. HIDE DEF FirstAt, kept
  <2>. QED BY <1>2, <1>3, <2>1
<1>. QED BY <1>1, <1>2, <1>4

(* The name under which a participant takes part first is what its message calls it. *)
LEMMA VoteIsFirstName ==
  ASSUME NEW i \in Identities, NEW t \in DOMAIN Participants[i],
         \A s \in DOMAIN Participants[i] : s < t => Participants[i][s][1] # Participants[i][t][1]
  PROVE  Participants[i][t][2] = Called(i, Participants[i][t][1])
<1>. DEFINE from == Raw[i].from
            recipients == Recipients(Raw[i])
            sender == Sender(Raw[i])
            all == sender \o recipients
            Kept == Pairs(from) \cup Pairs(RecipientHeaders(Raw[i]))
<1>1. /\ Raw[i].from \in Seq(Entry) /\ Raw[i].to \in Seq(Entry)
      /\ Raw[i].cc \in Seq(Entry) /\ Raw[i].bcc \in Seq(Entry)
  BY MailAssumption DEF HeaderSets
<1>2. RecipientHeaders(Raw[i]) \in Seq(Entry)
  BY <1>1 DEF RecipientHeaders
<1>3. /\ recipients \in Seq(Kept)
      /\ \A k \in DOMAIN recipients :
           recipients[k][2] = NameGiven(RecipientHeaders(Raw[i]), recipients[k][1])
  <2>1. recipients \in Seq(Pairs(RecipientHeaders(Raw[i])))
    BY <1>2, KeptPlaces DEF Recipients
  <2>2. recipients \in Seq(Kept)
    BY <2>1, SeqMonotonic
  <2>. QED BY <1>2, <2>2, KeptPlaces DEF Recipients
<1>4. \/ sender = <<>>
      \/ \E e \in Kept : sender = <<e>> /\ e[2] = NameGiven(from, e[1])
  <2>1. /\ Deduplicated(from) \in Seq(Pairs(from))
        /\ \A k \in DOMAIN Deduplicated(from) :
             Deduplicated(from)[k][2] = NameGiven(from, Deduplicated(from)[k][1])
    BY <1>1, KeptPlaces
  <2>2. CASE Deduplicated(from) = <<>>
    BY <2>2 DEF Sender
  <2>3. CASE Deduplicated(from) # <<>>
    <3>1. 1 \in DOMAIN Deduplicated(from)
      BY <2>1, <2>3
    <3>2. sender = <<Deduplicated(from)[1]>>
      BY <2>3 DEF Sender
    <3>. QED BY <2>1, <3>1, <3>2
  <2>. QED BY <2>2, <2>3
<1>5. Participants[i]
        = [k \in DOMAIN all |-> IF all[k][2] = Unnamed THEN <<all[k][1], all[k][1]>> ELSE all[k]]
  BY MailAssumption DEF EmailParticipants
<1>. HIDE DEF recipients, sender, from
<1>6. /\ DOMAIN Participants[i] = DOMAIN all
      /\ \A k \in DOMAIN all : Participants[i][k][1] = all[k][1]
      /\ \A k \in DOMAIN all : Participants[i][k][2]
                                 = IF all[k][2] = Unnamed THEN all[k][1] ELSE all[k][2]
  <2>. HIDE DEF all
  <2>. QED BY <1>5
<1>7. CASE sender = <<>>
  <2>1. all = recipients
    BY <1>3, <1>7
  <2>2. t \in DOMAIN recipients /\ all[t][2] = NameGiven(RecipientHeaders(Raw[i]), all[t][1])
    BY <1>3, <1>6, <2>1
  <2>. HIDE DEF all
  <2>. QED BY <1>6, <1>7, <2>1, <2>2 DEF Called, sender
<1>8. ASSUME NEW e \in Kept, sender = <<e>>, e[2] = NameGiven(from, e[1])
      PROVE  Participants[i][t][2] = Called(i, Participants[i][t][1])
  <2>0. Len(sender) = 1 /\ sender # <<>> /\ sender \in Seq(Kept) /\ sender[1] = e
    <3>. HIDE DEF Kept
    <3>. QED BY <1>8
  <2>1. /\ DOMAIN all = 1 .. 1 + Len(recipients) /\ Len(recipients) \in Nat
        /\ all[1] = sender[1] /\ DOMAIN recipients = 1 .. Len(recipients)
        /\ \A k \in DOMAIN recipients : all[k + 1] = recipients[k]
    <3>. HIDE DEF Kept
    <3>1. /\ all \in Seq(Kept) /\ Len(all) = Len(sender) + Len(recipients)
          /\ \A k \in 1 .. Len(sender) + Len(recipients) :
               all[k] = IF k <= Len(sender) THEN sender[k] ELSE recipients[k - Len(sender)]
      BY <1>3, <2>0, ConcatProperties
    <3>2. /\ Len(recipients) \in Nat /\ DOMAIN recipients = 1 .. Len(recipients)
          /\ DOMAIN all = 1 .. Len(all)
      BY <1>3, <3>1
    <3>. HIDE DEF all
    <3>3. all[1] = sender[1]
      BY <2>0, <3>1, <3>2
    <3>4. ASSUME NEW k \in DOMAIN recipients PROVE all[k + 1] = recipients[k]
      <4>1. k + 1 \in 1 .. 1 + Len(recipients) /\ ~(k + 1 <= 1) /\ k + 1 - 1 = k
        BY <3>2
      <4>. QED BY <2>0, <3>1, <4>1
    <3>. QED BY <2>0, <3>1, <3>2, <3>3, <3>4
  <2>. HIDE DEF all
  <2>2. CASE t = 1
    <3>1. all[t][2] = NameGiven(from, all[t][1]) /\ sender[1][1] = all[t][1]
      BY <1>8, <2>1, <2>2
    <3>. QED BY <1>6, <2>0, <3>1 DEF Called, sender, from
  <2>3. CASE t # 1
    <3>1. t - 1 \in DOMAIN recipients /\ t = t - 1 + 1 /\ 1 < t /\ 1 \in DOMAIN all /\ t \in DOMAIN all
      BY <1>6, <2>1, <2>3
    <3>2. all[t] = recipients[t - 1]
      BY <2>1, <3>1
    <3>3. all[t][2] = NameGiven(RecipientHeaders(Raw[i]), all[t][1])
      BY <1>3, <3>1, <3>2
    <3>4. sender[1][1] # all[t][1]
      BY <1>6, <2>1, <3>1
    <3>. QED BY <1>6, <3>1, <3>3, <3>4 DEF Called, sender
  <2>. QED BY <2>2, <2>3
<1>. QED BY <1>4, <1>7, <1>8
-----------------------------------------------------------------------------
(* The projection lets a message vote as its headers call the person.      *)
LEMMA VotesAsCalled ==
  ASSUME NEW i \in Identities, NEW m, NEW n \in NodesUpTo(i, m), n[1] = "person"
  PROVE  Vote(i, n) = Called(i, n[2])
<1>1. PICK a \in PeopleAmong(i, m) : n = Person(a)
  BY DEF NodesUpTo, Self, Thread, Organization
<1>2. PICK s \in DOMAIN Participants[i] : Participants[i][s][1] = a
  BY DEF PeopleAmong, Among
<1>. DEFINE t == FirstTurn(i, a)
<1>3. /\ t \in DOMAIN Participants[i] /\ Participants[i][t][1] = a
      /\ \A u \in DOMAIN Participants[i] : Participants[i][u][1] = a => t <= u
  BY <1>2, HasFirstTurn
<1>4. DOMAIN Participants[i] \subseteq Nat
  <2>1. Participants[i] \in Seq(Addresses \X Texts)
    BY TopographyAssumption
  <2>. QED BY <2>1
<1>5. Vote(i, n) = Participants[i][t][2] /\ n[2] = a
  BY <1>1 DEF Vote, Person
<1>. HIDE DEF t
<1>6. \A u \in DOMAIN Participants[i] : u < t => Participants[i][u][1] # Participants[i][t][1]
  <2>. SUFFICES ASSUME NEW u \in DOMAIN Participants[i], u < t
                PROVE  Participants[i][u][1] # Participants[i][t][1]
    OBVIOUS
  <2>1. u \in Nat /\ t \in Nat
    BY <1>3, <1>4
  <2>2. ~(t <= u)
    BY <2>1
  <2>. QED BY <1>3, <2>2
<1>. QED BY <1>3, <1>5, <1>6, VoteIsFirstName

(* If no message is listed twice: recipients are kept once each, and a     *)
(* person's labels are what the citing messages call that person, one vote *)
(* each, in the order of the evidence.                                     *)
THEOREM PersonsAreNamedAsMentioned ==
  ASSUME \A list \in Inputs : Distinct(list)
  PROVE  Spec => []PersonsNamedAsMentioned
<1>1. ASSUME TypeOK, NEW i \in Given, NEW more \in Continuations
      PROVE  KeptOnce(RecipientHeaders(Raw[i]) \o more)
  <2>1. i \in Identities
    BY <1>1, TopographyAssumption DEF TypeOK, PlaceTyped, Given
  <2>2. Raw[i] \in HeaderSets /\ more \in Seq(Entry)
    BY <2>1, MailAssumption
  <2>3. RecipientHeaders(Raw[i]) \in Seq(Entry)
    BY <2>2 DEF HeaderSets, RecipientHeaders
  <2>4. RecipientHeaders(Raw[i]) \o more \in Seq(Entry)
    BY <2>2, <2>3
  <2>. QED BY <2>4, EveryAddressIsKeptOnce
<1>2. ASSUME TypeOK, ProjectionInvariant, LabelsInOrder,
             NEW n \in DOMAIN nodes, n[1] = "person"
      PROVE  LabelledAsCalled(n)
  <2>. DEFINE citing == {k \in DOMAIN evidence : evidence[k] \in nodes[n].evidence}
  <2>1. /\ Len(nodes[n].labels) = Cardinality(citing)
        /\ \A k \in citing : nodes[n].labels[Rank(citing, k)] = Vote(evidence[k], n)
    BY <1>2 DEF LabelsInOrder, LabelledByVotes
  <2>2. ASSUME NEW k \in citing PROVE Vote(evidence[k], n) = Called(evidence[k], n[2])
    <3>1. evidence[k] \in Identities
      BY <1>2, TopographyAssumption DEF TypeOK, PlaceTyped
    <3>2. PICK x \in DOMAIN evidence : n \in NodesAt(x) /\ evidence[x] = evidence[k]
      BY <1>2 DEF ProjectionInvariant, NodesSoFar, Citing
    <3>3. n \in NodesUpTo(evidence[k], Reached(x))
      BY <3>2 DEF NodesAt
    <3>. QED BY <1>2, <3>1, <3>3, VotesAsCalled
  <2>3. \A k \in citing : nodes[n].labels[Rank(citing, k)] = Called(evidence[k], n[2])
    BY <2>1, <2>2
  <2>. QED BY <2>1, <2>3 DEF LabelledAsCalled
<1>3. TypeOK /\ ProjectionInvariant /\ LabelsInOrder => PersonsNamedAsMentioned
  BY <1>1, <1>2 DEF PersonsNamedAsMentioned
<1>. QED BY <1>3, TypeCorrect, ProjectionInvariantHolds, LabelsInOrderHolds, PTL
-----------------------------------------------------------------------------
(* How labels are compared, written out.                                   *)
Better(counted, x, y) ==
  \/ Times(counted, x) > Times(counted, y)
  \/ /\ Times(counted, x) = Times(counted, y)
     /\ \/ Length[x] > Length[y]
        \/ /\ Length[x] = Length[y]
           /\ \/ Folded[x] < Folded[y]
              \/ Folded[x] = Folded[y] /\ FirstCount(counted, x) < FirstCount(counted, y)

Comparable(counted, x) ==
  /\ Times(counted, x) \in Nat /\ Length[x] \in Nat /\ Folded[x] \in Nat
  /\ FirstCount(counted, x) \in Nat /\ counted[FirstCount(counted, x)] = x

LEMMA PreferredIsBetter ==
  ASSUME NEW counted, NEW x, NEW y, Comparable(counted, x), Comparable(counted, y)
  PROVE  Preferred(counted, x, y) <=> Better(counted, x, y)
<1>. DEFINE Key(t) == <<-Times(counted, t), -Length[t], Folded[t], FirstCount(counted, t)>>
            Before(n) == /\ Key(x)[n] < Key(y)[n]
                         /\ \A m \in 1 .. n - 1 : Key(x)[m] = Key(y)[m]
<1>1. Preferred(counted, x, y) <=> \E n \in 1 .. 4 : Before(n)
  BY DEF Preferred
<1>2. \A t : /\ Key(t)[1] = -Times(counted, t) /\ Key(t)[2] = -Length[t]
              /\ Key(t)[3] = Folded[t] /\ Key(t)[4] = FirstCount(counted, t)
  OBVIOUS
<1>. HIDE DEF Key
<1>3. Before(1) <=> Key(x)[1] < Key(y)[1]
  OBVIOUS
<1>4. Before(2) <=> Key(x)[2] < Key(y)[2] /\ Key(x)[1] = Key(y)[1]
  <2>1. 1 .. 2 - 1 = {1}
    OBVIOUS
  <2>. QED BY <2>1
<1>5. Before(3) <=> Key(x)[3] < Key(y)[3] /\ Key(x)[1] = Key(y)[1] /\ Key(x)[2] = Key(y)[2]
  <2>1. 1 .. 3 - 1 = {1, 2}
    OBVIOUS
  <2>. QED BY <2>1
<1>6. Before(4) <=> /\ Key(x)[4] < Key(y)[4]
                    /\ Key(x)[1] = Key(y)[1] /\ Key(x)[2] = Key(y)[2] /\ Key(x)[3] = Key(y)[3]
  <2>1. 1 .. 4 - 1 = {1, 2, 3}
    OBVIOUS
  <2>. QED BY <2>1
<1>. HIDE DEF Before
<1>7. (\E n \in 1 .. 4 : Before(n)) <=> Before(1) \/ Before(2) \/ Before(3) \/ Before(4)
  <2>1. 1 .. 4 = {1, 2, 3, 4}
    OBVIOUS
  <2>. QED BY <2>1
<1>8. Before(1) \/ Before(2) \/ Before(3) \/ Before(4) <=> Better(counted, x, y)
  BY <1>2, <1>3, <1>4, <1>5, <1>6 DEF Comparable, Better
<1>. QED BY <1>1, <1>7, <1>8

(* Different labels are never equally good, and better is transitive.      *)
LEMMA BetterOrders ==
  ASSUME NEW counted, NEW x, NEW y, NEW z,
         Comparable(counted, x), Comparable(counted, y), Comparable(counted, z)
  PROVE  /\ x = y \/ Better(counted, x, y) \/ Better(counted, y, x)
         /\ ~(Better(counted, x, y) /\ Better(counted, y, x))
         /\ Better(counted, x, y) /\ Better(counted, y, z) => Better(counted, x, z)
<1>1. x # y => FirstCount(counted, x) # FirstCount(counted, y)
  BY DEF Comparable
<1>. QED BY <1>1 DEF Comparable, Better

(* Every label that was counted can be compared.                           *)
LEMMA CountedComparable ==
  ASSUME NEW counted \in Seq(Texts), NEW k \in DOMAIN counted
  PROVE  Comparable(counted, counted[k])
<1>. DEFINE x == counted[k]
            places == Counts(counted, x)
<1>1. /\ places \in SUBSET (1 .. Len(counted)) /\ places \in SUBSET Nat
      /\ IsFiniteSet(1 .. Len(counted)) /\ k \in places
      /\ \A j \in places : counted[j] = x
  <2>1. DOMAIN counted = 1 .. Len(counted) /\ Len(counted) \in Nat
    OBVIOUS
  <2>2. IsFiniteSet(1 .. Len(counted))
    BY <2>1, FS_Interval
  <2>. QED BY <2>1, <2>2 DEF Counts
<1>2. FirstCount(counted, x) = CHOOSE j \in places : \A l \in places : j <= l
  BY DEF FirstCount
<1>3. Times(counted, x) = Cardinality(places)
  BY DEF Times
<1>4. Length[x] \in Nat /\ Folded[x] \in Nat
  BY TopographyAssumption
<1>. HIDE DEF places, x
<1>5. FirstCount(counted, x) \in places
  BY <1>1, <1>2, LeastNumber
<1>6. Cardinality(places) \in Nat
  BY <1>1, FS_Subset, FS_CardinalityType
<1>7. FirstCount(counted, x) \in Nat /\ counted[FirstCount(counted, x)] = x
  BY <1>1, <1>5
<1>8. Comparable(counted, x)
  BY <1>3, <1>4, <1>6, <1>7 DEF Comparable
<1>. QED BY <1>8 DEF x

(* The label of a node is well defined: of any labels that were counted,   *)
(* exactly one is first in the order in which they are sorted.             *)
THEOREM LabelIsFirst ==
  ASSUME NEW counted \in Seq(Texts), counted # <<>>
  PROVE  /\ Label(counted) \in Candidates(counted)
         /\ Foremost(counted) = {Label(counted)}
<1>. DEFINE Best(b, n) == \A j \in 1 .. n : counted[j] = counted[b]
                                             \/ Better(counted, counted[b], counted[j])
            S == {n \in Nat : n = 0 \/ \E b \in 1 .. n : Best(b, n)}
<1>1. Len(counted) \in Nat /\ DOMAIN counted = 1 .. Len(counted) /\ Len(counted) # 0
  OBVIOUS
<1>2. ASSUME NEW n \in 0 .. Len(counted), n \in S, n < Len(counted) PROVE n + 1 \in S
  <2>1. n + 1 \in DOMAIN counted /\ n \in Nat /\ \A j \in 1 .. n + 1 : j \in 1 .. n \/ j = n + 1
    BY <1>1, <1>2
  <2>2. CASE n = 0
    <3>1. Best(1, 1)
      OBVIOUS
    <3>. HIDE DEF Best
    <3>. QED BY <2>2, <3>1
  <2>3. ASSUME NEW b \in 1 .. n, Best(b, n) PROVE n + 1 \in S
    <3>. DEFINE c == n + 1
    <3>1. b \in DOMAIN counted /\ b \in 1 .. c /\ c \in 1 .. c
      BY <1>1, <1>2
    <3>2. /\ Comparable(counted, counted[b]) /\ Comparable(counted, counted[c])
          /\ \A j \in 1 .. n : Comparable(counted, counted[j])
      <4>1. \A j \in 1 .. n : j \in DOMAIN counted
        BY <1>1, <1>2
      <4>. QED BY <2>1, <3>1, <4>1, CountedComparable
    <3>3. CASE counted[c] = counted[b] \/ Better(counted, counted[b], counted[c])
      <4>1. Best(b, c)
        BY <2>1, <2>3, <3>3
      <4>. HIDE DEF Best
      <4>. QED BY <2>1, <3>1, <4>1
    <3>4. CASE Better(counted, counted[c], counted[b])
      <4>1. ASSUME NEW j \in 1 .. n PROVE Better(counted, counted[c], counted[j])
        <5>1. counted[j] = counted[b] \/ Better(counted, counted[b], counted[j])
          BY <2>3
        <5>2. Comparable(counted, counted[j])
          BY <3>2
        <5>3. Better(counted, counted[b], counted[j]) => Better(counted, counted[c], counted[j])
          BY <3>2, <3>4, <5>2, BetterOrders
        <5>. QED BY <3>4, <5>1, <5>3
      <4>2. Best(c, c)
        BY <2>1, <4>1
      <4>. HIDE DEF Best
      <4>. QED BY <2>1, <3>1, <4>2
    <3>. QED BY <3>2, <3>3, <3>4, BetterOrders
  <2>. HIDE DEF Best
  <2>. QED BY <1>2, <2>2, <2>3
<1>3. Len(counted) \in S
  <2>1. 0 \in S
    OBVIOUS
  <2>. HIDE DEF S
  <2>2. 0 .. Len(counted) \subseteq S
    BY <1>1, <1>2, <2>1, InductionUpTo
  <2>. QED BY <1>1, <2>2
<1>4. PICK b \in DOMAIN counted : Best(b, Len(counted))
  <2>. HIDE DEF Best
  <2>. QED BY <1>1, <1>3
<1>5. ASSUME NEW j \in DOMAIN counted, counted[j] # counted[b]
      PROVE  Preferred(counted, counted[b], counted[j]) /\ ~Preferred(counted, counted[j], counted[b])
  <2>1. Better(counted, counted[b], counted[j])
    BY <1>1, <1>4, <1>5
  <2>2. Comparable(counted, counted[b]) /\ Comparable(counted, counted[j])
    BY CountedComparable
  <2>. QED BY <2>1, <2>2, BetterOrders, PreferredIsBetter
<1>6. Foremost(counted) = {counted[b]}
  BY <1>5 DEF Foremost, Candidates
<1>7. Label(counted) = counted[b]
  BY <1>6 DEF Label
<1>. QED BY <1>6, <1>7 DEF Candidates
=============================================================================
