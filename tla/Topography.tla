------------------------------ MODULE Topography ------------------------------
(***************************************************************************)
(* build_topography: the deterministic projection from email-header        *)
(* evidence to a map of people, organizations and threads.                 *)
(*                                                                         *)
(* The projector takes one message after the other, and in a message one   *)
(* participant after the other, and touches nodes and edges.  Node and     *)
(* edge ids are hashes of what they are made of here.  The dates of a node *)
(* or edge are those of its evidence and are left out.                     *)
(***************************************************************************)
EXTENDS Integers, Sequences, FiniteSets

CONSTANTS
  Identities,       \* of evidence items
  Addresses,        \* valid, normalized addresses
  Texts,            \* display names, subjects, addresses and domains as labels
  Participants,     \* Participants[i]: sender and recipients, <<address, name or address>>
  Subject,          \* Subject[i]: the subject without reply prefixes, a label
  ThreadKey,        \* ThreadKey[i]: the normalized subject
  Domain,           \* Domain[a]: what follows the @
  PersonalDomains,  \* domains that are no organization
  Length, Folded,   \* of a label: its length, and the rank of its casefold
  Inputs,           \* lists of evidence the projector is called with
  OwnerSets         \* owner addresses it is called with

ASSUME TopographyAssumption ==
  /\ Participants \in [Identities -> Seq(Addresses \X Texts)]
  /\ Subject \in [Identities -> Texts]
  /\ Domain \in [Addresses -> Texts]
  /\ Length \in [Texts -> Nat] /\ Folded \in [Texts -> Nat]
  /\ Inputs \subseteq Seq(Identities)
  /\ OwnerSets \subseteq SUBSET Addresses

VARIABLES
  evidence,  \* the argument evidence
  owners,    \* the argument owner_addresses
  item,      \* position in evidence of the message at hand
  turn,      \* position of the participant at hand, 0 before the message is begun
  seen,      \* seen_addresses
  nodes,     \* nodes[n]: the labels counted, in order, and the evidence of node n
  edges      \* edges[e]: the evidence of edge e

vars == <<evidence, owners, item, turn, seen, nodes, edges>>

You == "You"
Self == <<"self", "self">>
Person(a) == <<"person", a>>
Organization(d) == <<"organization", d>>
Thread(i) == <<"thread", ThreadKey[i]>>

IsOrganization(a) == Domain[a] \notin PersonalDomains

InteractedWith(a) == <<"interacted_with", Self, Person(a)>>
MemberOf(a) == <<"member_of", Person(a), Organization(Domain[a])>>
ParticipatedIn(n, i) == <<"participated_in", n, Thread(i)>>

Current == evidence[item]
Address == Participants[Current][turn][1]
Name == Participants[Current][turn][2]

(* _touch_node for every node that gets a label.                           *)
TouchNodes(label) ==
  nodes' = [n \in DOMAIN nodes \cup DOMAIN label |->
    LET old == IF n \in DOMAIN nodes THEN nodes[n] ELSE [labels |-> <<>>, evidence |-> {}]
    IN  IF n \in DOMAIN label
        THEN [labels |-> Append(old.labels, label[n]), evidence |-> old.evidence \cup {Current}]
        ELSE old]

(* _touch_edge for every edge of a set.                                    *)
TouchEdges(touched) ==
  edges' = [e \in DOMAIN edges \cup touched |->
    (IF e \in DOMAIN edges THEN edges[e] ELSE {}) \cup (IF e \in touched THEN {Current} ELSE {})]
-----------------------------------------------------------------------------
AtMessage == item <= Len(evidence) /\ turn = 0
AtParticipant == item <= Len(evidence) /\ turn \in 1 .. Len(Participants[Current])

(* A message without participants does not appear in the map.              *)
SkipMessage ==
  /\ AtMessage /\ Participants[Current] = <<>>
  /\ item' = item + 1
  /\ UNCHANGED <<evidence, owners, turn, seen, nodes, edges>>

(* Fault: seen_addresses is made once, before the first message.           *)
BeginMessageKeepsSeen ==
  /\ AtMessage /\ Participants[Current] # <<>>
  /\ TouchNodes([n \in {Self, Thread(Current)} |-> IF n = Self THEN You ELSE Subject[Current]])
  /\ turn' = 1
  /\ UNCHANGED <<evidence, owners, item, seen, edges>>

(* Fault: the thread is labelled with its key, not with its subject.       *)
BeginMessageLabelsKey ==
  /\ AtMessage /\ Participants[Current] # <<>>
  /\ TouchNodes([n \in {Self, Thread(Current)} |-> IF n = Self THEN You ELSE ThreadKey[Current]])
  /\ turn' = 1 /\ seen' = {}
  /\ UNCHANGED <<evidence, owners, item, edges>>

(* Every other message touches the self node, whoever wrote it, and its    *)
(* thread.                                                                 *)
BeginMessage ==
  /\ AtMessage /\ Participants[Current] # <<>>
  /\ TouchNodes([n \in {Self, Thread(Current)} |-> IF n = Self THEN You ELSE Subject[Current]])
  /\ turn' = 1 /\ seen' = {}
  /\ UNCHANGED <<evidence, owners, item, edges>>

(* Fault: nobody asks whether the address came before in this message.     *)
NeverRepeated == FALSE

(* A sender may also be a recipient.                                       *)
Repeated == Address \in seen

SkipRepeated ==
  /\ AtParticipant /\ Repeated
  /\ turn' = turn + 1
  /\ UNCHANGED <<evidence, owners, item, seen, nodes, edges>>

(* An owner's address is no person: the self node takes part.              *)
TakeOwner ==
  /\ AtParticipant /\ ~Repeated /\ Address \in owners
  /\ TouchEdges({ParticipatedIn(Self, Current)})
  /\ turn' = turn + 1 /\ seen' = seen \cup {Address}
  /\ UNCHANGED <<evidence, owners, item, nodes>>

(* Fault: personal domains are excluded as nodes but not as targets.       *)
TakePersonOfAnyDomain ==
  /\ AtParticipant /\ ~Repeated /\ Address \notin owners
  /\ LET who == Person(Address)
         org == Organization(Domain[Address]) IN
       /\ TouchNodes([n \in {who} \cup (IF IsOrganization(Address) THEN {org} ELSE {}) |->
                        IF n = who THEN Name ELSE Domain[Address]])
       /\ TouchEdges({InteractedWith(Address), ParticipatedIn(who, Current), MemberOf(Address)})
  /\ turn' = turn + 1 /\ seen' = seen \cup {Address}
  /\ UNCHANGED <<evidence, owners, item>>

(* Any other address is a person, and its domain an organization unless    *)
(* everybody can have an address there.                                    *)
TakePerson ==
  /\ AtParticipant /\ ~Repeated /\ Address \notin owners
  /\ LET who == Person(Address)
         org == Organization(Domain[Address]) IN
       /\ TouchNodes([n \in {who} \cup (IF IsOrganization(Address) THEN {org} ELSE {}) |->
                        IF n = who THEN Name ELSE Domain[Address]])
       /\ TouchEdges({InteractedWith(Address), ParticipatedIn(who, Current)}
                       \cup (IF IsOrganization(Address) THEN {MemberOf(Address)} ELSE {}))
  /\ turn' = turn + 1 /\ seen' = seen \cup {Address}
  /\ UNCHANGED <<evidence, owners, item>>

EndMessage ==
  /\ item <= Len(evidence) /\ turn = Len(Participants[Current]) + 1 /\ turn > 1
  /\ item' = item + 1 /\ turn' = 0
  /\ UNCHANGED <<evidence, owners, seen, nodes, edges>>
-----------------------------------------------------------------------------
Init ==
  /\ evidence \in Inputs /\ owners \in OwnerSets
  /\ item = 1 /\ turn = 0 /\ seen = {}
  /\ nodes = <<>> /\ edges = <<>>

Next ==
  \/ SkipMessage \/ BeginMessage \/ EndMessage
  \/ SkipRepeated \/ TakeOwner \/ TakePerson

Spec == Init /\ [][Next]_vars

Returned == item > Len(evidence)

(* _project_node: the most frequent label; of those the longest; of those  *)
(* the first by casefold; of those the one counted first.                  *)
Counts(counted, t) == {k \in DOMAIN counted : counted[k] = t}
Times(counted, t) == Cardinality(Counts(counted, t))
FirstCount(counted, t) ==
  CHOOSE k \in Counts(counted, t) : \A j \in Counts(counted, t) : k <= j

Preferred(counted, t, u) ==
  LET Key(x) == <<-Times(counted, x), -Length[x], Folded[x], FirstCount(counted, x)>>
  IN  \E n \in 1 .. 4 : Key(t)[n] < Key(u)[n] /\ \A m \in 1 .. n - 1 : Key(t)[m] = Key(u)[m]

Candidates(counted) == {counted[k] : k \in DOMAIN counted}
Foremost(counted) ==
  {t \in Candidates(counted) :
     \A u \in Candidates(counted) \ {t} : Preferred(counted, t, u)}

Label(counted) == CHOOSE t \in Foremost(counted) : TRUE
-----------------------------------------------------------------------------
(* What the map of a message is, as a set of nodes and a set of edges, and *)
(* what its first participants contribute.                                 *)
Among(i, n) == {Participants[i][k][1] : k \in {j \in DOMAIN Participants[i] : j < n}}

PeopleAmong(i, n) == Among(i, n) \ owners

NodesUpTo(i, n) ==
  IF n = 0 THEN {}
  ELSE {Self, Thread(i)} \cup {Person(a) : a \in PeopleAmong(i, n)}
         \cup {Organization(Domain[a]) : a \in {x \in PeopleAmong(i, n) : IsOrganization(x)}}

EdgesUpTo(i, n) ==
  IF n = 0 THEN {}
  ELSE {InteractedWith(a) : a \in PeopleAmong(i, n)}
         \cup {ParticipatedIn(Person(a), i) : a \in PeopleAmong(i, n)}
         \cup {ParticipatedIn(Self, i) : a \in Among(i, n) \cap owners}
         \cup {MemberOf(a) : a \in {x \in PeopleAmong(i, n) : IsOrganization(x)}}

Whole(i) == IF Participants[i] = <<>> THEN 0 ELSE Len(Participants[i]) + 1

NodesOf(i) == NodesUpTo(i, Whole(i))
EdgesOf(i) == EdgesUpTo(i, Whole(i))

(* How far message k of the list has come: not begun, up to the            *)
(* participant at hand, or whole.                                          *)
Reached(k) == IF k > item THEN 0 ELSE IF k = item THEN turn ELSE Whole(evidence[k])

Given == {evidence[k] : k \in DOMAIN evidence}
-----------------------------------------------------------------------------
PlaceTyped ==
  /\ evidence \in Inputs /\ owners \in OwnerSets
  /\ item \in 1 .. Len(evidence) + 1
  /\ turn \in 0 .. (IF item <= Len(evidence) THEN Len(Participants[Current]) + 1 ELSE 0)
  /\ seen \subseteq Addresses
NodesTyped ==
  \A n \in DOMAIN nodes : /\ nodes[n].labels \in Seq(Texts \cup {You})
                          /\ nodes[n].evidence \subseteq Identities
EdgesTyped == \A e \in DOMAIN edges : edges[e] \subseteq Identities

TypeOK == PlaceTyped /\ NodesTyped /\ EdgesTyped

(* The map explains itself completely: a node or edge is there exactly if  *)
(* a message implies it, and cites exactly the messages that do, in        *)
(* whatever order the evidence came.                                       *)
MapMatchesEvidence ==
  Returned =>
    /\ DOMAIN nodes = UNION {NodesOf(i) : i \in Given}
    /\ \A n \in DOMAIN nodes : nodes[n].evidence = {i \in Given : n \in NodesOf(i)}
    /\ DOMAIN edges = UNION {EdgesOf(i) : i \in Given}
    /\ \A e \in DOMAIN edges : edges[e] = {i \in Given : e \in EdgesOf(i)}

(* Both ends of an edge are nodes, as replace_topography's foreign keys    *)
(* require, and each explains every message the edge cites.                *)
EdgesJoinNodes ==
  \A e \in DOMAIN edges : \A end \in {e[2], e[3]} :
    end \in DOMAIN nodes /\ edges[e] \subseteq nodes[end].evidence

(* A message has one vote on the label of the self node, of its thread and *)
(* of each person, also of one who is its sender and a recipient.          *)
OneVotePerMessage ==
  \A n \in DOMAIN nodes :
    n[1] # "organization" => Len(nodes[n].labels) = Cardinality(nodes[n].evidence)

(* The vote of message i on the label of node n: You, its subject, or the  *)
(* name under which an address takes part first.                           *)
FirstTurn(i, address) ==
  CHOOSE t \in DOMAIN Participants[i] :
    /\ Participants[i][t][1] = address
    /\ \A s \in DOMAIN Participants[i] : Participants[i][s][1] = address => t <= s

Vote(i, n) ==
  CASE n[1] = "person" -> Participants[i][FirstTurn(i, n[2])][2]
    [] n[1] = "thread" -> Subject[i]
    [] OTHER -> You

(* The how-manieth of a set of places k is, and the place of a rank.       *)
Rank(places, k) == Cardinality({j \in places : j <= k})
Ranked(places, r) == CHOOSE k \in places : Rank(places, k) = r

(* The votes on n of the messages that imply it, in the order of a list.   *)
VotesIn(list, n) ==
  LET citing == {k \in DOMAIN list : n \in NodesOf(list[k])}
  IN  [r \in 1 .. Cardinality(citing) |-> Vote(list[Ranked(citing, r)], n)]

(* "Input order cannot affect output": every label is the one it would be  *)
(* if the messages had come in any other order.  (Those of an organization *)
(* are all its domain.)                                                    *)
InputOrderIrrelevant ==
  Returned =>
    \A other \in Inputs :
      Len(other) = Len(evidence) /\ {other[k] : k \in DOMAIN other} = Given =>
        \A n \in DOMAIN nodes :
          n[1] # "organization" => Label(nodes[n].labels) = Label(VotesIn(other, n))

(* While a message is projected, the map is that of what was seen so far:  *)
(* the inductive invariant behind MapMatchesEvidence.                      *)
NodesAt(k) == NodesUpTo(evidence[k], Reached(k))
EdgesAt(k) == EdgesUpTo(evidence[k], Reached(k))
Citing(places) == {evidence[k] : k \in places}

SeenSoFar == turn > 0 => Participants[Current] # <<>> /\ seen = Among(Current, turn)

NodesSoFar ==
  /\ DOMAIN nodes = UNION {NodesAt(k) : k \in DOMAIN evidence}
  /\ \A n \in DOMAIN nodes :
       nodes[n].evidence = Citing({k \in DOMAIN evidence : n \in NodesAt(k)})

EdgesSoFar ==
  /\ DOMAIN edges = UNION {EdgesAt(k) : k \in DOMAIN evidence}
  /\ \A e \in DOMAIN edges :
       edges[e] = Citing({k \in DOMAIN evidence : e \in EdgesAt(k)})

ProjectionInvariant == SeenSoFar /\ NodesSoFar /\ EdgesSoFar
=============================================================================
