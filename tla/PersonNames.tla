----------------------------- MODULE PersonNames -----------------------------
(***************************************************************************)
(* Connector and projection together: the participants the projector reads *)
(* are those the connector kept of the headers of each message.            *)
(***************************************************************************)
EXTENDS Topography, Headers

CONSTANTS
  Raw,           \* Raw[i]: the address headers of message i
  Continuations  \* bound: how a list of recipients may go on

Entry == [name : Texts \cup {Unnamed}, raw : DOMAIN Normal]
HeaderSets == [from : Seq(Entry), to : Seq(Entry), cc : Seq(Entry), bcc : Seq(Entry)]

ASSUME MailAssumption ==
  /\ Raw \in [Identities -> HeaderSets]
  /\ Continuations \subseteq Seq(Entry)
  /\ \A i \in Identities : Participants[i] = EmailParticipants(Raw[i])

(* What message i calls the person with an address: the first name given   *)
(* where the address first takes part, or else the address.                *)
Called(i, address) ==
  LET sends == Sender(Raw[i]) # <<>> /\ Sender(Raw[i])[1][1] = address
      given == NameGiven(IF sends THEN Raw[i].from ELSE RecipientHeaders(Raw[i]), address)
  IN  IF given = Unnamed THEN address ELSE given

(* The labels counted for person n are what the messages it cites call it, *)
(* in the order of the evidence.                                           *)
LabelledAsCalled(n) ==
  LET citing == {k \in DOMAIN evidence : evidence[k] \in nodes[n].evidence}
  IN  /\ Len(nodes[n].labels) = Cardinality(citing)
      /\ \A k \in citing : nodes[n].labels[Rank(citing, k)] = Called(evidence[k], n[2])

(* However often, in whatever spelling and with or without a name a message*)
(* mentions an address, its recipients are kept once each, however their   *)
(* list goes on, and its vote on a person's label is the first of the      *)
(* names it gives them.                                                    *)
PersonsNamedAsMentioned ==
  /\ item = 1 /\ turn = 0 =>
       \A i \in Given, more \in Continuations : KeptOnce(RecipientHeaders(Raw[i]) \o more)
  /\ \A n \in DOMAIN nodes : n[1] = "person" => LabelledAsCalled(n)
=============================================================================
