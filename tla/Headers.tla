------------------------------- MODULE Headers -------------------------------
(***************************************************************************)
(* What the MBOX connector keeps of the address headers of a message, and  *)
(* whom the projection then takes for its participants.                    *)
(*                                                                         *)
(* A header is a sequence of entries [name, raw], as getaddresses splits   *)
(* it, with decoded names.                                                 *)
(***************************************************************************)
EXTENDS Integers, Sequences

CONSTANTS
  Normal,    \* Normal[raw]: _normalize_address of an address as written
  NoAddress  \* its value for what is no address

Unnamed == ""

Place(known, address) == {k \in DOMAIN known : known[k][1] = address}

(* Fault: the last name wins, also when it is empty.                       *)
EnterLast(known, entry) ==
  LET address == Normal[entry.raw]
      place == Place(known, address)
  IN  IF address = NoAddress THEN known
      ELSE IF place = {} THEN Append(known, <<address, entry.name>>)
      ELSE [k \in DOMAIN known |-> IF k \in place THEN <<address, entry.name>> ELSE known[k]]

(* One entry more in a dict keyed by address: an address keeps the place   *)
(* of its first mention, and its name is replaced as long as it has none.  *)
Enter(known, entry) ==
  LET address == Normal[entry.raw]
      place == Place(known, address)
  IN  IF address = NoAddress THEN known
      ELSE IF place = {} THEN Append(known, <<address, entry.name>>)
      ELSE [k \in DOMAIN known |->
             IF k \in place /\ known[k][2] = Unnamed THEN <<address, entry.name>>
             ELSE known[k]]

(* The dict after each of the entries of a header.                         *)
DictAfter(header) ==
  LET dict[n \in 0 .. Len(header)] ==
        IF n = 0 THEN <<>> ELSE Enter(dict[n - 1], header[n])
  IN  dict

Deduplicated(header) == DictAfter(header)[Len(header)]

(* A message is a record of its headers from, to, cc and bcc.              *)
RecipientHeaders(message) == message.to \o message.cc \o message.bcc
Recipients(message) == Deduplicated(RecipientHeaders(message))

(* The first of From, if there is one.                                     *)
Sender(message) ==
  LET all == Deduplicated(message.from) IN IF all = <<>> THEN <<>> ELSE <<all[1]>>

(* Sender and recipients as the projection reads them, who are called by   *)
(* their address when they have no name.                                   *)
EmailParticipants(message) ==
  LET all == Sender(message) \o Recipients(message)
  IN  [k \in DOMAIN all |-> IF all[k][2] = Unnamed THEN <<all[k][1], all[k][1]>> ELSE all[k]]

-----------------------------------------------------------------------------
(* What Deduplicated should keep of a header, stated without a dict.       *)
Mentions(header, address) == {k \in DOMAIN header : Normal[header[k].raw] = address}
Mentioned(header) == {Normal[header[k].raw] : k \in DOMAIN header} \ {NoAddress}
First(places) == CHOOSE k \in places : \A l \in places : k <= l

(* The first name that any mention gives the address.                      *)
NameGiven(header, address) ==
  LET named == {k \in Mentions(header, address) : header[k].name # Unnamed}
  IN  IF named = {} THEN Unnamed ELSE header[First(named)].name

(* However often and in whatever spelling an address is mentioned, it is   *)
(* kept once, in the order of first mentions, under the name given;        *)
(* nothing else is kept.                                                   *)
KeptOnce(header) ==
  LET kept == Deduplicated(header)
      FirstAt(k) == First(Mentions(header, kept[k][1]))
  IN  /\ {kept[k][1] : k \in DOMAIN kept} = Mentioned(header)
      /\ \A k, l \in DOMAIN kept : k < l => FirstAt(k) < FirstAt(l)
      /\ \A k \in DOMAIN kept : kept[k][2] = NameGiven(header, kept[k][1])
=============================================================================
