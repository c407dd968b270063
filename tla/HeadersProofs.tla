----------------------------- MODULE HeadersProofs -----------------------------
(***************************************************************************)
(* The connector keeps every address of a header exactly once, for headers *)
(* of any length.                                                          *)
(***************************************************************************)
EXTENDS Headers, SequenceTheorems, WellFoundedInduction, TLAPS

(* A set of numbers has a least one.                                       *)
LEMMA LeastNumber ==
  ASSUME NEW T \in SUBSET Nat, T # {}
  PROVE  \E x \in T : \A y \in T : x <= y
<1>. DEFINE less == OpToRel(<, Nat)
<1>1. IsWellFoundedOn(less, Nat)
  BY NatLessThanWellFounded
<1>2. \A x, y \in Nat : x < y => <<x, y>> \in less
  BY DEF OpToRel
<1>. HIDE DEF less
<1>3. \E x \in T : \A y \in T : <<y, x>> \notin less
  BY <1>1, WFMin
<1>4. PICK x \in T : \A y \in T : <<y, x>> \notin less
  BY <1>3
<1>5. ASSUME NEW y \in T PROVE x <= y
  <2>1. x \in Nat /\ y \in Nat
    OBVIOUS
  <2>2. ~(y < x)
    BY <1>2, <1>4, <2>1
  <2>. QED BY <2>1, <2>2
<1>. QED BY <1>5

(* Induction: a set that holds 0 and with n also n + 1, up to a bound.     *)
LEMMA InductionUpTo ==
  ASSUME NEW m \in Nat, NEW S, 0 \in S,
         \A n \in 0 .. m : n \in S /\ n < m => n + 1 \in S
  PROVE  0 .. m \subseteq S
<1>. SUFFICES ASSUME (0 .. m) \ S # {} PROVE FALSE
  OBVIOUS
<1>. DEFINE missing == (0 .. m) \ S
<1>1. missing \in SUBSET Nat
  OBVIOUS
<1>2. PICK x \in missing : \A y \in missing : x <= y
  <2>. HIDE DEF missing
  <2>. QED BY <1>1, LeastNumber DEF missing
<1>3. x # 0 /\ x - 1 \in 0 .. m /\ x - 1 < m /\ x - 1 \in S
  BY <1>2
<1>. QED BY <1>2, <1>3

(* First is the least of a set of places.                                  *)
LEMMA FirstIsLeast ==
  ASSUME NEW T \in SUBSET Nat, T # {}
  PROVE  First(T) \in T /\ \A y \in T : First(T) <= y
BY LeastNumber DEF First

(* Only one place is the least.                                            *)
LEMMA FirstIs ==
  ASSUME NEW T \in SUBSET Nat, NEW x \in T, \A y \in T : x <= y
  PROVE  First(T) = x
<1>1. First(T) \in T /\ First(T) <= x
  BY FirstIsLeast
<1>2. x <= First(T) /\ x \in Nat /\ First(T) \in Nat
  BY <1>1
<1>. QED BY <1>1, <1>2
-----------------------------------------------------------------------------
(* The recursive definition defines something: what it says of the dict    *)
(* after each entry.                                                       *)
LEMMA DictAfterDef ==
  ASSUME NEW header, Len(header) \in Nat
  PROVE  /\ DictAfter(header)[0] = <<>>
         /\ \A n \in 1 .. Len(header) :
              DictAfter(header)[n] = Enter(DictAfter(header)[n - 1], header[n])
<1>. DEFINE m == Len(header)
            Body(f, k) == IF k = 0 THEN <<>> ELSE Enter(f[k - 1], header[k])
            Fits(f, n) == f = [k \in 0 .. n |-> Body(f, k)]
            Fitting == {n \in Nat : n <= m => \E f : Fits(f, n)}
<1>1. 0 \in Fitting
  <2>. DEFINE f == [k \in 0 .. 0 |-> <<>>]
  <2>1. Fits(f, 0)
    OBVIOUS
  <2>. QED BY <2>1
<1>2. ASSUME NEW n \in 0 .. m, n \in Fitting, n < m PROVE n + 1 \in Fitting
  <2>1. PICK f : Fits(f, n)
    BY <1>2
  <2>. DEFINE g == [k \in 0 .. n + 1 |-> IF k = n + 1 THEN Enter(f[n], header[n + 1]) ELSE f[k]]
  <2>2. ASSUME NEW k \in 0 .. n + 1 PROVE g[k] = Body(g, k)
    <3>1. CASE k = n + 1
      <4>1. k # 0 /\ k - 1 = n /\ g[n] = f[n]
        BY <3>1
      <4>. QED BY <3>1, <4>1
    <3>2. CASE k = 0
      <4>1. f[k] = <<>> /\ k # n + 1
        BY <2>1, <3>2
      <4>. QED BY <3>2, <4>1
    <3>3. CASE k \in 1 .. n
      <4>1. k - 1 \in 0 .. n /\ k \in 0 .. n /\ k # n + 1 /\ k - 1 # n + 1 /\ k # 0
        BY <3>3
      <4>2. g[k] = f[k] /\ g[k - 1] = f[k - 1]
        BY <4>1
      <4>3. f[k] = Body(f, k)
        BY <2>1, <4>1
      <4>. QED BY <4>1, <4>2, <4>3
    <3>. QED BY <3>1, <3>2, <3>3
  <2>3. Fits(g, n + 1)
    BY <2>2
  <2>4. n + 1 \in Nat
    OBVIOUS
  <2>. HIDE DEF Fits, g
  <2>. QED BY <2>3, <2>4
<1>3. m \in Fitting
  <2>. HIDE DEF Fitting
  <2>1. 0 .. m \subseteq Fitting
    BY <1>1, <1>2, InductionUpTo
  <2>. QED BY <2>1
<1>4. \E f : Fits(f, m)
  BY <1>3
<1>5. Fits(DictAfter(header), m)
  BY <1>4 DEF DictAfter
<1>. HIDE DEF Fits
<1>6. ASSUME NEW n \in 0 .. m PROVE DictAfter(header)[n] = Body(DictAfter(header), n)
  BY <1>5 DEF Fits
<1>. QED BY <1>6
-----------------------------------------------------------------------------
(* The first name that one of the first n entries gives the address.       *)
NamedUpTo(header, address, n) ==
  {k \in Mentions(header, address) : k <= n /\ header[k].name # Unnamed}

NameUpTo(header, address, n) ==
  LET named == NamedUpTo(header, address, n)
  IN  IF named = {} THEN Unnamed ELSE header[First(named)].name

(* What the dict holds after n entries: KeptOnce for a part of the header. *)
KeptUpTo(header, kept, n) ==
  LET FirstAt(k) == First(Mentions(header, kept[k][1]))
  IN  /\ {kept[k][1] : k \in DOMAIN kept} = {Normal[header[k].raw] : k \in 1 .. n} \ {NoAddress}
      /\ \A k, l \in DOMAIN kept : k < l => FirstAt(k) < FirstAt(l)
      /\ \A k \in DOMAIN kept : FirstAt(k) <= n
      /\ \A k \in DOMAIN kept : kept[k][2] = NameUpTo(header, kept[k][1], n)

Pairs(header) ==
  {Normal[header[k].raw] : k \in DOMAIN header} \X {header[k].name : k \in DOMAIN header}

(* An entry gives a name to its address only, and only the first name.     *)
LEMMA NameUpToNext ==
  ASSUME NEW Entries, NEW header \in Seq(Entries), NEW n \in 0 .. Len(header) - 1, NEW address
  PROVE  NameUpTo(header, address, n + 1)
           = IF Normal[header[n + 1].raw] = address /\ NameUpTo(header, address, n) = Unnamed
             THEN header[n + 1].name ELSE NameUpTo(header, address, n)
<1>. DEFINE old == NamedUpTo(header, address, n)
            new == NamedUpTo(header, address, n + 1)
<1>1. /\ DOMAIN header = 1 .. Len(header) /\ Len(header) \in Nat /\ n \in Nat
      /\ n + 1 \in DOMAIN header /\ Mentions(header, address) \in SUBSET Nat
      /\ old \in SUBSET Nat /\ new \in SUBSET Nat
  BY DEF Mentions, NamedUpTo
<1>2. \A k \in DOMAIN header : k <= n + 1 <=> k <= n \/ k = n + 1
  BY <1>1
<1>3. new = old \cup (IF Normal[header[n + 1].raw] = address /\ header[n + 1].name # Unnamed
                      THEN {n + 1} ELSE {})
  BY <1>1, <1>2 DEF NamedUpTo, Mentions
<1>4. old # {} => header[First(old)].name # Unnamed /\ First(old) \in old
  BY <1>1, FirstIsLeast DEF NamedUpTo
<1>5. CASE old = {}
  <2>1. NameUpTo(header, address, n) = Unnamed
    BY <1>5 DEF NameUpTo
  <2>2. CASE new = {}
    BY <1>3, <1>5, <2>1, <2>2 DEF NameUpTo
  <2>3. CASE new = {n + 1}
    <3>1. First(new) = n + 1
      BY <1>1, <2>3, FirstIs
    <3>2. Normal[header[n + 1].raw] = address
      BY <1>3, <1>5, <2>3
    <3>. QED BY <2>1, <2>3, <3>1, <3>2 DEF NameUpTo
  <2>. QED BY <1>3, <1>5, <2>2, <2>3
<1>6. CASE old # {}
  <2>1. \A y \in old : First(old) <= y /\ y <= n /\ y \in Nat
    BY <1>1, <1>6, FirstIsLeast DEF NamedUpTo
  <2>2. \A y \in new : First(old) <= y
    BY <1>1, <1>3, <1>4, <1>6, <2>1
  <2>3. First(new) = First(old)
    BY <1>1, <1>3, <1>4, <1>6, <2>2, FirstIs
  <2>. QED BY <1>3, <1>4, <1>6, <2>3 DEF NameUpTo
<1>. QED BY <1>5, <1>6

(* The dict of a part of the header becomes the dict of one entry more.    *)
LEMMA EnterKeeps ==
  ASSUME NEW Entries, NEW header \in Seq(Entries), NEW n \in 0 .. Len(header) - 1,
         NEW known \in Seq(Pairs(header)), KeptUpTo(header, known, n)
  PROVE  /\ Enter(known, header[n + 1]) \in Seq(Pairs(header))
         /\ KeptUpTo(header, Enter(known, header[n + 1]), n + 1)
<1>. DEFINE entry == header[n + 1]
            address == Normal[entry.raw]
            place == Place(known, address)
            new == Enter(known, entry)
            FirstOf(a) == First(Mentions(header, a))
<1>1. /\ DOMAIN header = 1 .. Len(header) /\ Len(header) \in Nat /\ n \in Nat
      /\ n + 1 \in DOMAIN header
      /\ DOMAIN known = 1 .. Len(known) /\ Len(known) \in Nat
  OBVIOUS
<1>2. <<address, entry.name>> \in Pairs(header)
  BY <1>1 DEF Pairs
<1>3. \A a : Mentions(header, a) \in SUBSET Nat
  BY <1>1 DEF Mentions
<1>4. {Normal[header[k].raw] : k \in 1 .. n + 1}
        = {Normal[header[k].raw] : k \in 1 .. n} \cup {address}
  <2>1. 1 .. n + 1 = (1 .. n) \cup {n + 1}
    BY <1>1
  <2>. QED BY <2>1
<1>5. /\ {known[k][1] : k \in DOMAIN known} = {Normal[header[k].raw] : k \in 1 .. n} \ {NoAddress}
      /\ \A k, l \in DOMAIN known : k < l => FirstOf(known[k][1]) < FirstOf(known[l][1])
      /\ \A k \in DOMAIN known : FirstOf(known[k][1]) <= n
      /\ \A k \in DOMAIN known : known[k][2] = NameUpTo(header, known[k][1], n)
  BY DEF KeptUpTo
<1>6. ASSUME NEW k \in DOMAIN known
      PROVE  FirstOf(known[k][1]) \in Nat /\ FirstOf(known[k][1]) <= n + 1
  <2>1. Mentions(header, known[k][1]) # {}
    <3>1. known[k][1] \in {Normal[header[j].raw] : j \in 1 .. n}
      BY <1>5
    <3>. QED BY <1>1, <3>1 DEF Mentions
  <2>2. FirstOf(known[k][1]) \in Nat
    BY <1>3, <2>1, FirstIsLeast
  <2>. QED BY <1>1, <1>5, <2>2
<1>7. CASE address = NoAddress
  <2>1. new = known
    BY <1>7 DEF Enter
  <2>2. \A k \in DOMAIN known : known[k][1] # NoAddress
    BY <1>5
  <2>3. \A k \in DOMAIN known : known[k][2] = NameUpTo(header, known[k][1], n + 1)
    BY <1>5, <1>7, <2>2, NameUpToNext
  <2>. HIDE DEF new, address, FirstOf
  <2>4. {Normal[header[k].raw] : k \in 1 .. n + 1} \ {NoAddress}
          = {Normal[header[k].raw] : k \in 1 .. n} \ {NoAddress}
    BY <1>4, <1>7
  <2>5. {known[k][1] : k \in DOMAIN known}
          = {Normal[header[k].raw] : k \in 1 .. n + 1} \ {NoAddress}
    BY <1>5, <2>4
  <2>6. KeptUpTo(header, known, n + 1)
    BY <1>5, <1>6, <2>3, <2>5 DEF KeptUpTo, FirstOf
  <2>. QED BY <2>1, <2>6 DEF new, entry
<1>8. CASE address # NoAddress /\ place = {}
  <2>1. new = Append(known, <<address, entry.name>>)
    BY <1>8 DEF Enter
  <2>2. /\ new \in Seq(Pairs(header)) /\ DOMAIN new = DOMAIN known \cup {Len(known) + 1}
        /\ Len(known) + 1 \notin DOMAIN known
        /\ \A k \in DOMAIN known : new[k] = known[k] /\ k < Len(known) + 1
        /\ new[Len(known) + 1] = <<address, entry.name>>
    BY <1>1, <1>2, <2>1
  <2>3. \A k \in DOMAIN known : known[k][1] # address
    BY <1>8 DEF Place
  <2>4. \A k \in 1 .. n : Normal[header[k].raw] # address
    BY <1>5, <1>8, <2>3
  <2>5. FirstOf(address) = n + 1
    <3>1. n + 1 \in Mentions(header, address)
      BY <1>1 DEF Mentions
    <3>2. \A y \in Mentions(header, address) : n + 1 <= y
      BY <1>1, <2>4 DEF Mentions
    <3>. QED BY <1>3, <3>1, <3>2, FirstIs
  <2>6. NameUpTo(header, address, n) = Unnamed
    <3>1. NamedUpTo(header, address, n) = {}
      BY <1>1, <2>4 DEF NamedUpTo, Mentions
    <3>. QED BY <3>1 DEF NameUpTo
  <2>7. NameUpTo(header, address, n + 1) = entry.name
    BY <2>6, NameUpToNext
  <2>8. \A k \in DOMAIN known : known[k][2] = NameUpTo(header, known[k][1], n + 1)
    BY <1>5, <2>3, NameUpToNext
  <2>. HIDE DEF new, address, FirstOf, entry
  <2>a. {new[k][1] : k \in DOMAIN new}
          = {Normal[header[k].raw] : k \in 1 .. n + 1} \ {NoAddress}
    <3>1. {new[k][1] : k \in DOMAIN new} = {known[k][1] : k \in DOMAIN known} \cup {address}
      BY <2>2
    <3>. QED BY <1>4, <1>5, <1>8, <3>1
  <2>b. \A k, l \in DOMAIN new : k < l => FirstOf(new[k][1]) < FirstOf(new[l][1])
    <3>. SUFFICES ASSUME NEW k \in DOMAIN new, NEW l \in DOMAIN new, k < l
                  PROVE  FirstOf(new[k][1]) < FirstOf(new[l][1])
      OBVIOUS
    <3>1. k \in DOMAIN known
      BY <1>1, <2>2
    <3>2. CASE l \in DOMAIN known
      BY <1>5, <2>2, <3>1, <3>2
    <3>3. CASE l = Len(known) + 1
      <4>1. FirstOf(new[l][1]) = n + 1
        BY <2>2, <2>5, <3>3
      <4>2. FirstOf(new[k][1]) <= n /\ FirstOf(new[k][1]) \in Nat
        BY <1>5, <1>6, <2>2, <3>1
      <4>. QED BY <1>1, <4>1, <4>2
    <3>. QED BY <2>2, <3>2, <3>3
  <2>c. \A k \in DOMAIN new : FirstOf(new[k][1]) <= n + 1
    BY <1>1, <1>6, <2>2, <2>5
  <2>d. \A k \in DOMAIN new : new[k][2] = NameUpTo(header, new[k][1], n + 1)
    BY <2>2, <2>7, <2>8
  <2>. QED BY <2>2, <2>a, <2>b, <2>c, <2>d DEF KeptUpTo, FirstOf, new, entry
<1>9. CASE address # NoAddress /\ place # {}
  <2>1. new = [k \in DOMAIN known |->
                 IF k \in place /\ known[k][2] = Unnamed THEN <<address, entry.name>>
                 ELSE known[k]]
    BY <1>9 DEF Enter
  <2>2. \A k \in DOMAIN known : k \in place <=> known[k][1] = address
    BY DEF Place
  <2>. HIDE DEF new, place, address, FirstOf, entry
  <2>3. new \in Seq(Pairs(header))
    <3>1. \A k \in DOMAIN known : known[k] \in Pairs(header)
      BY <1>1
    <3>2. new \in [1 .. Len(known) -> Pairs(header)]
      BY <1>1, <1>2, <2>1, <3>1
    <3>. QED BY <1>1, <3>2, SeqDef
  <2>4. DOMAIN new = DOMAIN known
    BY <2>1
  <2>5. \A k \in DOMAIN known : new[k][1] = known[k][1]
    BY <2>1, <2>2
  <2>6. \A k \in DOMAIN known : new[k][2] = NameUpTo(header, known[k][1], n + 1)
    <3>. SUFFICES ASSUME NEW k \in DOMAIN known
                  PROVE  new[k][2] = NameUpTo(header, known[k][1], n + 1)
      OBVIOUS
    <3>1. NameUpTo(header, known[k][1], n + 1)
            = IF address = known[k][1] /\ known[k][2] = Unnamed
              THEN entry.name ELSE known[k][2]
      BY <1>5, NameUpToNext DEF address, entry
    <3>. QED BY <2>1, <2>2, <3>1
  <2>7. {new[k][1] : k \in DOMAIN new}
          = {Normal[header[k].raw] : k \in 1 .. n + 1} \ {NoAddress}
    <3>1. {new[k][1] : k \in DOMAIN new} = {known[k][1] : k \in DOMAIN known}
      BY <2>4, <2>5
    <3>2. address \in {known[k][1] : k \in DOMAIN known}
      BY <1>9, <2>2 DEF place, Place
    <3>. QED BY <1>4, <1>5, <3>1, <3>2
  <2>. QED BY <1>5, <1>6, <2>3, <2>4, <2>5, <2>6, <2>7 DEF KeptUpTo, FirstOf, new, entry
<1>. QED BY <1>7, <1>8, <1>9

LEMMA DictAfterKeeps ==
  ASSUME NEW Entries, NEW header \in Seq(Entries)
  PROVE  /\ Deduplicated(header) \in Seq(Pairs(header))
         /\ KeptUpTo(header, Deduplicated(header), Len(header))
<1>. DEFINE m == Len(header)
            Good == {n \in 0 .. m : /\ DictAfter(header)[n] \in Seq(Pairs(header))
                                    /\ KeptUpTo(header, DictAfter(header)[n], n)}
<1>1. m \in Nat
  OBVIOUS
<1>2. 0 \in Good
  <2>1. DictAfter(header)[0] = <<>>
    BY <1>1, DictAfterDef
  <2>2. DOMAIN <<>> = {} /\ {Normal[header[k].raw] : k \in 1 .. 0} = {}
    OBVIOUS
  <2>3. KeptUpTo(header, <<>>, 0)
    BY <2>2 DEF KeptUpTo
  <2>4. <<>> \in Seq(Pairs(header))
    OBVIOUS
  <2>5. 0 \in 0 .. m
    BY <1>1
  <2>6. /\ DictAfter(header)[0] \in Seq(Pairs(header))
        /\ KeptUpTo(header, DictAfter(header)[0], 0)
    BY <2>1, <2>3, <2>4, Zenon
  <2>. HIDE DEF m
  <2>. QED BY <2>5, <2>6
<1>3. ASSUME NEW n \in 0 .. m, n \in Good, n < m PROVE n + 1 \in Good
  <2>1. /\ n \in 0 .. m - 1 /\ n + 1 \in 1 .. m /\ n + 1 \in 0 .. m /\ n + 1 - 1 = n
        /\ DictAfter(header)[n] \in Seq(Pairs(header))
        /\ KeptUpTo(header, DictAfter(header)[n], n)
    BY <1>1, <1>3
  <2>2. DictAfter(header)[n + 1] = Enter(DictAfter(header)[n], header[n + 1])
    BY <1>1, <2>1, DictAfterDef
  <2>3. /\ Enter(DictAfter(header)[n], header[n + 1]) \in Seq(Pairs(header))
        /\ KeptUpTo(header, Enter(DictAfter(header)[n], header[n + 1]), n + 1)
    BY <2>1, EnterKeeps
  <2>. QED BY <2>1, <2>2, <2>3
<1>4. m \in Good
  <2>. HIDE DEF Good
  <2>1. 0 .. m \subseteq Good
    BY <1>1, <1>2, <1>3, InductionUpTo
  <2>. QED BY <1>1, <2>1
<1>. QED BY <1>4 DEF Deduplicated

(* However often, in whatever spelling and with whatever names a header    *)
(* mentions addresses, _deduplicated_participants keeps each exactly once, *)
(* at the place of its first mention, under the first name it is given,    *)
(* and nothing else.                                                       *)
THEOREM EveryAddressIsKeptOnce ==
  ASSUME NEW Entries, NEW header \in Seq(Entries)
  PROVE  KeptOnce(header)
<1>. DEFINE kept == Deduplicated(header)
<1>1. DOMAIN header = 1 .. Len(header) /\ Len(header) \in Nat
  OBVIOUS
<1>2. KeptUpTo(header, kept, Len(header))
  BY DictAfterKeeps
<1>3. ASSUME NEW address
      PROVE  NameUpTo(header, address, Len(header)) = NameGiven(header, address)
  <2>1. NamedUpTo(header, address, Len(header))
          = {k \in Mentions(header, address) : header[k].name # Unnamed}
    BY <1>1 DEF NamedUpTo, Mentions
  <2>. QED BY <2>1 DEF NameUpTo, NameGiven
<1>. HIDE DEF kept
<1>4. {kept[k][1] : k \in DOMAIN kept} = Mentioned(header)
  BY <1>1, <1>2 DEF KeptUpTo, Mentioned
<1>5. /\ \A k, l \in DOMAIN kept :
           k < l => First(Mentions(header, kept[k][1])) < First(Mentions(header, kept[l][1]))
      /\ \A k \in DOMAIN kept : kept[k][2] = NameGiven(header, kept[k][1])
  BY <1>2, <1>3 DEF KeptUpTo
<1>. QED BY <1>4, <1>5 DEF KeptOnce, kept
=============================================================================
