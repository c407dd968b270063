---------------------------- MODULE MCTopography ----------------------------
(***************************************************************************)
(* Small instances of Topography for TLC: four messages, one of them       *)
(* without participants, one whose sender writes to herself, one that      *)
(* names a recipient late, two whose subjects and names differ in case.    *)
(***************************************************************************)
EXTENDS PersonNames, TLC

Messages == {"m1", "m2", "m3", "m4"}

Named(name, raw) == [name |-> name, raw |-> raw]
Mailed(from, to, cc) == [from |-> from, to |-> to, cc |-> cc, bcc |-> <<>>]

Mailbox ==
  "m1" :> Mailed(<<Named("Ada", "ada@engine")>>, <<Named("Me", "me@home")>>, <<>>) @@
  "m2" :> Mailed(<<Named("Me", "alias@home")>>, <<Named("", "ADA@engine")>>,
                 <<Named("ADA", "ada@engine"), Named("", "ada@engine"), Named("", "bob@mail")>>) @@
  "m3" :> Mailed(<<Named("Ada", "ada@engine")>>,
                 <<Named("ADA", "ada@engine"), Named("Eve", "eve@engine")>>, <<>>) @@
  "m4" :> Mailed(<<Named("", "undisclosed")>>, <<>>, <<>>)

People == {"me@home", "alias@home", "ada@engine", "bob@mail", "eve@engine"}

Mail == [m \in Messages |-> EmailParticipants(Raw[m])]

(* _normalize_address on the addresses of these messages.                  *)
Normals ==
  "ADA@engine" :> "ada@engine" @@ "undisclosed" :> "no address" @@
  [a \in People |-> a]

Subjects == "m1" :> "Plan" @@ "m2" :> "PLAN" @@ "m3" :> "Lunch" @@ "m4" :> "Plan"
Threads == "m1" :> "plan" @@ "m2" :> "plan" @@ "m3" :> "lunch" @@ "m4" :> "plan"

Domains ==
  "me@home" :> "home" @@ "alias@home" :> "home" @@ "ada@engine" :> "engine" @@
  "bob@mail" :> "mail" @@ "eve@engine" :> "engine"

LabelTexts ==
  {"Ada", "ADA", "Me", "Eve", "Plan", "PLAN", "Lunch", "home", "engine", "mail"} \cup People

Lengths == [t \in LabelTexts |->
  CASE t \in {"Ada", "ADA", "Eve"} -> 3 [] t \in {"Plan", "PLAN", "home", "mail"} -> 4
    [] t = "Me" -> 2 [] t = "Lunch" -> 5 [] t = "engine" -> 6 [] OTHER -> 8]

(* Only the texts that differ in case alone share a rank.                  *)
Ranks == [t \in LabelTexts |->
  CASE t \in {"Ada", "ADA"} -> 1 [] t = "Eve" -> 2 [] t = "Lunch" -> 3 [] t = "Me" -> 4
    [] t \in {"Plan", "PLAN"} -> 5 [] OTHER -> 6]

(* Every list of different messages.                                       *)
Lists ==
  UNION {{s \in [1 .. n -> Messages] : \A j, k \in 1 .. n : s[j] = s[k] => j = k} :
           n \in 0 .. 4}

(* Every header of up to two entries that mention two persons, one of them *)
(* in two spellings, or nobody.                                            *)
ShortHeaders ==
  UNION {[1 .. n -> [name : {"", "Ada", "ADA"},
                     raw : {"ada@engine", "ADA@engine", "bob@mail", "undisclosed"}]] : n \in 0 .. 2}
=============================================================================
