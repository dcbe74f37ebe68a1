------------------------ MODULE MCMiniProgramAccount ------------------------
(***************************************************************************)
(* Three regions of MiniProgramAccount for TLC: a behaviour of PartSpec is *)
(* a behaviour of Spec that stays in one of them.  "entries": one account  *)
(* on one device, with two entries to follow and choose from.  "codes":    *)
(* one account on one device, two mailed codes that are missed.  "links":  *)
(* a person whose openid changed, two devices.  Only "codes" has guesses   *)
(* that miss a pending code and more than one code at a time, only         *)
(* "entries" has entries.                                                  *)
(***************************************************************************)
EXTENDS MiniProgramAccount, TLC

CONSTANTS o1, o2, n1

VARIABLE part

\* One person whose openid changed, with and without the unionid.
Moved == {[openid |-> o1, unionid |-> None], [openid |-> o1, unionid |-> n1],
          [openid |-> o2, unionid |-> n1]}

Flowing == {r \in Req : req[r].op \in {"signIn", "confirm", "unlink"}}
Mailed == {p \in User \X Device : code[p[1]][p[2]] # Absent}

DevicesUsed == UNION {Active(o) : o \in OpenId} \cup {p[2] : p \in Mailed}
                    \cup {req[r].device : r \in Flowing}
CodesUsed == {code[p[1]][p[2]].code : p \in Mailed}
                    \cup ({req[r].guess : r \in Flowing} \ {None})

OneAccount ==
    /\ account[o2] = Absent
    /\ \A r \in Flowing : req[r].who.unionid = None
    /\ Cardinality(DevicesUsed) <= 1

OneCode ==
    /\ Cardinality(CodesUsed) <= 1
    /\ \A p \in Mailed : code[p[1]][p[2]].attempts = 0

NoEntries ==
    /\ \A u \in User : user[u].entry = None
    /\ \A r \in Req : req[r].op # "follow"

InPart == \/ part = "entries" /\ OneAccount /\ OneCode
          \/ part = "codes" /\ OneAccount /\ NoEntries
          \/ part = "links" /\ OneCode /\ NoEntries

PartInit == part \in {"entries", "codes", "links"} /\ Init /\ InPart

PartNext == Next /\ UNCHANGED part /\ InPart'

PartSpec == PartInit /\ [][PartNext]_<<part, vars>>

Symmetric ==
    UNION {Permutations(User), Permutations(Code), Permutations(Req), Permutations(Device),
           Permutations(Entry)}
=============================================================================
