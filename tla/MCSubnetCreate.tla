--------------------------- MODULE MCSubnetCreate ---------------------------
(* Instances of SubnetCreate for TLC: a block with two halves, a block too  *)
(* small to reserve from, and a vlan per operating system.                 *)
EXTENDS SubnetCreate, TLC

CONSTANTS big, low, high, tiny, vn, vj, ve, vi, vx, t1, t2

Blocks == {big, low, high, tiny}
Halves == (Blocks \X {big}) \cup ({big} \X Blocks)
Sharing == { <<c, c>> : c \in Blocks }
              \cup { s \in Halves : tiny \notin {s[1], s[2]} }

AllVlans == {vn, vj, ve, vi, vx}
OsOfAll == vn :> "nxos" @@ vj :> "junos" @@ ve :> "eos" @@ vi :> "ios" @@ vx :> "nxos"
TableOfAll == [v \in AllVlans |-> IF v \in {ve, vx} THEN t2 ELSE t1]
NobodyElse == [t \in {t1, t2} |-> {}]
TinyElsewhere == [t \in {t1, t2} |-> IF t = t2 THEN {tiny} ELSE {}]

Want(k, c, v) == [kind |-> k, cidr |-> c, vlan |-> v]

\* Every kind of request, every operating system, every overlap.
WideOrders ==
    { Want("create", low, vn), Want("create", high, vn), Want("create", big, vn),
      Want("create", tiny, vn), Want("create", low, vj), Want("create", high, vj),
      Want("create", high, ve), Want("create", low, vi),
      Want("create", high, vx), Want("import", low, vx), Want("patch", low, vj),
      Want("patch", big, vn), Want("patchone", high, vj), Want("delete", low, vn) }

TinyOrder == { Want("create", tiny, vn) }

Bare == [primary |-> NoCidr, others |-> {}]
With(c) == [primary |-> c, others |-> {}]
Unpatched(S) == [primary |-> NoCidr, others |-> S]

\* NX-OS interfaces may be empty; Junos and EOS ones are in use.
Starts ==
    { [v \in AllVlans |-> CASE v = vj -> With(tiny) [] v = ve -> With(tiny) [] OTHER -> Bare],
      [v \in AllVlans |-> CASE v = vj -> Unpatched({high}) [] OTHER -> Bare],
      [v \in AllVlans |-> CASE v = vj -> Unpatched({high, low}) [] v = ve -> With(low)
                            [] v = vn -> With(tiny) [] OTHER -> Bare] }

EmptyStart == { [v \in AllVlans |-> Bare] }

Symmetry == Permutations(Requests)
=============================================================================
