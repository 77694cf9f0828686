------------------------ MODULE SubnetCreate_proofs ------------------------
(***************************************************************************)
(* Theorems about SubnetCreate for any number of requests, blocks, vlans   *)
(* and switches.                                                           *)
(***************************************************************************)
EXTENDS SubnetCreate, FiniteSetTheorems, TLAPS

Step(r) == create_subnet(r) \/ delete_subnet(r) \/ BubbleFail(r) \/ DriverFail(r) \/ Crash(r)

\* A step is one of a request, or the network's.
LEMMA NextCases == Next <=> (\E r \in Requests : Step(r)) \/ Routing
BY DEF Next, Step

-----------------------------------------------------------------------------
(* Types.                                                                  *)

LEMMA InitType == Init => TypeOK
<1> SUFFICES ASSUME Init PROVE TypeOK
  OBVIOUS
<1>1. iface \in [Vlans -> Iface] /\ order \in [Requests -> Order]
  BY OrderAssumption DEF Init
<1> QED
  BY <1>1 DEF Init, TypeOK, Row, Places, Reasons

\* What a request asked for, and the row made of it.
LEMMA OrderType ==
    ASSUME TypeOK, NEW r \in Requests
    PROVE  /\ Kind(r) \in Kinds
           /\ Cidr(r) \in Cidrs
           /\ Vlan(r) \in Vlans
           /\ OwnRow(r) \in Row
BY DEF TypeOK, Order, Kind, Cidr, Vlan, OwnRow, Row

\* The driver's commands leave an interface of the same shape.
LEMMA IfaceType ==
    ASSUME TypeOK, NEW r \in Requests, NEW f \in Iface
    PROVE  Configured(f, r) \in Iface /\ Unconfigured(f, r) \in Iface
<1>1. Cidr(r) \in Cidrs
  BY OrderType
<1>2. AddressesOf(f) \subseteq Cidrs
  BY DEF AddressesOf, Iface
<1>3. Configured(f, r) \in Iface
  BY <1>1, <1>2 DEF Configured, Iface
<1>4. Unconfigured(f, r) \in Iface
  BY <1>1 DEF Unconfigured, Iface
<1> QED
  BY <1>3, <1>4

LEMMA GotoType ==
    ASSUME TypeOK, NEW r \in Requests, NEW l \in Places, Goto(r, l)
    PROVE  pc' \in [Requests -> Places]
BY DEF TypeOK, Goto

LEMMA BlameType ==
    ASSUME TypeOK, NEW r \in Requests, NEW why \in Reasons, Blame(r, why)
    PROVE  left' \in [Requests -> Reasons]
BY DEF TypeOK, Blame

\* Everything but pc, which GotoType covers, in a step that touches nothing else.
LEMMA StepType ==
    ASSUME TypeOK, NEW r \in Requests, Step(r)
    PROVE  TypeOK'
<1> USE DEF Places, BeforePush, AfterPush, Answered
<1> DEFINE f == iface[Vlan(r)]
<1>f. Vlan(r) \in Vlans /\ f \in Iface
  BY OrderType DEF TypeOK
<1>p. \A l \in Places : Goto(r, l) => pc' \in [Requests -> Places]
  BY GotoType
<1>1. CASE Lookup(r)
  <2>1. Goto(r, "looked") \/ Goto(r, "ok") \/ Goto(r, "error")
    BY <1>1 DEF Lookup
  <2>2. met' \subseteq SUBSET Requests
    BY <1>1 DEF Lookup, TypeOK
  <2> QED
    BY <1>1, <1>p, <2>1, <2>2 DEF Lookup, TypeOK, stores
<1>2. CASE CheckOverlap(r) \/ Insert(r) \/ PreValidate(r) \/ PostValidate(r)
  <2>1. \E l \in Places : Goto(r, l)
    BY <1>2 DEF CheckOverlap, Insert, PreValidate, PostValidate
  <2> QED
    BY <1>2, <1>p, <2>1
    DEF CheckOverlap, Insert, PreValidate, PostValidate, TypeOK, stores, history
<1>3. CASE Import(r)
  BY <1>3, <1>p, OrderType DEF Import, TypeOK, history
<1>4. CASE DriverCheck(r)
  <2>1. Goto(r, "drivable") \/ Goto(r, "error")
    BY <1>4 DEF DriverCheck
  <2>2. first' \in [Requests -> BOOLEAN]
    BY <1>4 DEF DriverCheck, TypeOK
  <2> QED
    BY <1>4, <1>p, <2>1, <2>2 DEF DriverCheck, TypeOK, stores, history
<1>5. CASE Push(r)
  <2>1. iface' \in [Vlans -> Iface]
    BY <1>5, <1>f, IfaceType DEF Push, TypeOK
  <2>2. added' \subseteq Requests
    BY <1>5 DEF Push, TypeOK
  <2> QED
    BY <1>5, <1>p, <2>1, <2>2 DEF Push, TypeOK
<1>6. CASE PostChange(r)
  <2>1. Goto(r, "configured") \/ Goto(r, "error")
    BY <1>6 DEF PostChange
  <2>2. left' \in [Requests -> Reasons]
    BY <1>6, BlameType DEF PostChange, TypeOK, Reasons
  <2> QED
    BY <1>6, <1>p, <2>1, <2>2 DEF PostChange, TypeOK, stores
<1>7. CASE Undo(r)
  <2>1. iface' \in [Vlans -> Iface]
    BY <1>7, <1>f, IfaceType DEF Undo, TypeOK
  <2>2. \E why \in Reasons : Blame(r, why)
    BY <1>7 DEF Undo, Reasons
  <2>3. left' \in [Requests -> Reasons]
    BY <2>2, BlameType
  <2> QED
    BY <1>7, <1>p, <2>1, <2>3 DEF Undo, TypeOK
<1>8. CASE Allocate(r)
  <2>1. Goto(r, "ok") \/ Goto(r, "error")
    BY <1>8 DEF Allocate
  <2>2. left' \in [Requests -> Reasons]
    BY <1>8, BlameType DEF Allocate, TypeOK, Reasons
  <2>3. rows' \subseteq Row
    BY <1>8, OrderType DEF Allocate, TypeOK
  <2> QED
    BY <1>8, <1>p, <2>1, <2>2, <2>3 DEF Allocate, TypeOK
<1>9. CASE delete_subnet(r)
  <2>1. rows' \subseteq Row
    BY <1>9 DEF delete_subnet, TypeOK
  <2> QED
    BY <1>9, <1>p, <2>1 DEF delete_subnet, TypeOK, history
<1>10. CASE BubbleFail(r)
  BY <1>10, <1>p DEF BubbleFail, TypeOK, stores, history
<1>11. CASE DriverFail(r)
  <2>1. iface' \in [Vlans -> Iface]
    BY <1>11, <1>f, IfaceType DEF DriverFail, TypeOK
  <2>2. added' \subseteq Requests
    BY <1>11 DEF DriverFail, TypeOK
  <2>3. \E why \in Reasons : Blame(r, why)
    BY <1>11 DEF DriverFail, Reasons
  <2>4. left' \in [Requests -> Reasons]
    BY <2>3, BlameType
  <2> QED
    BY <1>11, <1>p, <2>1, <2>2, <2>4 DEF DriverFail, TypeOK
<1>12. CASE Crash(r)
  BY <1>12, <1>p DEF Crash, TypeOK, stores, history
<1> QED
  BY <1>1, <1>2, <1>3, <1>4, <1>5, <1>6, <1>7, <1>8, <1>9, <1>10, <1>11, <1>12
  DEF Step, create_subnet

LEMMA RoutingType ==
    ASSUME TypeOK, Routing
    PROVE  TypeOK'
<1>1. PICK t \in Tables, c \in Cidrs : Learn(t, c) \/ Withdraw(t, c)
  BY DEF Routing
<1>2. routes' \in [Tables -> SUBSET Cidrs]
  BY <1>1 DEF Learn, Withdraw, TypeOK
<1> QED
  BY <1>1, <1>2 DEF Learn, Withdraw, TypeOK, history

LEMMA StutterType ==
    ASSUME TypeOK, UNCHANGED vars
    PROVE  TypeOK'
BY DEF TypeOK, vars

\* Type correctness of create_subnet and delete_subnet: every row, interface
\* and routing table stays what the schema and the switches can hold.
THEOREM TypeCorrect == Spec => []TypeOK
<1>1. TypeOK /\ [Next]_vars => TypeOK'
  BY NextCases, StepType, RoutingType, StutterType
<1> QED
  BY <1>1, InitType, PTL DEF Spec

-----------------------------------------------------------------------------
(* No two overlapping subnets.                                             *)

\* A committed row is the row of a request that was answered 200.
RowsInv == \A x \in rows : pc[x.by] = "ok" /\ x = OwnRow(x.by)

OverlapInv == TypeOK /\ RowsInv /\ MetInv /\ CheckedInv /\ NoOverlap

\* A request past the check that the overlap of committed rows is.
Checked(r) == Active(r) /\ pc[r] # "looked"

\* What a step of request r may do to what OverlapInv speaks about.
Movement(r) ==
    /\ order' = order
    /\ met \subseteq met'
    /\ pc[r] \notin Answered
    /\ \A q \in Requests \ {r} : pc'[q] = pc[q]
    /\ Active(r)' => \/ Active(r)
                     \/ \A q \in Requests : Active(q) => {r, q} \in met'
    /\ \/ rows' \subseteq rows
       \/ Checked(r) /\ pc'[r] = "ok" /\ rows' = rows \cup {OwnRow(r)}
    /\ Checked(r)' => \/ Checked(r)
                      \/ Kind(r) = "create" => \A x \in rows : ~Overlap(x.cidr, Cidr(r))
    /\ Active(r)' /\ ~Active(r) => \A x \in rows : x.cidr # Cidr(r)

LEMMA StepMoves ==
    ASSUME TypeOK, NEW r \in Requests, Step(r)
    PROVE  Movement(r)
<1> USE DEF Places, BeforePush, AfterPush, Answered, Active, Checked, Goto, Movement
<1>t. pc \in [Requests -> Places]
  BY DEF TypeOK
<1>1. CASE Lookup(r)
  BY <1>1, <1>t DEF Lookup, stores
<1>2. CASE CheckOverlap(r)
  BY <1>2, <1>t DEF CheckOverlap, stores, history
<1>3. CASE Import(r)
  BY <1>3, <1>t DEF Import, history
<1>4. CASE Insert(r) \/ PreValidate(r) \/ PostValidate(r)
  BY <1>4, <1>t DEF Insert, PreValidate, PostValidate, stores, history
<1>5. CASE DriverCheck(r)
  BY <1>5, <1>t DEF DriverCheck, stores, history
<1>6. CASE Push(r)
  BY <1>6, <1>t DEF Push
<1>7. CASE PostChange(r)
  BY <1>7, <1>t DEF PostChange, stores
<1>8. CASE Undo(r)
  BY <1>8, <1>t DEF Undo
<1>9. CASE Allocate(r)
  BY <1>9, <1>t DEF Allocate
<1>10. CASE delete_subnet(r)
  BY <1>10, <1>t DEF delete_subnet, history
<1>11. CASE BubbleFail(r) \/ DriverFail(r)
  BY <1>11, <1>t DEF BubbleFail, DriverFail, stores, history
<1>12. CASE Crash(r)
  BY <1>12, <1>t DEF Crash, stores, history
<1> QED
  BY <1>1, <1>2, <1>3, <1>4, <1>5, <1>6, <1>7, <1>8, <1>9, <1>10, <1>11, <1>12
  DEF Step, create_subnet

\* Overlapping is symmetric.
LEMMA OverlapSymmetric ==
    ASSUME NEW c \in Cidrs, NEW d \in Cidrs, Overlap(c, d)
    PROVE  Overlap(d, c)
BY CidrAssumption DEF Overlap

LEMMA StepOverlap ==
    ASSUME OverlapInv, NEW r \in Requests, Step(r)
    PROVE  OverlapInv'
<1>1. TypeOK' /\ Movement(r)
  BY StepType, StepMoves DEF OverlapInv
<1>2. \A q \in Requests : /\ Kind(q)' = Kind(q)
                          /\ Cidr(q)' = Cidr(q)
                          /\ OwnRow(q)' = OwnRow(q)
  BY <1>1 DEF Movement, Kind, Cidr, Vlan, OwnRow
<1>3. \A q, p \in Requests : Met(q, p) => Met(q, p)'
  BY <1>1 DEF Movement, Met
<1>4. \A x \in rows : x.by \in Requests /\ x.by # r /\ x.cidr \in Cidrs
  BY <1>1 DEF OverlapInv, RowsInv, TypeOK, Row, Movement, Answered
<1>5. OwnRow(r).by = r /\ OwnRow(r).cidr = Cidr(r) /\ Cidr(r) \in Cidrs
  BY OrderType DEF OwnRow, OverlapInv
<1>6. RowsInv'
  BY <1>1, <1>2, <1>4, <1>5 DEF OverlapInv, RowsInv, Movement
<1>7. MetInv'
  <2> SUFFICES ASSUME NEW p \in Requests, NEW q \in Requests, p # q,
                      Active(p)', Active(q)'
               PROVE  Met(p, q)'
    BY DEF MetInv
  <2>1. CASE Active(p) /\ Active(q)
    BY <2>1, <1>3 DEF OverlapInv, MetInv
  <2>2. CASE p = r /\ ~Active(p)
    <3>1. Active(q)
      BY <2>2, <1>1 DEF Movement, Active
    <3> QED
      BY <2>2, <3>1, <1>1 DEF Movement, Met
  <2>3. CASE q = r /\ ~Active(q)
    <3>1. Active(p)
      BY <2>3, <1>1 DEF Movement, Active
    <3>2. {p, q} = {q, p}
      OBVIOUS
    <3> QED
      BY <2>3, <3>1, <3>2, <1>1 DEF Movement, Met
  <2>4. p # r => Active(p)
    BY <1>1 DEF Movement, Active
  <2>5. q # r => Active(q)
    BY <1>1 DEF Movement, Active
  <2> QED
    BY <2>1, <2>2, <2>3, <2>4, <2>5
<1>8. CheckedInv'
  <2> SUFFICES ASSUME NEW q \in Requests, Kind(q) = "create", Checked(q)',
                      NEW x \in rows', Overlap(x.cidr, Cidr(q))
               PROVE  Met(x.by, q)'
    BY <1>2 DEF CheckedInv, Checked, Active, Overlap
  <2>1. CASE x \in rows /\ Checked(q)
    BY <2>1, <1>3, <1>4 DEF OverlapInv, CheckedInv, Checked
  <2>2. CASE x \in rows /\ ~Checked(q)
    <3>1. q = r
      BY <2>2, <1>1 DEF Movement, Checked, Active
    <3> QED
      BY <2>2, <3>1, <1>1 DEF Movement
  <2>3. CASE x \notin rows
    <3>1. x = OwnRow(r) /\ Checked(r) /\ pc'[r] = "ok"
      BY <2>3, <1>1 DEF Movement
    <3>2. q # r
      BY <3>1 DEF Checked, Active, BeforePush, AfterPush
    <3>3. Active(q) /\ Active(r)
      BY <3>1, <3>2, <1>1 DEF Movement, Checked, Active
    <3> QED
      BY <3>1, <3>2, <3>3, <1>3, <1>5 DEF OverlapInv, MetInv
  <2> QED
    BY <2>1, <2>2, <2>3
<1>9. NoOverlap'
  <2> SUFFICES ASSUME NEW x \in rows', NEW y \in rows', x # y,
                      Overlap(x.cidr, y.cidr),
                      Kind(x.by)' = "create", Kind(y.by)' = "create"
               PROVE  Met(x.by, y.by)'
    BY DEF NoOverlap, Overlap
  <2>1. CASE x \in rows /\ y \in rows
    BY <2>1, <1>2, <1>3, <1>4 DEF OverlapInv, NoOverlap
  <2>2. CASE x \in rows /\ y \notin rows
    <3>1. y = OwnRow(r) /\ Checked(r)
      BY <2>2, <1>1 DEF Movement
    <3>2. Kind(r) = "create" /\ Overlap(x.cidr, Cidr(r))
      BY <3>1, <1>2, <1>5
    <3> QED
      BY <2>2, <3>1, <3>2, <1>3, <1>4, <1>5 DEF OverlapInv, CheckedInv, Checked
  <2>3. CASE x \notin rows /\ y \in rows
    <3>1. x = OwnRow(r) /\ Checked(r)
      BY <2>3, <1>1 DEF Movement
    <3>2. Kind(r) = "create" /\ Overlap(y.cidr, Cidr(r))
      BY <3>1, <2>3, <1>2, <1>4, <1>5, OverlapSymmetric
    <3>3. Met(y.by, r)
      BY <2>3, <3>1, <3>2 DEF OverlapInv, CheckedInv, Checked
    <3>4. {y.by, r} = {r, y.by}
      OBVIOUS
    <3>5. Met(r, y.by)
      BY <3>3, <3>4 DEF Met
    <3> QED
      BY <2>3, <3>1, <3>5, <1>3, <1>4, <1>5
  <2>4. CASE x \notin rows /\ y \notin rows
    BY <2>4, <1>1 DEF Movement
  <2> QED
    BY <2>1, <2>2, <2>3, <2>4
<1> QED
  BY <1>1, <1>6, <1>7, <1>8, <1>9 DEF OverlapInv

\* The network moves routes only.
LEMMA RestOverlap ==
    ASSUME OverlapInv, Routing \/ UNCHANGED vars
    PROVE  OverlapInv'
<1>1. TypeOK'
  BY RoutingType, StutterType DEF OverlapInv
<1>2. UNCHANGED <<rows, order, pc, met>>
  BY DEF Routing, Learn, Withdraw, history, vars
<1> QED
  BY <1>1, <1>2 DEF OverlapInv, RowsInv, MetInv, CheckedInv, NoOverlap,
                    Met, Active, Kind, Cidr, Vlan, OwnRow, Overlap

\* Overlapping subnets of two creates are only ever in nf_subnets when the two
\* requests were being served at the same time.
THEOREM OverlapOnlyIfMet == Spec => []NoOverlap
<1>1. Init => OverlapInv
  BY InitType DEF Init, OverlapInv, RowsInv, MetInv, CheckedInv, NoOverlap,
                  Active, BeforePush, AfterPush
<1>2. OverlapInv /\ [Next]_vars => OverlapInv'
  BY NextCases, StepOverlap, RestOverlap
<1>3. OverlapInv => NoOverlap
  BY DEF OverlapInv
<1> QED
  BY <1>1, <1>2, <1>3, PTL DEF Spec

-----------------------------------------------------------------------------
(* Addresses.                                                              *)

\* What the driver's command for r does to the addresses of an interface: only
\* a new primary address where r saw none before may take another one away.
LEMMA ConfiguredAddresses ==
    ASSUME TypeOK, NEW r \in Requests, NEW f \in Iface
    PROVE  /\ AddressesOf(Configured(f, r)) \subseteq AddressesOf(f) \cup {Cidr(r)}
           /\ Os(r) = "junos" \/ ~first[r] =>
                 AddressesOf(f) \subseteq AddressesOf(Configured(f, r))
           /\ Os(r) = "ios" => Configured(f, r) = f
<1>t. /\ Cidr(r) \in Cidrs /\ Vlan(r) \in Vlans /\ Os(r) \in Systems /\ first[r] \in BOOLEAN
      /\ f.primary \in Cidrs \cup {NoCidr} /\ f.others \subseteq Cidrs
      /\ Promotes(r) => Os(r) = "junos"
  BY OrderType, TopologyAssumption DEF TypeOK, Os, Iface, Promotes
<1>1. CASE Os(r) = "ios"
  <2>1. Configured(f, r) = f
    BY <1>1, <1>t DEF Configured
  <2> QED
    BY <1>1, <2>1
<1>2. CASE Promotes(r)
  <2>1. Configured(f, r) = [primary |-> Cidr(r), others |-> AddressesOf(f) \ {Cidr(r)}]
    BY <1>2, <1>t DEF Configured
  <2> QED
    BY <1>2, <1>t, <2>1, CidrAssumption DEF AddressesOf
<1>3. CASE Os(r) \in {"nxos", "eos"} /\ first[r]
  <2>1. Configured(f, r) = [primary |-> Cidr(r), others |-> f.others \ {Cidr(r)}]
    BY <1>3, <1>t DEF Configured
  <2> QED
    BY <1>3, <1>t, <2>1, CidrAssumption DEF AddressesOf
<1>4. CASE /\ Os(r) # "ios" /\ ~Promotes(r)
           /\ ~(Os(r) \in {"nxos", "eos"} /\ first[r])
  <2> DEFINE g == [f EXCEPT !.others = @ \cup ({Cidr(r)} \ {f.primary})]
  <2>1. Configured(f, r) = g
    BY <1>4, Zenon DEF Configured
  <2>2. g.primary = f.primary /\ g.others = f.others \cup ({Cidr(r)} \ {f.primary})
    BY DEF Iface
  <2>3. AddressesOf(g) = AddressesOf(f) \cup {Cidr(r)}
    BY <1>t, <2>2, CidrAssumption DEF AddressesOf
  <2> HIDE DEF g
  <2> QED
    BY <1>4, <2>1, <2>3
<1> QED
  BY <1>1, <1>2, <1>3, <1>4

\* What undoing it does: r's own address at most, and on Junos that one.
LEMMA UnconfiguredAddresses ==
    ASSUME TypeOK, NEW r \in Requests, NEW f \in Iface
    PROVE  /\ AddressesOf(Unconfigured(f, r)) \subseteq AddressesOf(f)
           /\ AddressesOf(f) \subseteq AddressesOf(Unconfigured(f, r)) \cup {Cidr(r)}
           /\ Os(r) = "junos" => Cidr(r) \notin AddressesOf(Unconfigured(f, r))
           /\ Os(r) # "ios" /\ f.primary # Cidr(r) =>
                 Cidr(r) \notin AddressesOf(Unconfigured(f, r))
           /\ Unconfigured(f, r).primary \in {f.primary, NoCidr}
<1>t. /\ Cidr(r) \in Cidrs
      /\ f.primary \in Cidrs \cup {NoCidr} /\ f.others \subseteq Cidrs
  BY OrderType DEF Iface
<1>1. CASE Os(r) = "ios"
  <2>1. Unconfigured(f, r) = f
    BY <1>1 DEF Unconfigured
  <2> QED
    BY <1>1, <2>1
<1>2. CASE Os(r) = "junos"
  <2>1. Unconfigured(f, r) = [primary |-> IF f.primary = Cidr(r) THEN NoCidr ELSE f.primary,
                              others |-> f.others \ {Cidr(r)}]
    BY <1>2 DEF Unconfigured
  <2> QED
    BY <1>2, <1>t, <2>1, CidrAssumption DEF AddressesOf
<1>3. CASE Os(r) \notin {"ios", "junos"}
  <2>1. Unconfigured(f, r) = [f EXCEPT !.others = @ \ {Cidr(r)}]
    BY <1>3 DEF Unconfigured
  <2>2. /\ Unconfigured(f, r).primary = f.primary
        /\ Unconfigured(f, r).others = f.others \ {Cidr(r)}
    BY <2>1 DEF Iface
  <2> QED
    BY <1>3, <1>t, <2>2, CidrAssumption DEF AddressesOf
<1> QED
  BY <1>1, <1>2, <1>3

\* The only steps of a request that reach an interface.
Commands(r) ==
    \/ /\ UNCHANGED <<iface, added>>
       /\ pc[r] = "undo" /\ pc'[r] = "error" => left'[r] # "none"
    \/ /\ pc[r] = "drivable" /\ UNCHANGED first
       /\ iface' = [iface EXCEPT ![Vlan(r)] = Configured(@, r)]
       /\ pc'[r] \in {"pushed", "error"}
       /\ added' \in {added, added \cup {r}}
       /\ iface'[Vlan(r)] # iface[Vlan(r)] => added' = added \cup {r}
       /\ pc'[r] = "pushed" /\ iface'[Vlan(r)] = iface[Vlan(r)] => added' = added
       /\ pc'[r] = "error" => left'[r] = "driver"
    \/ /\ pc[r] = "undo" /\ pc'[r] = "error"
       /\ iface' = [iface EXCEPT ![Vlan(r)] = Unconfigured(@, r)]
       /\ left'[r] = IF first[r] THEN "undo" ELSE "none"
       /\ UNCHANGED added

LEMMA StepCommands ==
    ASSUME TypeOK, NEW r \in Requests, Step(r)
    PROVE  Commands(r)
<1> USE DEF Commands, Goto, Blame, TypeOK
<1>1. CASE Push(r)
  BY <1>1 DEF Push
<1>2. CASE Undo(r)
  BY <1>2 DEF Undo
<1>3. CASE DriverFail(r)
  BY <1>3 DEF DriverFail
<1> QED
  BY <1>1, <1>2, <1>3
  DEF Step, create_subnet, Lookup, CheckOverlap, Import, Insert, PreValidate, DriverCheck,
      PostChange, PostValidate, Allocate, delete_subnet, BubbleFail, Crash, stores, history

-----------------------------------------------------------------------------
(* A committed subnet is on its switch.                                    *)

\* The rows RowsConfigured speaks of.
OnSwitch(x) == Kind(x.by) # "import" /\ OsOf[x.vlan] # "ios"

\* Whoever is at work on a cidr that has a row has met the maker of the row.
SameCidrInv ==
    \A r \in Requests : Active(r) =>
        \A x \in rows : x.cidr = Cidr(r) => Met(x.by, r)

\* Past the driver's own check a request that is alone has its address.
PushedInv ==
    \A r \in Requests :
        pc[r] \in {"configured", "validated"} /\ Os(r) # "ios" =>
            Cidr(r) \in Addresses(Vlan(r)) \/ Disturbed(r)

\* A driver that is about to replace the primary address, because it saw none,
\* has no subnet to fear for but those of requests that met another one.
FirstInv ==
    \A r \in Requests :
        pc[r] = "drivable" /\ first[r] =>
            \A x \in rows : OnSwitch(x) /\ x.vlan = Vlan(r) => Disturbed(x.by)

ConfiguredInv == OverlapInv /\ SameCidrInv /\ PushedInv /\ FirstInv /\ RowsConfigured

\* What a step of request r has seen where it goes next.
Evidence(r) ==
    /\ pc'[r] = "configured" => /\ UNCHANGED <<iface, rows>>
                                /\ Os(r) = "ios" \/ Cidr(r) \in Addresses(Vlan(r))
    /\ pc'[r] = "validated" => pc[r] = "configured" /\ UNCHANGED <<iface, rows>>
    /\ pc'[r] = "drivable" =>
          /\ UNCHANGED <<iface, rows>>
          /\ first'[r] => Addresses(Vlan(r)) = {}
          /\ IF Promotes(r) THEN Cidr(r) \in Addresses(Vlan(r))
             ELSE Os(r) # "ios" => Cardinality(Addresses(Vlan(r))) < MaxSubnets
    /\ \A q \in Requests \ {r} : first'[q] = first[q] /\ left'[q] = left[q]
    /\ ~(rows' \subseteq rows) => /\ UNCHANGED iface
                                  /\ Kind(r) = "import" \/ pc[r] = "validated"

LEMMA StepEvidence ==
    ASSUME TypeOK, NEW r \in Requests, Step(r)
    PROVE  Evidence(r)
<1> USE DEF Evidence, Goto, Blame
<1>t. pc \in [Requests -> Places] /\ first \in [Requests -> BOOLEAN]
      /\ left \in [Requests -> Reasons]
  BY DEF TypeOK
<1>1. CASE DriverCheck(r)
  BY <1>1, <1>t DEF DriverCheck, MayPromote, MayCreate, stores, history
<1>2. CASE Lookup(r) \/ CheckOverlap(r) \/ Insert(r) \/ PreValidate(r)
  BY <1>2, <1>t DEF Lookup, CheckOverlap, Insert, PreValidate, stores, history
<1>3. CASE Import(r) \/ Push(r) \/ Undo(r) \/ Allocate(r)
  BY <1>3, <1>t DEF Import, Push, Undo, Allocate, history
<1>4. CASE PostChange(r) \/ PostValidate(r)
  BY <1>4, <1>t DEF PostChange, PostValidate, stores, history
<1>5. CASE delete_subnet(r) \/ BubbleFail(r) \/ DriverFail(r) \/ Crash(r)
  BY <1>5, <1>t DEF delete_subnet, BubbleFail, DriverFail, Crash, stores, history
<1> QED
  BY <1>1, <1>2, <1>3, <1>4, <1>5 DEF Step, create_subnet

LEMMA StepConfigured ==
    ASSUME ConfiguredInv, NEW r \in Requests, Step(r)
    PROVE  ConfiguredInv'
<1>1. TypeOK /\ OverlapInv' /\ Movement(r) /\ Commands(r) /\ Evidence(r)
  BY StepOverlap, StepMoves, StepCommands, StepEvidence DEF ConfiguredInv, OverlapInv
<1>2. \A q \in Requests : /\ Kind(q)' = Kind(q) /\ Cidr(q)' = Cidr(q) /\ Vlan(q)' = Vlan(q)
                          /\ Os(q)' = Os(q) /\ Vlan(q) \in Vlans
  BY <1>1, OrderType DEF Movement, Kind, Cidr, Vlan, Os
<1>3. \A q \in Requests : Disturbed(q) => Disturbed(q)'
  BY <1>1 DEF Movement, Met, Disturbed
<1>4. \A q \in Requests \ {r} : Active(q) /\ Active(r) => /\ Met(q, r) /\ Met(r, q)
                                                          /\ Met(q, r)' /\ Met(r, q)'
                                                          /\ Disturbed(q)' /\ Disturbed(r)'
  <2> SUFFICES ASSUME NEW q \in Requests \ {r}, Active(q), Active(r)
               PROVE  Met(q, r) /\ Met(r, q) /\ Disturbed(q) /\ Disturbed(r)
    BY <1>1, <1>3 DEF Movement, Met
  <2> QED
    BY DEF ConfiguredInv, OverlapInv, MetInv, Disturbed
<1>5. \A q \in Requests \ {r} : pc'[q] = pc[q] /\ (Active(q)' <=> Active(q))
  BY <1>1 DEF Movement, Active
<1>6. \A x \in rows : /\ x.by \in Requests \ {r} /\ x.vlan \in Vlans /\ x.vlan = Vlan(x.by)
                      /\ OnSwitch(x)' = OnSwitch(x)
  BY <1>1, <1>2 DEF ConfiguredInv, OverlapInv, RowsInv, TypeOK, Row, Movement, Answered,
                    OwnRow, OnSwitch
<1>7. ASSUME NEW x \in rows', x \notin rows
      PROVE  /\ x = OwnRow(r) /\ x.by = r /\ x.cidr = Cidr(r) /\ x.vlan = Vlan(r)
             /\ Active(r) /\ ~Active(r)' /\ UNCHANGED iface
             /\ OnSwitch(x)' => pc[r] = "validated" /\ Os(r) # "ios"
  <2>1. x = OwnRow(r) /\ Checked(r) /\ pc'[r] = "ok" /\ UNCHANGED iface
    BY <1>1, <1>7 DEF Movement, Evidence
  <2> QED
    BY <1>1, <1>2, <1>7, <2>1
    DEF Evidence, OwnRow, Checked, Active, BeforePush, AfterPush, OnSwitch, Os
\* The interface of another request at work changes only if r is at work too.
<1>8. UNCHANGED iface \/ Active(r)
  BY <1>1 DEF Commands, Active, BeforePush, AfterPush
<1>9. SameCidrInv'
  <2> SUFFICES ASSUME NEW q \in Requests, Active(q)', NEW x \in rows', x.cidr = Cidr(q)
               PROVE  Met(x.by, q)'
    BY <1>2 DEF SameCidrInv
  <2>1. CASE x \in rows /\ Active(q)
    BY <1>1, <2>1 DEF ConfiguredInv, SameCidrInv, Movement, Met
  <2>2. CASE x \in rows /\ ~Active(q)
    BY <1>1, <1>5, <2>2 DEF Movement
  <2>3. CASE x \notin rows
    BY <1>4, <1>5, <1>7, <2>3
  <2> QED
    BY <2>1, <2>2, <2>3
<1>10. PushedInv'
  <2> SUFFICES ASSUME NEW q \in Requests, pc'[q] \in {"configured", "validated"},
                      Os(q) # "ios", ~Disturbed(q)'
               PROVE  Cidr(q) \in Addresses(Vlan(q))'
    BY <1>2 DEF PushedInv, Addresses
  <2>1. CASE q = r
    BY <1>1, <1>2, <1>3, <2>1 DEF Evidence, ConfiguredInv, PushedInv, Addresses
  <2>2. CASE q # r
    <3>1. pc[q] = pc'[q] /\ Active(q)
      BY <1>5, <2>2 DEF Active, AfterPush
    <3>2. UNCHANGED iface
      BY <1>4, <1>8, <2>2, <3>1
    <3> QED
      BY <1>2, <1>3, <3>1, <3>2 DEF ConfiguredInv, PushedInv, Addresses
  <2> QED
    BY <2>1, <2>2
<1>11. FirstInv'
  <2> SUFFICES ASSUME NEW q \in Requests, pc'[q] = "drivable", first'[q],
                      NEW x \in rows', OnSwitch(x)', x.vlan = Vlan(q)
               PROVE  Disturbed(x.by)'
    BY <1>2 DEF FirstInv
  <2>1. CASE q = r
    <3>1. x \in rows /\ Addresses(Vlan(r)) = {}
      BY <1>1, <2>1 DEF Evidence
    <3> QED
      BY <1>3, <1>6, <2>1, <3>1 DEF ConfiguredInv, RowsConfigured, OnSwitch
  <2>2. CASE q # r /\ x \in rows
    BY <1>1, <1>3, <1>5, <1>6, <2>2 DEF ConfiguredInv, FirstInv, Evidence
  <2>3. CASE q # r /\ x \notin rows
    <3>1. Active(q)
      BY <1>5, <2>3 DEF Active, BeforePush
    <3> QED
      BY <1>4, <1>7, <2>3, <3>1
  <2> QED
    BY <2>1, <2>2, <2>3
<1>12. RowsConfigured'
  <2> SUFFICES ASSUME NEW x \in rows', OnSwitch(x)', ~Disturbed(x.by)'
               PROVE  x.cidr \in Addresses(x.vlan)'
    BY DEF RowsConfigured, OnSwitch
  <2>1. CASE x \in rows
    <3>1. x.cidr \in AddressesOf(iface[x.vlan]) /\ ~Disturbed(x.by)
      BY <1>3, <1>6, <2>1 DEF ConfiguredInv, RowsConfigured, Addresses, OnSwitch
    <3>2. iface \in [Vlans -> Iface]
      BY <1>1 DEF TypeOK
    <3>3. CASE iface'[x.vlan] = iface[x.vlan]
      BY <3>1, <3>3 DEF Addresses
    <3>4. CASE /\ pc[r] = "drivable" /\ x.vlan = Vlan(r)
               /\ iface'[x.vlan] = Configured(iface[x.vlan], r)
      <4>1. ~first[r]
        BY <1>6, <2>1, <3>1, <3>4 DEF ConfiguredInv, FirstInv
      <4> QED
        BY <1>1, <1>6, <2>1, <3>1, <3>2, <3>4, <4>1, ConfiguredAddresses DEF Addresses
    <3>5. CASE /\ pc[r] = "undo" /\ x.vlan = Vlan(r)
               /\ iface'[x.vlan] = Unconfigured(iface[x.vlan], r)
      <4>1. Active(r) /\ x.by # r
        BY <1>6, <2>1, <3>5 DEF Active, AfterPush
      <4>2. x.cidr # Cidr(r)
        BY <2>1, <3>1, <4>1 DEF ConfiguredInv, SameCidrInv, Disturbed
      <4> QED
        BY <1>1, <1>6, <2>1, <3>1, <3>2, <3>5, <4>2, UnconfiguredAddresses DEF Addresses
    <3> QED
      BY <1>1, <1>2, <1>6, <2>1, <3>2, <3>3, <3>4, <3>5 DEF Commands
  <2>2. CASE x \notin rows
    BY <1>3, <1>7, <2>2 DEF ConfiguredInv, PushedInv, Addresses
  <2> QED
    BY <2>1, <2>2
<1> QED
  BY <1>1, <1>9, <1>10, <1>11, <1>12 DEF ConfiguredInv

LEMMA RestConfigured ==
    ASSUME ConfiguredInv, Routing \/ UNCHANGED vars
    PROVE  ConfiguredInv'
<1>1. OverlapInv'
  BY RestOverlap DEF ConfiguredInv
<1>2. UNCHANGED <<rows, iface, order, pc, first, met>>
  BY DEF Routing, Learn, Withdraw, history, vars
<1> QED
  BY <1>1, <1>2 DEF ConfiguredInv, SameCidrInv, PushedInv, FirstInv, RowsConfigured, OnSwitch,
                    Met, Disturbed, Active, Kind, Cidr, Vlan, Os, Addresses

\* A subnet that create_subnet committed stays on the interface of its vlan,
\* whatever requests come, fail or are deleted after it; only requests served at
\* the same time can take its address away.
THEOREM CommittedStaysConfigured == Spec => []RowsConfigured
<1>1. Init => ConfiguredInv
  BY InitType DEF Init, ConfiguredInv, OverlapInv, RowsInv, MetInv, CheckedInv, NoOverlap,
                  SameCidrInv, PushedInv, FirstInv, RowsConfigured,
                  Active, BeforePush, AfterPush
<1>2. ConfiguredInv /\ [Next]_vars => ConfiguredInv'
  BY NextCases, StepConfigured, RestConfigured
<1>3. ConfiguredInv => RowsConfigured
  BY DEF ConfiguredInv
<1> QED
  BY <1>1, <1>2, <1>3, PTL DEF Spec

-----------------------------------------------------------------------------
(* An address without its row.                                             *)

\* Another request has put the same address on the same interface.
Twin(r) == \E q \in added \ {r} : Cidr(q) = Cidr(r) /\ Vlan(q) = Vlan(r)

Deleted(r) == \E d \in Requests : Kind(d) = "delete" /\ Cidr(d) = Cidr(r) /\ pc[d] = "ok"

\* What a create that the switch has obeyed may still count on.  Where it is
\* not primary its address can be removed; a primary one can only have been
\* made so by another request.
Accounted(r) ==
    /\ pc[r] \in AfterPush \cup Answered
    /\ pc[r] \in AfterPush => Os(r) # "ios"
    /\ pc[r] \in AfterPush /\ Os(r) # "junos" /\ ~first[r] =>
          iface[Vlan(r)].primary # Cidr(r) \/ Twin(r)
    /\ pc[r] = "ok" => OwnRow(r) \in rows \/ Deleted(r)
    /\ pc[r] = "error" /\ left[r] = "none" =>
          Cidr(r) \notin Addresses(Vlan(r)) \/ Twin(r)

AddedInv == \A r \in added : Kind(r) = "create" => Accounted(r)

\* How a create that the switch has obeyed goes on.
Aftermath(r) ==
    /\ \A x \in rows : x \notin rows' =>
          Kind(r) = "delete" /\ Cidr(r) = x.cidr /\ pc'[r] = "ok"
    /\ pc[r] \in BeforePush \cup AfterPush /\ Kind(r) = "create" =>
          /\ pc'[r] = "ok" => OwnRow(r) \in rows'
          /\ pc[r] \in AfterPush => /\ pc'[r] \in AfterPush \cup Answered
                                    /\ first'[r] = first[r]
                                    /\ pc[r] # "undo" /\ pc'[r] = "error" => left'[r] # "none"

LEMMA StepAftermath ==
    ASSUME TypeOK, NEW r \in Requests, Step(r)
    PROVE  Aftermath(r)
<1> USE DEF Aftermath, Goto, Blame, BeforePush, AfterPush, Answered
<1>t. pc \in [Requests -> Places] /\ left \in [Requests -> Reasons]
  BY DEF TypeOK
<1>1. CASE delete_subnet(r)
  BY <1>1, <1>t DEF delete_subnet, history
<1>2. CASE Lookup(r) \/ CheckOverlap(r) \/ Insert(r) \/ PreValidate(r) \/ DriverCheck(r)
  BY <1>2, <1>t DEF Lookup, CheckOverlap, Insert, PreValidate, DriverCheck, stores, history
<1>3. CASE Import(r) \/ Push(r) \/ Undo(r) \/ Allocate(r)
  BY <1>3, <1>t DEF Import, Push, Undo, Allocate, history
<1>4. CASE PostChange(r) \/ PostValidate(r)
  BY <1>4, <1>t DEF PostChange, PostValidate, stores, history
<1>5. CASE BubbleFail(r) \/ DriverFail(r) \/ Crash(r)
  BY <1>5, <1>t DEF BubbleFail, DriverFail, Crash, stores, history
<1> QED
  BY <1>1, <1>2, <1>3, <1>4, <1>5 DEF Step, create_subnet

\* The primary address a create that is not the first may meet after its push.
LEMMA ConfiguredPrimary ==
    ASSUME TypeOK, NEW r \in Requests, NEW f \in Iface
    PROVE  /\ Configured(f, r).primary \in {f.primary, Cidr(r)}
           /\ /\ Os(r) \in {"nxos", "eos"} /\ ~first[r] /\ Configured(f, r) # f
              => Configured(f, r).primary # Cidr(r)
<1>1. CASE Os(r) \in {"nxos", "eos"} /\ ~first[r]
  <2> DEFINE g == [f EXCEPT !.others = @ \cup ({Cidr(r)} \ {f.primary})]
  <2>1. ~Promotes(r) /\ Os(r) # "ios" /\ ~(Os(r) \in {"nxos", "eos"} /\ first[r])
    BY <1>1 DEF Promotes
  <2>2. Configured(f, r) = g
    BY <2>1, Zenon DEF Configured
  <2>3. g.primary = f.primary
    BY DEF Iface
  <2>4. f.primary = Cidr(r) => g = f
    BY DEF Iface
  <2> HIDE DEF g
  <2> QED
    BY <2>2, <2>3, <2>4
<1>2. CASE ~(Os(r) \in {"nxos", "eos"} /\ ~first[r])
  <2>1. CASE Os(r) = "ios"
    BY <1>2, <2>1 DEF Configured
  <2>2. CASE Os(r) # "ios" /\ Promotes(r)
    BY <1>2, <2>2 DEF Configured, Promotes
  <2>3. CASE Os(r) \in {"nxos", "eos"} /\ first[r]
    BY <1>2, <2>3 DEF Configured, Promotes
  <2>4. CASE Os(r) = "junos" /\ ~Promotes(r)
    <3> DEFINE g == [f EXCEPT !.others = @ \cup ({Cidr(r)} \ {f.primary})]
    <3>1. ~Promotes(r) /\ Os(r) # "ios" /\ ~(Os(r) \in {"nxos", "eos"} /\ first[r])
      BY <2>4
    <3>2. Configured(f, r) = g
      BY <3>1, Zenon DEF Configured
    <3>3. g.primary = f.primary
      BY DEF Iface
    <3> QED
      BY <2>4, <3>2, <3>3
  <2>5. Os(r) \in Systems
    BY OrderType, TopologyAssumption DEF Os
  <2> QED
    BY <1>2, <2>1, <2>2, <2>3, <2>4, <2>5 DEF Systems
<1> QED
  BY <1>1, <1>2

LEMMA StepAdded ==
    ASSUME TypeOK, RowsInv, AddedInv, NEW r \in Requests, Step(r)
    PROVE  AddedInv'
<1>1. Movement(r) /\ Commands(r) /\ Evidence(r) /\ Aftermath(r)
  BY StepMoves, StepCommands, StepEvidence, StepAftermath
<1>2. \A q \in Requests : /\ Kind(q)' = Kind(q) /\ Cidr(q)' = Cidr(q) /\ Vlan(q)' = Vlan(q)
                          /\ Os(q)' = Os(q) /\ OwnRow(q)' = OwnRow(q)
                          /\ Vlan(q) \in Vlans /\ iface[Vlan(q)] \in Iface
                          /\ Os(q) \in Systems /\ Cidr(q) # NoCidr
  BY <1>1, OrderType, CidrAssumption, TopologyAssumption
  DEF Movement, Kind, Cidr, Vlan, Os, OwnRow, TypeOK
<1>3. added \subseteq added' /\ added' \subseteq added \cup {r} /\ added \subseteq Requests
  BY <1>1 DEF Commands, TypeOK
<1>4. \A q \in added : Twin(q) => Twin(q)'
  BY <1>2, <1>3 DEF Twin
<1>5. \A q \in Requests : Deleted(q) => Deleted(q)'
  <2>1. \A d \in Requests : pc[d] = "ok" => pc'[d] = "ok"
    BY <1>1 DEF Movement, Answered
  <2> QED
    BY <1>2, <2>1 DEF Deleted
<1>t. pc \in [Requests -> Places] /\ iface \in [Vlans -> Iface] /\ left \in [Requests -> Reasons]
  BY DEF TypeOK
\* Only r's own address comes to an interface, and with it r is in added.
<1>6. ASSUME NEW v \in Vlans, NEW c \in Cidrs, v # Vlan(r) \/ c # Cidr(r) \/ r \notin added'
      PROVE  /\ c \notin Addresses(v) => c \notin Addresses(v)'
             /\ iface[v].primary # c => iface'[v].primary # c
  <2>1. CASE iface'[v] = iface[v]
    BY <2>1 DEF Addresses
  <2>2. CASE /\ v = Vlan(r) /\ iface'[v] = Configured(iface[v], r) /\ iface'[v] # iface[v]
             /\ added' = added \cup {r}
    BY <1>2, <1>6, <2>2, ConfiguredAddresses, ConfiguredPrimary DEF Addresses
  <2>3. CASE v = Vlan(r) /\ iface'[v] = Unconfigured(iface[v], r)
    BY <1>2, <1>6, <2>3, UnconfiguredAddresses, CidrAssumption DEF Addresses
  <2> QED
    BY <1>1, <1>2, <1>t, <2>1, <2>2, <2>3 DEF Commands
<1>7. ASSUME NEW q \in added, q # r, Accounted(q)
      PROVE  Accounted(q)'
  <2>1. q \in Requests /\ pc'[q] = pc[q] /\ first'[q] = first[q] /\ left'[q] = left[q]
    BY <1>1, <1>3, <1>7 DEF Movement, Evidence
  <2>2. Cidr(q) \in Cidrs
    BY <2>1, OrderType
  <2>3. \/ Vlan(q) # Vlan(r) \/ Cidr(q) # Cidr(r) \/ r \notin added'
        \/ Twin(q)'
    BY <1>2, <1>7, <2>1 DEF Twin
  <2>4. ASSUME OwnRow(q) \in rows, OwnRow(q) \notin rows'
        PROVE  Deleted(q)'
    <3>1. Kind(r) = "delete" /\ Cidr(r) = OwnRow(q).cidr /\ pc'[r] = "ok"
      BY <1>1, <2>4 DEF Aftermath
    <3> QED
      BY <1>2, <2>1, <3>1 DEF Deleted, OwnRow
  <2>5. iface[Vlan(q)].primary # Cidr(q) =>
            iface'[Vlan(q)].primary # Cidr(q) \/ Twin(q)'
    BY <1>2, <1>6, <2>1, <2>2, <2>3
  <2>6. Cidr(q) \notin Addresses(Vlan(q)) => Cidr(q) \notin AddressesOf(iface'[Vlan(q)]) \/ Twin(q)'
    BY <1>2, <1>6, <2>1, <2>2, <2>3 DEF Addresses
  <2> QED
    BY <1>2, <1>4, <1>5, <1>7, <2>1, <2>4, <2>5, <2>6 DEF Accounted, Addresses
<1>8. ASSUME r \in added', Kind(r) = "create"
      PROVE  Accounted(r)'
  <2> USE DEF BeforePush, AfterPush, Answered
  <2>1. CASE r \in added
    <3>1. Accounted(r) /\ pc[r] \in AfterPush
      BY <1>1, <1>8, <2>1 DEF AddedInv, Accounted, Movement
    <3>2. /\ pc'[r] \in AfterPush \cup Answered
          /\ first'[r] = first[r]
          /\ pc'[r] = "ok" => OwnRow(r) \in rows'
          /\ pc[r] # "undo" /\ pc'[r] = "error" => left'[r] # "none"
      BY <1>1, <1>8, <3>1 DEF Aftermath
    <3>3. CASE UNCHANGED iface /\ (pc[r] = "undo" /\ pc'[r] = "error" => left'[r] # "none")
      BY <1>2, <1>4, <2>1, <3>1, <3>2, <3>3 DEF Accounted
    <3>4. CASE /\ pc[r] = "undo" /\ pc'[r] = "error"
               /\ iface' = [iface EXCEPT ![Vlan(r)] = Unconfigured(@, r)]
               /\ left'[r] = IF first[r] THEN "undo" ELSE "none"
      <4>1. iface'[Vlan(r)] = Unconfigured(iface[Vlan(r)], r)
        BY <1>2, <1>t, <3>4
      <4>2. ASSUME ~first[r], ~Twin(r)
            PROVE  Cidr(r) \notin AddressesOf(iface'[Vlan(r)])
        BY <1>2, <3>1, <4>1, <4>2, UnconfiguredAddresses DEF Accounted
      <4> QED
        BY <1>2, <1>4, <2>1, <3>4, <4>2 DEF Accounted, Addresses
    <3> QED
      BY <1>1, <3>1, <3>3, <3>4 DEF Commands
  <2>2. CASE r \notin added
    <3>1. /\ pc'[r] \in {"pushed", "error"}
          /\ iface'[Vlan(r)] = Configured(iface[Vlan(r)], r)
          /\ pc[r] = "drivable"
          /\ pc'[r] = "pushed" => iface'[Vlan(r)] # iface[Vlan(r)]
          /\ pc'[r] = "error" => left'[r] # "none"
          /\ first' = first
      BY <1>1, <1>2, <1>8, <1>t, <2>2 DEF Commands
    <3> QED
      BY <1>2, <3>1, ConfiguredAddresses, ConfiguredPrimary DEF Accounted, Systems
  <2> QED
    BY <2>1, <2>2
<1> QED
  BY <1>2, <1>3, <1>7, <1>8 DEF AddedInv

LEMMA RestAdded ==
    ASSUME AddedInv, Routing \/ UNCHANGED vars
    PROVE  AddedInv'
<1>1. UNCHANGED <<rows, iface, order, pc, first, added, left>>
  BY DEF Routing, Learn, Withdraw, history, vars
<1> QED
  BY <1>1 DEF AddedInv, Accounted, Twin, Deleted, Kind, Cidr, Vlan, Os, OwnRow, Addresses

\* An address that a create has put on a switch and that has no row in
\* nf_subnets has a reason: a create at work or dead, a deletion, or one of the
\* failures that undo nothing.
THEOREM LeftoversExplained == Spec => []FailureExplained
<1> DEFINE Inv == OverlapInv /\ AddedInv
<1>1. Init => Inv
  BY InitType DEF Init, OverlapInv, RowsInv, MetInv, CheckedInv, NoOverlap,
                  Active, BeforePush, AfterPush, AddedInv
<1>2. Inv /\ [Next]_vars => Inv'
  <2>1. OverlapInv /\ [Next]_vars => OverlapInv'
    BY NextCases, StepOverlap, RestOverlap
  <2> QED
    BY <2>1, NextCases, StepAdded, RestAdded DEF OverlapInv
<1>3. Inv => FailureExplained
  BY DEF AddedInv, Accounted, FailureExplained, Twin, Deleted, Answered
<1> QED
  BY <1>1, <1>2, <1>3, PTL DEF Spec

-----------------------------------------------------------------------------
(* The limit of an interface.                                              *)

\* Another request for the same interface was served at the same time.
Shared(r) == \E q \in Requests \ {r} : Met(r, q) /\ Vlan(q) = Vlan(r)

\* What a driver has counted still holds when it sends its command.
RoomInv ==
    \A r \in Requests :
        pc[r] = "drivable" /\ Os(r) # "ios" =>
            \/ Shared(r)
            \/ IF Promotes(r) THEN Cidr(r) \in Addresses(Vlan(r))
               ELSE Cardinality(Addresses(Vlan(r))) < MaxSubnets

LEMMA StepRoom ==
    ASSUME TypeOK, MetInv, RoomInv, NEW r \in Requests, Step(r)
    PROVE  RoomInv'
<1>1. Movement(r) /\ Commands(r) /\ Evidence(r)
  BY StepMoves, StepCommands, StepEvidence
<1>2. \A q \in Requests : /\ Cidr(q)' = Cidr(q) /\ Vlan(q)' = Vlan(q) /\ Os(q)' = Os(q)
                          /\ Promotes(q)' = Promotes(q) /\ Vlan(q) \in Vlans
  BY <1>1, OrderType DEF Movement, Kind, Cidr, Vlan, Os, Promotes
<1> SUFFICES ASSUME NEW q \in Requests, pc'[q] = "drivable", Os(q) # "ios", ~Shared(q)'
             PROVE  IF Promotes(q) THEN Cidr(q) \in AddressesOf(iface'[Vlan(q)])
                    ELSE Cardinality(AddressesOf(iface'[Vlan(q)])) < MaxSubnets
  BY <1>2 DEF RoomInv, Addresses
<1>3. CASE q = r
  BY <1>1, <1>2, <1>3 DEF Evidence, Addresses
<1>4. CASE q # r
  <2>1. pc[q] = "drivable" /\ Active(q)
    BY <1>1, <1>4 DEF Movement, Active, BeforePush
  <2>2. ~Shared(q)
    BY <1>1, <1>2 DEF Movement, Shared, Met
  <2>3. iface'[Vlan(q)] = iface[Vlan(q)]
    <3>1. CASE Active(r)
      <4>1. Vlan(q) # Vlan(r)
        BY <1>4, <2>1, <2>2, <3>1 DEF MetInv, Shared
      <4> QED
        BY <1>1, <1>2, <4>1 DEF Commands, TypeOK
    <3>2. CASE ~Active(r)
      BY <1>1, <3>2 DEF Commands, Active, BeforePush, AfterPush
    <3> QED
      BY <3>1, <3>2
  <2> QED
    BY <2>1, <2>2, <2>3 DEF RoomInv, Addresses
<1> QED
  BY <1>3, <1>4

LEMMA RestRoom ==
    ASSUME RoomInv, Routing \/ UNCHANGED vars
    PROVE  RoomInv'
<1>1. UNCHANGED <<iface, order, pc, met>>
  BY DEF Routing, Learn, Withdraw, history, vars
<1> QED
  BY <1>1 DEF RoomInv, Shared, Met, Promotes, Kind, Cidr, Vlan, Os, Addresses

\* Interfaces have finitely many addresses.
LEMMA AddressesFinite ==
    ASSUME NEW f \in Iface
    PROVE  IsFiniteSet(AddressesOf(f)) /\ Cardinality(AddressesOf(f)) \in Nat
<1>1. AddressesOf(f) \subseteq Cidrs
  BY DEF AddressesOf, Iface
<1> QED
  BY <1>1, CidrAssumption, FS_Subset, FS_CardinalityType

\* WithinLimit of one step.
Grows(v) == Cardinality(AddressesOf(iface'[v])) > Cardinality(Addresses(v))

Limited(v) ==
    \/ Cardinality(AddressesOf(iface'[v])) <= MaxSubnets
    \/ \E r, q \in Requests : r # q /\ Met(r, q) /\ Vlan(r) = v /\ Vlan(q) = v

LEMMA StepLimit ==
    ASSUME TypeOK, RoomInv, NEW r \in Requests, Step(r), NEW v \in Vlans, Grows(v)
    PROVE  Limited(v)
<1> DEFINE f == iface[v]
           g == iface'[v]
<1>1. Commands(r) /\ f \in Iface /\ g \in Iface
  BY StepCommands, StepType DEF TypeOK
<1>2. /\ IsFiniteSet(AddressesOf(f)) /\ Cardinality(AddressesOf(f)) \in Nat
      /\ IsFiniteSet(AddressesOf(g)) /\ Cardinality(AddressesOf(g)) \in Nat
  BY <1>1, AddressesFinite
<1>3. ~(AddressesOf(g) \subseteq AddressesOf(f))
  BY <1>2, FS_Subset DEF Grows, Addresses
<1>4. pc[r] = "drivable" /\ v = Vlan(r) /\ g = Configured(f, r)
  BY <1>1, <1>3, UnconfiguredAddresses DEF Commands, TypeOK
<1>5. AddressesOf(g) \subseteq AddressesOf(f) \cup {Cidr(r)} /\ Os(r) # "ios"
  BY <1>1, <1>3, <1>4, ConfiguredAddresses
<1>6. CASE Shared(r)
  BY <1>4, <1>6 DEF Shared, Limited
<1>7. CASE ~Shared(r)
  <2>1. Cidr(r) \notin AddressesOf(f)
    BY <1>3, <1>5
  <2>2. Cardinality(AddressesOf(f)) < MaxSubnets
    BY <1>4, <1>5, <1>7, <2>1 DEF RoomInv, Addresses
  <2>3. /\ IsFiniteSet(AddressesOf(f) \cup {Cidr(r)})
        /\ Cardinality(AddressesOf(f) \cup {Cidr(r)}) = Cardinality(AddressesOf(f)) + 1
    BY <1>2, <2>1, FS_AddElement
  <2>4. Cardinality(AddressesOf(g)) <= Cardinality(AddressesOf(f)) + 1
    BY <1>5, <2>3, FS_Subset
  <2> HIDE DEF f, g
  <2>5. Cardinality(AddressesOf(g)) <= MaxSubnets
    BY <1>2, <2>2, <2>4, TopologyAssumption
  <2> QED
    BY <2>5 DEF Limited, g
<1> QED
  BY <1>6, <1>7

\* An interface grows past max_subnets_each_interface only by two requests
\* for it that are served at the same time: the count and the command of a
\* request that is alone are about the same interface.
THEOREM LimitKept == Spec => WithinLimit
<1> DEFINE Inv == OverlapInv /\ RoomInv
<1>1. Init => Inv
  BY InitType DEF Init, OverlapInv, RowsInv, MetInv, CheckedInv, NoOverlap,
                  Active, BeforePush, AfterPush, RoomInv
<1>2. Inv /\ [Next]_vars => Inv'
  <2>1. OverlapInv /\ [Next]_vars => OverlapInv'
    BY NextCases, StepOverlap, RestOverlap
  <2> QED
    BY <2>1, NextCases, StepRoom, RestRoom DEF OverlapInv
<1>3. Inv /\ [Next]_vars => [\A v \in Vlans : Grows(v) => Limited(v)]_vars
  <2> SUFFICES ASSUME Inv, Next, NEW v \in Vlans, Grows(v) PROVE Limited(v)
    OBVIOUS
  <2>1. ASSUME NEW r \in Requests, Step(r) PROVE Limited(v)
    BY <2>1, StepLimit DEF OverlapInv
  <2>2. CASE Routing
    <3>1. UNCHANGED iface /\ iface[v] \in Iface
      BY <2>2 DEF Routing, Learn, Withdraw, OverlapInv, TypeOK
    <3>2. Cardinality(Addresses(v)) \in Nat
      BY <3>1, AddressesFinite DEF Addresses
    <3> QED
      BY <3>1, <3>2 DEF Grows, Addresses
  <2> QED
    BY <2>1, <2>2, NextCases
<1> QED
  BY <1>1, <1>2, <1>3, PTL DEF Spec, WithinLimit, Grows, Limited
=============================================================================
