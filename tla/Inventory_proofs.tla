-------------------------- MODULE Inventory_proofs --------------------------
(***************************************************************************)
(* Theorems about Inventory for any objects, vlans, orders and number of    *)
(* requests.                                                               *)
(***************************************************************************)
EXTENDS Inventory, TLAPS

Step(r) == Serve(r) \/ Crash(r)

-----------------------------------------------------------------------------
(* Types.                                                                  *)

\* The VPC a create has found is one of the name it asked for.
SeenInv ==
    \A r \in Requests : Is(r, "checked", "create_vlan") /\ want[r].vpc # Null =>
        /\ seen[r] # {}
        /\ seen[r] \subseteq { o \in OfKind("vpc") : VpcName[o] = want[r].vpc }

TypeInv == TypeOK /\ SeenInv

LEMMA InitType == Init => TypeInv
<1> SUFFICES ASSUME Init PROVE TypeInv
  OBVIOUS
<1>1. vlans \in [VlanIds -> VlanRow \cup {Null}]
  BY SeedAssumption DEF Init, VlanIds
<1>2. SeenInv
  BY DEF Init, SeenInv, Is
<1>3. subnets \subseteq VlanIds /\ bindings \subseteq Binding
  BY SeedAssumption DEF Init, VlanIds
<1>4. objects \in [Objects -> {"never", "present", "gone"}]
  BY DEF Init
<1> QED
  BY <1>1, <1>2, <1>3, <1>4 DEF Init, TypeInv, TypeOK, Places, Answered

LEMMA OrderType ==
    ASSUME TypeOK, NEW r \in Requests
    PROVE  /\ want[r].op = "create_vlan" =>
                /\ want[r].bg \in OfKind("bridgegroup")
                /\ want[r].name \in Names
                /\ want[r].tag \in Tags
                /\ want[r].vpc \in Names \cup {Null}
           /\ want[r].op \in {"delete_vlan", "create_subnet", "delete_subnet"} =>
                want[r].vlan \in VlanIds
           /\ want[r].op = "update_port" =>
                want[r].port \in OfKind("port") /\ want[r].refs \subseteq Ref
           /\ want[r].op \in {"create", "delete"} => want[r].object \in Objects
<1>1. want[r] \in Order
  BY OrderAssumption DEF TypeOK
<1> QED
  BY <1>1 DEF Order

\* The row create_vlan inserts, and the names by which SeenInv knows its VPC.
LEMMA NewVlanType ==
    ASSUME TypeInv, NEW r \in Requests, Is(r, "checked", "create_vlan")
    PROVE  /\ NewVlan(r) \in VlanRow
           /\ NewVlan(r).bg = want[r].bg
           /\ NewVlan(r).name = want[r].name
           /\ NewVlan(r).tag = want[r].tag
           /\ want[r].vpc = Null => NewVlan(r).vpc = Null
           /\ want[r].vpc # Null => /\ NewVlan(r).vpc # Null
                                    /\ VpcName[NewVlan(r).vpc] = want[r].vpc
<1> DEFINE vpc == CHOOSE o \in seen[r] : TRUE
<1>1. want[r].op = "create_vlan"
  BY DEF Is
<1>2. want[r].vpc # Null => vpc \in OfKind("vpc") /\ VpcName[vpc] = want[r].vpc
  BY DEF TypeInv, SeenInv
<1>3. \A o \in OfKind("vpc") : o # Null
  BY ObjectAssumption DEF OfKind
<1> HIDE DEF vpc
<1>4. NewVlan(r) = [bg |-> want[r].bg, name |-> want[r].name, tag |-> want[r].tag,
                    vpc |-> IF want[r].vpc = Null THEN Null ELSE vpc, status |-> "ACTIVE"]
  BY DEF NewVlan, vpc
<1> QED
  BY <1>1, <1>2, <1>3, <1>4, OrderType DEF TypeInv, VlanRow

LEMMA GotoType ==
    ASSUME TypeOK, NEW r \in Requests, NEW l \in Places, Goto(r, l)
    PROVE  pc' \in [Requests -> Places]
BY DEF TypeOK, Goto

LEMMA ArriveType ==
    ASSUME TypeOK, NEW r \in Requests, Arrive(r)
    PROVE  met' \subseteq SUBSET Requests /\ earlier' \in [Requests -> SUBSET VlanIds]
<1>1. Existing \subseteq VlanIds
  BY DEF Existing
<1> QED
  BY <1>1 DEF TypeOK, Arrive

\* What every step keeps of the history and of the place it goes to.
LEMMA StepFrame ==
    ASSUME TypeOK, NEW r \in Requests, Step(r)
    PROVE  /\ want' = want
           /\ \E l \in Places \ {"arrive"} : Goto(r, l)
           /\ \/ pc[r] = "arrive" /\ Arrive(r)
              \/ Active(r) /\ UNCHANGED <<met, earlier>>
<1> USE DEF Places, Answered, Is, Arrived
<1>1. CASE CheckVlan(r)
  BY <1>1 DEF CheckVlan
<1>2. CASE InsertVlan(r) \/ ListVlan(r) \/ RemoveVlan(r) \/ BindVlans(r) \/ RemoveDevice(r)
  BY <1>2 DEF InsertVlan, ListVlan, RemoveVlan, BindVlans, RemoveDevice, Active
<1>3. CASE MarkVlan(r) \/ ResolveVlans(r) \/ create_subnet(r) \/ delete_subnet(r)
  BY <1>3 DEF MarkVlan, ResolveVlans, create_subnet, delete_subnet
<1>4. CASE CreateObject(r) \/ DeleteObject(r) \/ ListDevice(r)
  BY <1>4 DEF CreateObject, DeleteObject, ListDevice
<1>5. CASE Crash(r)
  BY <1>5 DEF Crash
<1> QED
  BY <1>1, <1>2, <1>3, <1>4, <1>5 DEF Step, Serve

\* A marked row is a row, and differs in its status only.
LEMMA MarkedRow ==
    ASSUME NEW row \in VlanRow
    PROVE  LET marked == [row EXCEPT !.status = "PENDING_DELETE"] IN
           /\ marked \in VlanRow
           /\ marked.bg = row.bg /\ marked.name = row.name
           /\ marked.tag = row.tag /\ marked.vpc = row.vpc
BY DEF VlanRow

\* The tables, step by step.
LEMMA TableType ==
    ASSUME TypeInv, NEW r \in Requests, Step(r)
    PROVE  /\ objects' \in [Objects -> {"never", "present", "gone"}]
           /\ vlans' \in [VlanIds -> VlanRow \cup {Null}]
           /\ bindings' \subseteq Binding
           /\ subnets' \subseteq VlanIds
<1> USE DEF tables
<1>t. TypeOK
  BY DEF TypeInv
<1>1. CASE InsertVlan(r)
  <2>1. NewVlan(r) \in VlanRow
    BY <1>1, NewVlanType DEF InsertVlan
  <2>2. vlans' \in [VlanIds -> VlanRow \cup {Null}]
    BY <1>1, <1>t, <2>1 DEF InsertVlan, TypeOK, VlanIds
  <2> QED
    BY <1>1, <1>t, <2>2 DEF InsertVlan, TypeOK
<1>2. CASE MarkVlan(r)
  <2> DEFINE v == want[r].vlan
  <2>1. v \in VlanIds
    BY <1>2, <1>t, OrderType DEF MarkVlan, Is
  <2>2. v \in Existing => vlans[v] \in VlanRow
    BY <1>t DEF TypeOK, Existing
  <2>3. vlans' \in [VlanIds -> VlanRow \cup {Null}]
    <3>1. CASE v \in Existing
      <4> DEFINE marked == [vlans[v] EXCEPT !.status = "PENDING_DELETE"]
      <4>1. marked \in VlanRow
        BY <2>2, <3>1, MarkedRow
      <4>2. vlans' = [vlans EXCEPT ![v] = marked]
        BY <1>2, <3>1 DEF MarkVlan
      <4> HIDE DEF marked
      <4> QED
        BY <1>t, <2>1, <4>1, <4>2 DEF TypeOK
    <3>2. CASE v \notin Existing
      BY <1>2, <1>t, <3>2 DEF MarkVlan, TypeOK
    <3> QED
      BY <3>1, <3>2
  <2> QED
    BY <1>2, <1>t, <2>3 DEF MarkVlan, TypeOK
<1>3. CASE RemoveVlan(r)
  <2>1. vlans' \in [VlanIds -> VlanRow \cup {Null}]
    BY <1>3, <1>t DEF RemoveVlan, TypeOK
  <2> QED
    BY <1>3, <1>t, <2>1 DEF RemoveVlan, TypeOK
<1>4. CASE BindVlans(r)
  BY <1>4, <1>t DEF BindVlans, TypeOK
<1>5. CASE create_subnet(r)
  BY <1>5, <1>t DEF create_subnet, TypeOK, Existing
<1>6. CASE delete_subnet(r)
  BY <1>6, <1>t DEF delete_subnet, TypeOK
<1>7. CASE CreateObject(r) \/ DeleteObject(r)
  BY <1>7, <1>t DEF CreateObject, DeleteObject, TypeOK
<1>8. CASE RemoveDevice(r)
  BY <1>8, <1>t DEF RemoveDevice, TypeOK
<1>9. CASE CheckVlan(r) \/ ListVlan(r) \/ ResolveVlans(r) \/ ListDevice(r) \/ Crash(r)
  BY <1>9, <1>t DEF CheckVlan, ListVlan, ResolveVlans, ListDevice, Crash, TypeOK
<1> QED
  BY <1>1, <1>2, <1>3, <1>4, <1>5, <1>6, <1>7, <1>8, <1>9 DEF Step, Serve

\* What the requests have loaded, step by step.
LEMMA LocalType ==
    ASSUME TypeOK, NEW r \in Requests, Step(r)
    PROVE  /\ seen' \in [Requests -> SUBSET Objects]
           /\ listed' \in [Requests -> SUBSET Binding]
<1> USE DEF locals
<1>1. CASE CheckVlan(r)
  <2>1. \A name : VpcsNamed(name) \subseteq Objects
    BY DEF VpcsNamed, OfKind
  <2>2. seen' \in [Requests -> SUBSET Objects]
    BY <1>1, <2>1 DEF CheckVlan, TypeOK
  <2> QED
    BY <1>1, <2>2 DEF CheckVlan, TypeOK
<1>2. CASE ResolveVlans(r)
  <2> DEFINE p == want[r].port
  <2>1. p \in OfKind("port") /\ want[r].refs \subseteq Ref
    BY <1>2, OrderType DEF ResolveVlans, Is
  <2>2. ASSUME NEW meaning \in [want[r].refs -> VlanIds], NEW ref \in want[r].refs
        PROVE  [port |-> p, vlan |-> meaning[ref], native |-> ref.native,
                by |-> ref.by, maker |-> r] \in Binding
    BY <2>1 DEF Binding, Ref
  <2>3. listed' \in [Requests -> SUBSET Binding]
    <3>1. CASE UNCHANGED listed
      BY <3>1 DEF TypeOK
    <3>2. CASE ~UNCHANGED listed
      <4>1. PICK meaning \in [want[r].refs -> VlanIds] :
               listed' = [listed EXCEPT ![r] =
                  { [port |-> p, vlan |-> meaning[ref], native |-> ref.native,
                     by |-> ref.by, maker |-> r] : ref \in want[r].refs }]
        BY <1>2, <3>2 DEF ResolveVlans
      <4>2. { [port |-> p, vlan |-> meaning[ref], native |-> ref.native,
               by |-> ref.by, maker |-> r] : ref \in want[r].refs } \subseteq Binding
        BY <2>2
      <4> QED
        BY <4>1, <4>2 DEF TypeOK
    <3> QED
      BY <3>1, <3>2
  <2> QED
    BY <1>2, <2>3 DEF ResolveVlans, TypeOK
<1>3. CASE ListVlan(r)
  BY <1>3 DEF ListVlan, TypeOK
<1>4. CASE ListDevice(r)
  BY <1>4 DEF ListDevice, TypeOK, PortsOf, OfKind, BindingsOf
<1>5. CASE InsertVlan(r) \/ MarkVlan(r) \/ RemoveVlan(r) \/ BindVlans(r) \/ RemoveDevice(r)
  BY <1>5 DEF InsertVlan, MarkVlan, RemoveVlan, BindVlans, RemoveDevice, TypeOK
<1>6. CASE \/ create_subnet(r) \/ delete_subnet(r) \/ CreateObject(r) \/ DeleteObject(r) \/ Crash(r)
  BY <1>6 DEF create_subnet, delete_subnet, CreateObject, DeleteObject, Crash, TypeOK
<1> QED
  BY <1>1, <1>2, <1>3, <1>4, <1>5, <1>6 DEF Step, Serve

\* Only CheckVlan takes a create to "checked", and nobody else touches what a
\* request has seen.
LEMMA SeenKept ==
    ASSUME TypeInv, NEW r \in Requests, Step(r)
    PROVE  SeenInv'
<1>t. TypeOK
  BY DEF TypeInv
<1>f. want' = want /\ \E l \in Places : Goto(r, l)
  BY <1>t, StepFrame
<1>1. \A q \in Requests \ {r} : pc'[q] = pc[q] /\ seen'[q] = seen[q]
  <2>1. \A q \in Requests \ {r} : pc'[q] = pc[q]
    BY <1>f, <1>t DEF Goto, TypeOK
  <2>2. \A q \in Requests \ {r} : seen'[q] = seen[q]
    BY <1>t DEF Step, Serve, CheckVlan, InsertVlan, MarkVlan, ListVlan, RemoveVlan, ResolveVlans,
       BindVlans, create_subnet, delete_subnet, CreateObject, DeleteObject, ListDevice,
       RemoveDevice, Crash, locals, TypeOK
  <2> QED
    BY <2>1, <2>2
<1>2. ASSUME pc'[r] = "checked", want[r].op = "create_vlan", want[r].vpc # Null
      PROVE  /\ seen'[r] # {}
             /\ seen'[r] \subseteq { o \in OfKind("vpc") : VpcName[o] = want[r].vpc }
  <2>1. CheckVlan(r)
    BY <1>2, <1>t DEF Step, Serve, InsertVlan, MarkVlan, ListVlan, RemoveVlan, ResolveVlans,
       BindVlans, create_subnet, delete_subnet, CreateObject, DeleteObject, ListDevice,
       RemoveDevice, Crash, Goto, TypeOK
  <2>2. PICK o \in VpcsNamed(want[r].vpc) : seen' = [seen EXCEPT ![r] = {o}]
    BY <1>2, <1>t, <2>1 DEF CheckVlan, Goto, TypeOK
  <2> QED
    BY <1>t, <2>2 DEF VpcsNamed, TypeOK
<1> QED
  BY <1>f, <1>1, <1>2 DEF TypeInv, SeenInv, Is

LEMMA NextType == TypeInv /\ [Next]_vars => TypeInv'
<1> SUFFICES ASSUME TypeInv, [Next]_vars PROVE TypeInv'
  OBVIOUS
<1>t. TypeOK
  BY DEF TypeInv
<1>1. CASE UNCHANGED vars
  BY <1>1 DEF vars, tables, locals, TypeInv, TypeOK, SeenInv, Is
<1>2. ASSUME NEW r \in Requests, Step(r) PROVE TypeInv'
  <2>1. PICK l \in Places : Goto(r, l)
    BY <1>t, <1>2, StepFrame
  <2>2. pc' \in [Requests -> Places]
    BY <1>t, <2>1, GotoType
  <2>3. want' \in [Requests -> Orders]
    BY <1>t, <1>2, StepFrame DEF TypeOK
  <2>4. met' \subseteq SUBSET Requests /\ earlier' \in [Requests -> SUBSET VlanIds]
    <3>1. CASE Arrive(r)
      BY <1>t, <3>1, ArriveType
    <3>2. CASE UNCHANGED <<met, earlier>>
      BY <1>t, <3>2 DEF TypeOK
    <3> QED
      BY <1>t, <1>2, <3>1, <3>2, StepFrame
  <2>5. TypeOK'
    BY <1>t, <1>2, <2>2, <2>3, <2>4, TableType, LocalType DEF TypeOK
  <2> QED
    BY <1>2, <2>5, SeenKept DEF TypeInv
<1> QED
  BY <1>1, <1>2 DEF Next, Step

\* The tables keep their types, whatever races: in particular a vlan made for a
\* VPC by create_vlan always names one of the VPCs that were found for it.
THEOREM TypeCorrect == Spec => []TypeOK
<1>1. TypeInv => TypeOK
  BY DEF TypeInv
<1> QED
  BY <1>1, InitType, NextType, PTL DEF Spec

-----------------------------------------------------------------------------
(* What tells the vlans of a bridge group apart.                           *)

\* A vlan made by a request is one of an answered create.
RowsInv == \A v \in Existing \cap Requests : pc[v] = "ok"

\* Two requests in progress have met.
MetInv ==
    \A r, q \in Requests : r # q /\ Active(r) /\ Active(q) => {r, q} \in met

\* A vlan was there when a request in progress arrived, or its maker met it.
EarlierInv ==
    \A r \in Requests : Active(r) =>
        \A v \in Existing : v \in earlier[r] \/ {v, r} \in met

\* A create past its check has met the maker of each vlan that it would have
\* found, had it been there.
CheckedInv ==
    \A r \in Requests : Is(r, "checked", "create_vlan") =>
        \A v \in Existing :
            IF want[r].vpc = Null
            THEN Clash(vlans[v], NewVlan(r)) => {v, r} \in met
            ELSE SameVpc(vlans[v], NewVlan(r)) => {v, r} \in met

DistinctInv ==
    /\ TypeInv
    /\ RowsInv /\ MetInv /\ EarlierInv /\ CheckedInv
    /\ TagsDistinguish /\ VpcHasOneVlan

\* The columns that never change.
SameKeys(a, b) == a.bg = b.bg /\ a.name = b.name /\ a.tag = b.tag /\ a.vpc = b.vpc

KeepsVlans ==
    \A v \in VlanIds :
        vlans'[v] # Null => vlans[v] # Null /\ SameKeys(vlans'[v], vlans[v])

AddsVlan(r) ==
    /\ Is(r, "checked", "create_vlan")
    /\ VlanKeysHold(NewVlan(r))
    /\ vlans' = [vlans EXCEPT ![r] = NewVlan(r)]
    /\ pc'[r] = "ok"

\* No step changes what tells vlans apart, and only an InsertVlan adds one.
LEMMA VlansMove ==
    ASSUME TypeInv, NEW r \in Requests, Step(r)
    PROVE  KeepsVlans \/ AddsVlan(r)
<1>t. TypeOK
  BY DEF TypeInv
<1>1. CASE UNCHANGED vlans
  BY <1>1 DEF KeepsVlans, SameKeys
<1>2. CASE InsertVlan(r)
  BY <1>1, <1>2, <1>t DEF InsertVlan, AddsVlan, Goto, TypeOK, Is
<1>3. CASE MarkVlan(r)
  <2> DEFINE v == want[r].vlan
             marked == [vlans[v] EXCEPT !.status = "PENDING_DELETE"]
  <2>1. CASE v \in Existing
    <3>1. vlans[v] \in VlanRow /\ v \in VlanIds /\ vlans[v] # Null
      BY <1>t, <2>1 DEF TypeOK, Existing
    <3>2. SameKeys(marked, vlans[v])
      BY <3>1, MarkedRow DEF SameKeys
    <3>3. vlans' = [vlans EXCEPT ![v] = marked]
      BY <1>3, <2>1 DEF MarkVlan
    <3> HIDE DEF marked
    <3> QED
      BY <1>t, <3>1, <3>2, <3>3 DEF KeepsVlans, SameKeys, TypeOK
  <2>2. CASE v \notin Existing
    BY <1>1, <1>3, <2>2 DEF MarkVlan
  <2> QED
    BY <2>1, <2>2
<1>4. CASE RemoveVlan(r)
  <2>1. CASE vlans' = [vlans EXCEPT ![want[r].vlan] = Null]
    BY <1>t, <2>1 DEF KeepsVlans, SameKeys, TypeOK
  <2> QED
    BY <1>1, <1>4, <2>1 DEF RemoveVlan
<1> QED
  BY <1>1, <1>2, <1>3, <1>4
  DEF Step, Serve, tables, CheckVlan, ListVlan, ResolveVlans, BindVlans, create_subnet,
      delete_subnet, CreateObject, DeleteObject, ListDevice, RemoveDevice, Crash

\* A step of r leaves the other requests where they are, and forgets nothing.
LEMMA Frame ==
    ASSUME TypeInv, NEW r \in Requests, Step(r)
    PROVE  /\ \A q \in Requests \ {r} : /\ pc'[q] = pc[q] /\ seen'[q] = seen[q]
                                       /\ earlier'[q] = earlier[q]
           /\ met \subseteq met'
           /\ pc[r] = "arrive" \/ Active(r)
           /\ Active(r) => UNCHANGED <<met, earlier>>
           /\ pc[r] = "arrive" => Arrive(r)
<1>t. TypeOK
  BY DEF TypeInv
<1>1. /\ \E l \in Places : Goto(r, l)
      /\ \/ pc[r] = "arrive" /\ Arrive(r)
         \/ Active(r) /\ UNCHANGED <<met, earlier>>
  BY <1>t, StepFrame
<1>2. \A q \in Requests \ {r} : seen'[q] = seen[q]
  BY <1>t DEF Step, Serve, CheckVlan, InsertVlan, MarkVlan, ListVlan, RemoveVlan, ResolveVlans,
     BindVlans, create_subnet, delete_subnet, CreateObject, DeleteObject, ListDevice,
     RemoveDevice, Crash, locals, TypeOK
<1>3. \A q \in Requests \ {r} : pc'[q] = pc[q]
  BY <1>t, <1>1 DEF Goto, TypeOK
<1>4. /\ \A q \in Requests \ {r} : earlier'[q] = earlier[q]
      /\ met \subseteq met'
  BY <1>t, <1>1 DEF Arrive, TypeOK
<1> QED
  BY <1>1, <1>2, <1>3, <1>4 DEF Active, Answered

\* The vlans there are after a step: some of those before, with their keys, and
\* at most the new one.
LEMMA ExistingMove ==
    ASSUME TypeInv, RowsInv, NEW r \in Requests, Step(r), NEW v \in Existing'
    PROVE  \/ v \in Existing /\ v # r /\ SameKeys(vlans'[v], vlans[v])
           \/ v = r /\ AddsVlan(r) /\ vlans'[r] = NewVlan(r)
<1>t. TypeOK
  BY DEF TypeInv
<1>1. v \in VlanIds /\ vlans'[v] # Null
  BY DEF Existing
<1>2. r \notin Existing
  BY Frame DEF RowsInv, Active, Answered
<1>3. r \in VlanIds
  BY DEF VlanIds
<1>4. CASE KeepsVlans
  BY <1>1, <1>2, <1>4 DEF KeepsVlans, Existing
<1>5. CASE AddsVlan(r)
  <2>1. vlans' = [vlans EXCEPT ![r] = NewVlan(r)]
    BY <1>5 DEF AddsVlan
  <2>2. CASE v = r
    BY <1>t, <1>3, <1>5, <2>1, <2>2 DEF TypeOK
  <2>3. CASE v # r
    BY <1>t, <1>1, <2>1, <2>3 DEF TypeOK, Existing, SameKeys
  <2> QED
    BY <2>2, <2>3
<1> QED
  BY <1>4, <1>5, VlansMove

LEMMA InitDistinct == Init => DistinctInv
<1> SUFFICES ASSUME Init PROVE DistinctInv
  OBVIOUS
<1>1. TypeInv
  BY InitType
<1>2. \A r \in Requests : ~Active(r) /\ ~Is(r, "checked", "create_vlan")
  BY DEF Init, Active, Is
<1>3. \A v \in Existing : v \in Seeds /\ vlans[v] = SeedVlan[v]
  BY DEF Init, Existing
<1>4. TagsDistinguish /\ VpcHasOneVlan
  BY <1>3, SeedAssumption DEF TagsDistinguish, VpcHasOneVlan
<1>5. RowsInv
  BY <1>3, SeedAssumption DEF RowsInv
<1> QED
  BY <1>1, <1>2, <1>4, <1>5 DEF DistinctInv, MetInv, EarlierInv, CheckedInv

\* The four parts the distinctness rests on, one lemma each.
LEMMA RowsKept ==
    ASSUME DistinctInv, NEW r \in Requests, Step(r)
    PROVE  RowsInv'
<1> SUFFICES ASSUME NEW v \in Existing' \cap Requests PROVE pc'[v] = "ok"
  BY DEF RowsInv
<1>1. CASE v \in Existing /\ v # r
  BY <1>1, Frame DEF DistinctInv, RowsInv
<1>2. CASE v = r /\ AddsVlan(r)
  BY <1>2 DEF AddsVlan
<1> QED
  BY <1>1, <1>2, ExistingMove DEF DistinctInv

LEMMA MetKept ==
    ASSUME DistinctInv, NEW r \in Requests, Step(r)
    PROVE  MetInv'
<1> SUFFICES ASSUME NEW p \in Requests, NEW q \in Requests, p # q, Active(p)', Active(q)'
             PROVE  {p, q} \in met'
  BY DEF MetInv
<1>t. TypeInv
  BY DEF DistinctInv
<1>1. \A o \in Requests \ {r} : Active(o)' => Active(o)
  BY <1>t, Frame DEF Active
<1>2. ASSUME NEW o \in Requests \ {r}, Active(o) PROVE {r, o} \in met'
  <2>1. CASE pc[r] = "arrive"
    <3>1. met' = met \cup { {r, s} : s \in { s \in Requests : Active(s) } }
      BY <1>t, <2>1, Frame DEF Arrive
    <3> QED
      BY <1>2, <3>1
  <2>2. CASE Active(r)
    BY <1>t, <1>2, <2>2, Frame DEF DistinctInv, MetInv
  <2> QED
    BY <1>t, <2>1, <2>2, Frame
<1>3. CASE p # r /\ q # r
  BY <1>t, <1>1, <1>3, Frame DEF DistinctInv, MetInv
<1>4. CASE p = r
  BY <1>1, <1>2, <1>4
<1>5. CASE q = r
  <2>1. {q, p} = {p, q}
    OBVIOUS
  <2> QED
    BY <1>1, <1>2, <1>5, <2>1
<1> QED
  BY <1>3, <1>4, <1>5

LEMMA EarlierKept ==
    ASSUME DistinctInv, NEW r \in Requests, Step(r)
    PROVE  EarlierInv'
<1> SUFFICES ASSUME NEW q \in Requests, Active(q)', NEW v \in Existing'
             PROVE  v \in earlier'[q] \/ {v, q} \in met'
  BY DEF EarlierInv
<1>t. TypeInv /\ TypeOK
  BY DEF DistinctInv, TypeInv
<1>1. CASE v = r /\ AddsVlan(r)
  <2>1. q # r
    BY <1>1 DEF AddsVlan, Active, Answered
  <2>2. Active(r) /\ Active(q)
    BY <1>t, <1>1, <2>1, Frame DEF AddsVlan, Is, Active, Answered
  <2> QED
    BY <1>t, <1>1, <2>1, <2>2, Frame DEF DistinctInv, MetInv
<1>2. CASE v \in Existing
  <2>1. CASE q # r
    BY <1>t, <1>2, <2>1, Frame DEF DistinctInv, EarlierInv, Active
  <2>2. CASE q = r /\ Active(r)
    BY <1>t, <1>2, <2>2, Frame DEF DistinctInv, EarlierInv
  <2>3. CASE q = r /\ pc[r] = "arrive"
    <3>1. earlier'[r] = Existing
      BY <1>t, <2>3, Frame DEF Arrive, TypeOK
    <3> QED
      BY <1>2, <2>3, <3>1
  <2> QED
    BY <1>t, <2>1, <2>2, <2>3, Frame
<1> QED
  BY <1>t, <1>1, <1>2, ExistingMove DEF DistinctInv

\* What a create that passes its check has ascertained.
LEMMA CheckPasses ==
    ASSUME TypeInv, NEW r \in Requests, Step(r), Is(r, "checked", "create_vlan")',
           NEW v \in Existing'
    PROVE  IF want'[r].vpc = Null
           THEN ~Clash(vlans'[v], NewVlan(r)')
           ELSE ~SameVpc(vlans'[v], NewVlan(r)')
<1>t. TypeOK
  BY DEF TypeInv
<1>1. want' = want
  BY <1>t, StepFrame
<1>2. CheckVlan(r)
  BY <1>t, <1>1 DEF Step, Serve, InsertVlan, MarkVlan, ListVlan, RemoveVlan, ResolveVlans,
     BindVlans, create_subnet, delete_subnet, CreateObject, DeleteObject, ListDevice,
     RemoveDevice, Crash, Goto, Is, TypeOK
<1>3. vlans' = vlans /\ v \in Existing
  BY <1>2 DEF CheckVlan, tables, Existing
<1>4. Found(r) = {} /\ (want[r].vpc = Null \/ \E o \in VpcsNamed(want[r].vpc) :
                                              seen' = [seen EXCEPT ![r] = {o}])
  BY <1>t, <1>1, <1>2 DEF CheckVlan, Goto, Is, TypeOK
<1>5. CASE want[r].vpc = Null
  <2>1. /\ NewVlan(r)'.bg = want[r].bg
        /\ NewVlan(r)'.name = want[r].name
        /\ NewVlan(r)'.tag = want[r].tag
    BY <1>1 DEF NewVlan
  <2>2. v \notin FoundByNameOrTag(r)
    BY <1>4, <1>5 DEF Found
  <2> QED
    BY <1>1, <1>3, <1>5, <2>1, <2>2 DEF FoundByNameOrTag, Clash, OnGroup
<1>6. CASE want[r].vpc # Null
  <2>1. PICK o \in VpcsNamed(want[r].vpc) : seen' = [seen EXCEPT ![r] = {o}]
    BY <1>4, <1>6
  <2>2. seen'[r] = {o} /\ VpcName[o] = want[r].vpc
    BY <1>t, <2>1 DEF TypeOK, VpcsNamed
  <2>3. NewVlan(r)'.bg = want[r].bg /\ NewVlan(r)'.vpc = o
    BY <1>1, <1>6, <2>2 DEF NewVlan
  <2>4. v \notin FoundByVpc(r)
    BY <1>4, <1>6 DEF Found
  <2> QED
    BY <1>1, <1>3, <1>6, <2>2, <2>3, <2>4 DEF FoundByVpc, SameVpc, OnGroup
<1> QED
  BY <1>5, <1>6

LEMMA CheckedKept ==
    ASSUME DistinctInv, NEW r \in Requests, Step(r)
    PROVE  CheckedInv'
<1> SUFFICES ASSUME NEW q \in Requests, Is(q, "checked", "create_vlan")', NEW v \in Existing'
             PROVE  IF want'[q].vpc = Null
                    THEN Clash(vlans'[v], NewVlan(q)') => {v, q} \in met'
                    ELSE SameVpc(vlans'[v], NewVlan(q)') => {v, q} \in met'
  BY DEF CheckedInv
<1>t. TypeInv /\ TypeOK
  BY DEF DistinctInv, TypeInv
<1>1. CASE q = r
  BY <1>t, <1>1, CheckPasses
<1>2. CASE q # r
  <2>1. want' = want
    BY <1>t, StepFrame
  <2>2. Is(q, "checked", "create_vlan") /\ Active(q) /\ NewVlan(q)' = NewVlan(q)
    <3>1. pc'[q] = pc[q] /\ seen'[q] = seen[q]
      BY <1>t, <1>2, Frame
    <3>2. Is(q, "checked", "create_vlan") /\ Active(q)
      BY <2>1, <3>1 DEF Is, Active, Answered
    <3>3. NewVlan(q)' = NewVlan(q)
      BY <2>1, <3>1 DEF NewVlan
    <3> QED
      BY <3>2, <3>3
  <2>3. CASE v = r /\ AddsVlan(r)
    <3>1. Active(r)
      BY <2>3 DEF AddsVlan, Is, Active, Answered
    <3> QED
      BY <1>t, <1>2, <2>2, <2>3, <3>1, Frame DEF DistinctInv, MetInv
  <2>4. CASE v \in Existing /\ SameKeys(vlans'[v], vlans[v])
    <3>1. IF want[q].vpc = Null
          THEN Clash(vlans[v], NewVlan(q)) => {v, q} \in met
          ELSE SameVpc(vlans[v], NewVlan(q)) => {v, q} \in met
      BY <2>2, <2>4 DEF DistinctInv, CheckedInv
    <3>2. met \subseteq met'
      BY <1>t, Frame
    <3> QED
      BY <2>1, <2>2, <2>4, <3>1, <3>2 DEF SameKeys, Clash, SameVpc
  <2> QED
    BY <1>t, <2>3, <2>4, ExistingMove DEF DistinctInv
<1> QED
  BY <1>1, <1>2

\* The vlan a step adds, against one that was there.
LEMMA AddedVlan ==
    ASSUME DistinctInv, NEW r \in Requests, Step(r), AddsVlan(r), NEW v \in Existing
    PROVE  /\ Clash(vlans[v], NewVlan(r)) =>
                \/ {v, r} \in met'
                \/ v \in earlier'[r] /\ NewVlan(r).vpc # Null
           /\ SameVpc(vlans[v], NewVlan(r)) =>
                {v, r} \in met' /\ vlans[v].vpc # NewVlan(r).vpc
<1>t. TypeInv
  BY DEF DistinctInv
<1>1. Is(r, "checked", "create_vlan") /\ Active(r)
  BY DEF AddsVlan, Is, Active, Answered
<1>2. met' = met /\ earlier' = earlier
  BY <1>t, <1>1, Frame
<1>3. v \in earlier[r] \/ {v, r} \in met
  BY <1>1 DEF DistinctInv, EarlierInv
<1>4. IF want[r].vpc = Null
      THEN Clash(vlans[v], NewVlan(r)) => {v, r} \in met
      ELSE SameVpc(vlans[v], NewVlan(r)) => {v, r} \in met
  BY <1>1 DEF DistinctInv, CheckedInv
<1>5. (want[r].vpc = Null) <=> (NewVlan(r).vpc = Null)
  BY <1>t, <1>1, NewVlanType
<1>6. SameVpc(vlans[v], NewVlan(r)) =>
        vlans[v].bg = NewVlan(r).bg /\ NewVlan(r).vpc # Null
  BY DEF SameVpc
<1>7. SameVpc(vlans[v], NewVlan(r)) => vlans[v].vpc # NewVlan(r).vpc
  BY <1>6 DEF AddsVlan, VlanKeysHold, OnGroup
<1>8. ASSUME Clash(vlans[v], NewVlan(r))
      PROVE  \/ {v, r} \in met'
             \/ v \in earlier'[r] /\ NewVlan(r).vpc # Null
  <2>1. CASE want[r].vpc = Null
    BY <1>2, <1>4, <1>8, <2>1
  <2>2. CASE want[r].vpc # Null
    BY <1>2, <1>3, <1>5, <2>2
  <2> QED
    BY <2>1, <2>2
<1>9. ASSUME SameVpc(vlans[v], NewVlan(r))
      PROVE  {v, r} \in met' /\ vlans[v].vpc # NewVlan(r).vpc
  <2>1. want[r].vpc # Null
    BY <1>5, <1>6, <1>9
  <2> QED
    BY <1>2, <1>4, <1>7, <1>9, <2>1
<1> QED
  BY <1>8, <1>9

LEMMA TagsKept ==
    ASSUME DistinctInv, NEW r \in Requests, Step(r)
    PROVE  TagsDistinguish'
<1> SUFFICES ASSUME NEW v \in Existing', NEW u \in Existing', v # u, Clash(vlans'[v], vlans'[u])
             PROVE  \/ {v, u} \in met'
                    \/ u \in Requests /\ v \in earlier'[u] /\ vlans'[u].vpc # Null
                    \/ v \in Requests /\ u \in earlier'[v] /\ vlans'[v].vpc # Null
  BY DEF TagsDistinguish
<1>t. TypeInv /\ RowsInv
  BY DEF DistinctInv
<1> DEFINE Old(x) == x \in Existing /\ x # r /\ SameKeys(vlans'[x], vlans[x])
           New(x) == x = r /\ AddsVlan(r) /\ vlans'[r] = NewVlan(r)
<1>1. (Old(v) \/ New(v)) /\ (Old(u) \/ New(u))
  BY <1>t, ExistingMove
<1>2. CASE Old(v) /\ Old(u)
  <2>1. Clash(vlans[v], vlans[u])
    BY <1>2 DEF SameKeys, Clash
  <2>2. \/ {v, u} \in met
        \/ u \in Requests /\ v \in earlier[u] /\ vlans[u].vpc # Null
        \/ v \in Requests /\ u \in earlier[v] /\ vlans[v].vpc # Null
    BY <1>2, <2>1 DEF DistinctInv, TagsDistinguish
  <2> QED
    BY <1>t, <1>2, <2>2, Frame DEF SameKeys
<1>3. CASE Old(v) /\ New(u)
  <2>1. Clash(vlans[v], NewVlan(r))
    BY <1>3 DEF SameKeys, Clash
  <2> QED
    BY <1>3, <2>1, AddedVlan
<1>4. CASE New(v) /\ Old(u)
  <2>1. Clash(vlans[u], NewVlan(r))
    BY <1>4 DEF SameKeys, Clash
  <2>2. {u, v} = {v, u}
    OBVIOUS
  <2> QED
    BY <1>4, <2>1, <2>2, AddedVlan
<1> QED
  BY <1>1, <1>2, <1>3, <1>4

LEMMA VpcKept ==
    ASSUME DistinctInv, NEW r \in Requests, Step(r)
    PROVE  VpcHasOneVlan'
<1> SUFFICES ASSUME NEW v \in Existing', NEW u \in Existing', v # u, SameVpc(vlans'[v], vlans'[u])
             PROVE  {v, u} \in met' /\ vlans'[v].vpc # vlans'[u].vpc
  BY DEF VpcHasOneVlan
<1>t. TypeInv /\ RowsInv
  BY DEF DistinctInv
<1> DEFINE Old(x) == x \in Existing /\ x # r /\ SameKeys(vlans'[x], vlans[x])
           New(x) == x = r /\ AddsVlan(r) /\ vlans'[r] = NewVlan(r)
<1>1. (Old(v) \/ New(v)) /\ (Old(u) \/ New(u))
  BY <1>t, ExistingMove
<1>2. CASE Old(v) /\ Old(u)
  <2>1. SameVpc(vlans[v], vlans[u])
    BY <1>2 DEF SameKeys, SameVpc
  <2>2. {v, u} \in met /\ vlans[v].vpc # vlans[u].vpc
    BY <1>2, <2>1 DEF DistinctInv, VpcHasOneVlan
  <2> QED
    BY <1>t, <1>2, <2>2, Frame DEF SameKeys
<1>3. CASE Old(v) /\ New(u)
  <2>1. SameVpc(vlans[v], NewVlan(r))
    BY <1>3 DEF SameKeys, SameVpc
  <2>2. {v, r} \in met' /\ vlans[v].vpc # NewVlan(r).vpc
    BY <1>3, <2>1, AddedVlan
  <2>3. vlans'[v].vpc = vlans[v].vpc /\ vlans'[u].vpc = NewVlan(r).vpc
    BY <1>3 DEF SameKeys
  <2> QED
    BY <1>3, <2>2, <2>3
<1>4. CASE New(v) /\ Old(u)
  <2>1. SameVpc(vlans[u], NewVlan(r))
    BY <1>4 DEF SameKeys, SameVpc
  <2>2. {u, r} \in met' /\ vlans[u].vpc # NewVlan(r).vpc
    BY <1>4, <2>1, AddedVlan
  <2>3. vlans'[u].vpc = vlans[u].vpc /\ vlans'[v].vpc = NewVlan(r).vpc
    BY <1>4 DEF SameKeys
  <2>4. {u, v} = {v, u}
    OBVIOUS
  <2> QED
    BY <1>4, <2>2, <2>3, <2>4
<1> QED
  BY <1>1, <1>2, <1>3, <1>4

LEMMA NextDistinct == DistinctInv /\ [Next]_vars => DistinctInv'
<1> SUFFICES ASSUME DistinctInv, [Next]_vars PROVE DistinctInv'
  OBVIOUS
<1>1. TypeInv'
  BY NextType DEF DistinctInv
<1>2. CASE UNCHANGED vars
  <2>1. /\ UNCHANGED <<vlans, want, pc, seen, met, earlier>>
        /\ Existing' = Existing
    BY <1>2 DEF vars, tables, locals, Existing
  <2> QED
    BY <1>1, <2>1 DEF DistinctInv, RowsInv, MetInv, EarlierInv, CheckedInv, TagsDistinguish,
       VpcHasOneVlan, Active, Is, NewVlan
<1>3. ASSUME NEW r \in Requests, Step(r) PROVE DistinctInv'
  BY <1>1, <1>3, RowsKept, MetKept, EarlierKept, CheckedKept, TagsKept, VpcKept DEF DistinctInv
<1> QED
  BY <1>2, <1>3 DEF Next, Step

\* create_vlan's check is all that keeps tags and names distinct on a bridge
\* group, and it keeps them so except between creates served at the same time
\* and for VPCs, whatever else is created and deleted meanwhile.
THEOREM ClashExplained == Spec => []TagsDistinguish
<1>1. DistinctInv => TagsDistinguish
  BY DEF DistinctInv
<1> QED
  BY <1>1, InitDistinct, NextDistinct, PTL DEF Spec

\* A bridge group gets a second vlan of VPCs with one name only from creates
\* served at the same time that picked different rows of that name.
THEOREM VpcVlanUnique == Spec => []VpcHasOneVlan
<1>1. DistinctInv => VpcHasOneVlan
  BY DEF DistinctInv
<1> QED
  BY <1>1, InitDistinct, NextDistinct, PTL DEF Spec

-----------------------------------------------------------------------------
(* What the rows refer to.                                                 *)

\* The parts of References.
ObjectsResolve == \A o \in Objects : Present(o) => \A x \in RefersTo[o] : Present(x)

VlanResolves(row) == Present(row.bg) /\ (row.vpc # Null => Present(row.vpc))
VlansResolve == \A v \in Existing : VlanResolves(vlans[v])

SubnetsResolve == subnets \subseteq Existing

\* A vlan that was not named by its id is on a bridge group of the port.
OnGroupOf(b) == b.by = "id" \/ vlans[b.vlan].bg \in GroupsOf(b.port)

BindingResolves(b) == Present(b.port) /\ b.vlan \in Existing /\ OnGroupOf(b)
BindingsResolve == \A b \in bindings : BindingResolves(b)

\* Two native vlans of a port are of one payload that has two.
OnePayload(b, c) ==
    b.port = c.port /\ b.native /\ c.native /\ b # c =>
        /\ b.maker = c.maker
        /\ \E ref, other \in want[b.maker].refs : ref # other /\ ref.native /\ other.native

\* The associations an update is about to make.
Made(r, meaning) ==
    { [port |-> want[r].port, vlan |-> meaning[ref], native |-> ref.native,
       by |-> ref.by, maker |-> r] : ref \in want[r].refs }

\* Its vlans were rows when it looked them up, so they are not made again.
ResolvedOK(r) ==
    /\ \E meaning \in [want[r].refs -> VlanIds] : listed[r] = Made(r, meaning)
    /\ \A b \in listed[r] : /\ b.vlan \in Requests => pc[b.vlan] = "ok"
                            /\ b.vlan \in Existing => OnGroupOf(b)

\* What requests hold between their transactions.
LoadedInv ==
    \A r \in Requests :
        /\ Is(r, "resolved", "update_port") => ResolvedOK(r)
        /\ Is(r, "listed", "delete") =>
            KindOf[want[r].object] = "device" /\ seen[r] \subseteq OfKind("port")

KeysInv ==
    /\ ObjectsResolve /\ VlansResolve /\ SubnetsResolve /\ BindingsResolve
    /\ \A b, c \in bindings : OnePayload(b, c)
    /\ LoadedInv

-----------------------------------------------------------------------------
(* What a step takes away, and what it adds.                               *)

\* A new object refers to objects that are there.
LEMMA NewObject ==
    ASSUME TypeInv, NEW r \in Requests, Step(r), NEW o \in Objects, Present(o)', ~Present(o)
    PROVE  \A x \in RefersTo[o] : Present(x)'
<1>t. TypeOK
  BY DEF TypeInv
<1>1. CASE CreateObject(r)
  <2>1. o = want[r].object /\ (\A x \in RefersTo[o] : Present(x))
        /\ objects' = [objects EXCEPT ![o] = "present"]
    BY <1>1, <1>t DEF CreateObject, Present, TypeOK
  <2>2. RefersTo[o] \subseteq Objects
    BY ObjectAssumption
  <2> QED
    BY <1>t, <2>1, <2>2 DEF Present, TypeOK
<1>2. CASE DeleteObject(r) \/ RemoveDevice(r)
  BY <1>2, <1>t DEF DeleteObject, RemoveDevice, Present, TypeOK
<1>3. CASE UNCHANGED objects
  BY <1>3 DEF Present
<1> QED
  BY <1>1, <1>2, <1>3
  DEF Step, Serve, tables, CheckVlan, InsertVlan, MarkVlan, ListVlan, RemoveVlan, ResolveVlans,
      BindVlans, create_subnet, delete_subnet, ListDevice, Crash

\* Only the two deletions take an object away.
LEMMA GoneObject ==
    ASSUME TypeInv, NEW r \in Requests, Step(r), NEW x \in Objects, Present(x), ~Present(x)'
    PROVE  /\ \/ DeleteObject(r) /\ x = want[r].object /\ ~InUse(x) /\ UNCHANGED bindings
              \/ /\ RemoveDevice(r)
                 /\ x \in {want[r].object} \cup seen[r]
                 /\ PortsOf(want[r].object) \subseteq seen[r]
                 /\ BindingsOf(seen[r]) \subseteq listed[r]
                 /\ bindings' = bindings \ listed[r]
                 /\ \A o \in Objects : Present(o)' => o \notin {want[r].object} \cup seen[r]
           /\ \A o \in Objects : Present(o)' => Present(o)
           /\ UNCHANGED vlans
<1>t. TypeOK
  BY DEF TypeInv
<1>1. CASE CreateObject(r)
  BY <1>1, <1>t DEF CreateObject, Present, TypeOK
<1>2. CASE DeleteObject(r)
  <2>1. /\ Present(want[r].object) /\ ~InUse(want[r].object)
        /\ objects' = [objects EXCEPT ![want[r].object] = "gone"]
    BY <1>2 DEF DeleteObject, Present
  <2> QED
    BY <1>2, <1>t, <2>1 DEF DeleteObject, Present, TypeOK
<1>3. CASE RemoveDevice(r)
  BY <1>3, <1>t DEF RemoveDevice, Present, TypeOK
<1>4. CASE UNCHANGED objects
  BY <1>4 DEF Present
<1> QED
  BY <1>1, <1>2, <1>3, <1>4
  DEF Step, Serve, tables, CheckVlan, InsertVlan, MarkVlan, ListVlan, RemoveVlan, ResolveVlans,
      BindVlans, create_subnet, delete_subnet, ListDevice, Crash

\* Nothing that is left refers to an object that went.
LEMMA GoneUnused ==
    ASSUME TypeInv, KeysInv, NEW r \in Requests, Step(r),
           NEW x \in Objects, Present(x), ~Present(x)'
    PROVE  /\ \A o \in Objects : Present(o)' => x \notin RefersTo[o]
           /\ \A v \in Existing' : vlans'[v].bg # x /\ vlans'[v].vpc # x
           /\ \A b \in bindings' : b.port # x
<1>t. TypeOK
  BY DEF TypeInv
<1>g. /\ \A o \in Objects : Present(o)' => Present(o)
      /\ UNCHANGED vlans /\ Existing' = Existing
  BY GoneObject DEF Existing
<1>b. \A b \in bindings : b.port \in OfKind("port")
  BY <1>t DEF TypeOK, Binding
<1>v. \A v \in Existing : vlans[v].bg \in OfKind("bridgegroup") /\ vlans[v].vpc \in OfKind("vpc") \cup {Null}
  BY <1>t DEF TypeOK, Existing, VlanRow
<1>1. CASE DeleteObject(r) /\ x = want[r].object /\ ~InUse(x) /\ UNCHANGED bindings
  <2>1. /\ Referring(x) = {}
        /\ \A v \in Existing : x # vlans[v].bg /\ x # vlans[v].vpc
        /\ BindingsOf({x}) = {}
    BY <1>1 DEF InUse
  <2>2. \A o \in Objects : Present(o) => x \notin RefersTo[o]
    BY <2>1 DEF Referring
  <2>3. \A b \in bindings : b.port # x
    BY <2>1 DEF BindingsOf
  <2> QED
    BY <1>1, <1>g, <2>1, <2>2, <2>3
<1>2. CASE /\ RemoveDevice(r)
           /\ x \in {want[r].object} \cup seen[r]
           /\ PortsOf(want[r].object) \subseteq seen[r]
           /\ BindingsOf(seen[r]) \subseteq listed[r]
           /\ bindings' = bindings \ listed[r]
           /\ \A o \in Objects : Present(o)' => o \notin {want[r].object} \cup seen[r]
  <2> DEFINE d == want[r].object
  <2>1. KindOf[d] = "device" /\ seen[r] \subseteq OfKind("port")
    BY <1>2 DEF KeysInv, LoadedInv, RemoveDevice
  <2>2. (KindOf[x] = "device" /\ x = d) \/ (KindOf[x] = "port" /\ x \in seen[r])
    BY <1>2, <2>1 DEF OfKind
  <2>3. ASSUME NEW o \in Objects, Present(o)', x \in RefersTo[o] PROVE FALSE
    <3>1. x = d /\ KindOf[o] = "port"
      BY <2>2, <2>3, KeyAssumption
    <3>2. o \in PortsOf(d)
      BY <1>g, <2>3, <3>1 DEF PortsOf, Referring, OfKind
    <3> QED
      BY <1>2, <2>3, <3>2
  <2>4. \A v \in Existing' : vlans'[v].bg # x /\ vlans'[v].vpc # x
    <3>1. x \notin OfKind("bridgegroup") /\ x \notin OfKind("vpc") /\ x # Null
      BY <2>2, ObjectAssumption DEF OfKind
    <3> QED
      BY <1>g, <1>v, <3>1
  <2>5. \A b \in bindings' : b.port # x
    <3>1. CASE x = d /\ KindOf[x] = "device"
      BY <1>2, <1>b, <3>1 DEF OfKind
    <3>2. CASE x \in seen[r]
      BY <1>2, <3>2 DEF BindingsOf
    <3> QED
      BY <2>2, <3>1, <3>2
  <2> QED
    BY <2>3, <2>4, <2>5
<1> QED
  BY <1>1, <1>2, GoneObject

\* A vlan is deleted with its associations, and not while it has a subnet.
LEMMA GoneVlan ==
    ASSUME TypeInv, NEW r \in Requests, Step(r), NEW v \in Existing, v \notin Existing'
    PROVE  v \notin subnets' /\ \A b \in bindings' : b.vlan # v
<1>t. TypeOK
  BY DEF TypeInv
<1>0. v \in VlanIds /\ vlans[v] # Null /\ vlans'[v] = Null
  BY DEF Existing
<1>1. CASE InsertVlan(r)
  <2>1. NewVlan(r) # Null
    BY <1>1, NewVlanType, ObjectAssumption DEF InsertVlan
  <2> QED
    BY <1>0, <1>1, <1>t, <2>1 DEF InsertVlan, TypeOK
<1>2. CASE MarkVlan(r)
  <2>1. CASE want[r].vlan \in Existing
    <3> DEFINE u == want[r].vlan
               marked == [vlans[u] EXCEPT !.status = "PENDING_DELETE"]
    <3>1. vlans[u] \in VlanRow
      BY <1>t, <2>1 DEF TypeOK, Existing
    <3>2. marked # Null
      BY <3>1, MarkedRow, ObjectAssumption
    <3>3. vlans' = [vlans EXCEPT ![u] = marked]
      BY <1>2, <2>1 DEF MarkVlan
    <3> HIDE DEF marked
    <3> QED
      BY <1>0, <1>t, <3>2, <3>3 DEF TypeOK
  <2>2. CASE want[r].vlan \notin Existing
    BY <1>0, <1>2, <2>2 DEF MarkVlan
  <2> QED
    BY <2>1, <2>2
<1>3. CASE RemoveVlan(r)
  <2>1. /\ v = want[r].vlan
        /\ v \notin subnets /\ (\A b \in bindings : b.vlan = v => b \in listed[r])
        /\ bindings' = bindings \ listed[r] /\ UNCHANGED subnets
    BY <1>0, <1>3, <1>t DEF RemoveVlan, TypeOK
  <2> QED
    BY <2>1
<1>4. CASE UNCHANGED vlans
  BY <1>0, <1>4
<1> QED
  BY <1>1, <1>2, <1>3, <1>4
  DEF Step, Serve, tables, CheckVlan, ListVlan, ResolveVlans, BindVlans, create_subnet,
      delete_subnet, CreateObject, DeleteObject, ListDevice, RemoveDevice, Crash

\* Where the associations after a step come from.
LEMMA BindingsMove ==
    ASSUME NEW r \in Requests, Step(r)
    PROVE  \/ bindings' \subseteq bindings
           \/ /\ Is(r, "resolved", "update_port")
              /\ Present(want[r].port)
              /\ \A b \in listed[r] : b.vlan \in Existing
              /\ bindings' = (bindings \ BindingsOf({want[r].port})) \cup listed[r]
              /\ UNCHANGED <<objects, vlans>>
<1>1. CASE BindVlans(r)
  BY <1>1 DEF BindVlans
<1>2. CASE RemoveVlan(r) \/ RemoveDevice(r)
  BY <1>2 DEF RemoveVlan, RemoveDevice
<1>3. CASE UNCHANGED bindings
  BY <1>3
<1> QED
  BY <1>1, <1>2, <1>3
  DEF Step, Serve, tables, CheckVlan, InsertVlan, MarkVlan, ListVlan, ResolveVlans, create_subnet,
      delete_subnet, CreateObject, DeleteObject, ListDevice, Crash

LEMMA SubnetsMove ==
    ASSUME TypeInv, NEW r \in Requests, Step(r)
    PROVE  \/ subnets' \subseteq subnets
           \/ \E v \in Existing : subnets' = subnets \cup {v} /\ Existing' = Existing
<1>1. CASE create_subnet(r)
  BY <1>1 DEF create_subnet, Existing
<1>2. CASE delete_subnet(r)
  BY <1>2 DEF delete_subnet
<1>3. CASE UNCHANGED subnets
  BY <1>3
<1> QED
  BY <1>1, <1>2, <1>3
  DEF Step, Serve, tables, CheckVlan, InsertVlan, MarkVlan, ListVlan, RemoveVlan, ResolveVlans,
      BindVlans, CreateObject, DeleteObject, ListDevice, RemoveDevice, Crash

\* A request that moves is not answered, so the vlan it may make is not there
\* yet; a vlan that is there before and after a step keeps its bridge group.
LEMMA VlanKept ==
    ASSUME DistinctInv, NEW r \in Requests, Step(r)
    PROVE  /\ pc[r] # "ok" /\ r \notin Existing
           /\ \A v \in Existing' : v # r => v \in Existing /\ SameKeys(vlans'[v], vlans[v])
           /\ \A q \in Requests : pc[q] = "ok" => pc'[q] = "ok"
<1>t. TypeInv /\ RowsInv
  BY DEF DistinctInv
<1>1. pc[r] # "ok"
  BY <1>t, Frame DEF Active, Answered
<1>2. \A v \in Existing' : v # r => v \in Existing /\ SameKeys(vlans'[v], vlans[v])
  BY <1>t, ExistingMove
<1> QED
  BY <1>t, <1>1, <1>2, Frame DEF RowsInv

-----------------------------------------------------------------------------
(* References.                                                             *)

LEMMA ObjectsKept ==
    ASSUME DistinctInv, KeysInv, NEW r \in Requests, Step(r)
    PROVE  ObjectsResolve'
<1> SUFFICES ASSUME NEW o \in Objects, Present(o)', NEW x \in RefersTo[o] PROVE Present(x)'
  BY DEF ObjectsResolve
<1>t. TypeInv
  BY DEF DistinctInv
<1>1. x \in Objects
  BY ObjectAssumption
<1>2. CASE Present(o)
  <2>1. Present(x)
    BY <1>2 DEF KeysInv, ObjectsResolve
  <2> QED
    BY <1>t, <1>1, <2>1, GoneUnused
<1>3. CASE ~Present(o)
  BY <1>t, <1>3, NewObject
<1> QED
  BY <1>2, <1>3

LEMMA VlansKept ==
    ASSUME DistinctInv, KeysInv, NEW r \in Requests, Step(r)
    PROVE  VlansResolve'
<1> SUFFICES ASSUME NEW v \in Existing', NEW row, row = vlans'[v]
             PROVE  Present(row.bg)' /\ (row.vpc # Null => Present(row.vpc)')
  BY DEF VlansResolve, VlanResolves, Present
<1>t. TypeInv /\ RowsInv /\ TypeOK
  BY DEF DistinctInv, TypeInv
<1>n. TypeOK'
  BY <1>t, NextType DEF TypeInv, Next, Step
<1>1. row \in VlanRow
  BY <1>n DEF TypeOK, Existing
<1>2. row.bg \in Objects /\ (row.vpc # Null => row.vpc \in Objects)
  BY <1>1 DEF VlanRow, OfKind
<1>3. Present(row.bg) /\ (row.vpc # Null => Present(row.vpc))
  <2>1. CASE v \in Existing /\ v # r /\ SameKeys(vlans'[v], vlans[v])
    BY <2>1 DEF KeysInv, VlansResolve, VlanResolves, SameKeys
  <2>2. CASE v = r /\ AddsVlan(r) /\ vlans'[r] = NewVlan(r)
    BY <2>2 DEF AddsVlan, VlanKeysHold
  <2> QED
    BY <1>t, <2>1, <2>2, ExistingMove
<1>4. ASSUME NEW x \in Objects, Present(x), x = row.bg \/ (x = row.vpc)
      PROVE  Present(x)'
  BY <1>t, <1>4, GoneUnused
<1> QED
  BY <1>2, <1>3, <1>4

LEMMA SubnetsKept ==
    ASSUME DistinctInv, KeysInv, NEW r \in Requests, Step(r)
    PROVE  SubnetsResolve'
<1>t. TypeInv
  BY DEF DistinctInv
<1>1. subnets \subseteq Existing
  BY DEF KeysInv, SubnetsResolve
<1>2. CASE subnets' \subseteq subnets
  BY <1>t, <1>1, <1>2, GoneVlan DEF SubnetsResolve
<1>3. CASE \E v \in Existing : subnets' = subnets \cup {v} /\ Existing' = Existing
  BY <1>1, <1>3 DEF SubnetsResolve
<1> QED
  BY <1>t, <1>2, <1>3, SubnetsMove

\* An association that a step leaves or makes was in order before it.
LEMMA BindingsKept ==
    ASSUME DistinctInv, KeysInv, NEW r \in Requests, Step(r)
    PROVE  BindingsResolve'
<1> SUFFICES ASSUME NEW b \in bindings' PROVE BindingResolves(b)'
  BY DEF BindingsResolve
<1>t. TypeInv /\ TypeOK
  BY DEF DistinctInv, TypeInv
<1>n. b \in Binding
  BY <1>t, TableType
<1>1. BindingResolves(b)
  <2>1. CASE b \in bindings
    BY <2>1 DEF KeysInv, BindingsResolve
  <2>2. CASE /\ Is(r, "resolved", "update_port")
             /\ Present(want[r].port)
             /\ \A c \in listed[r] : c.vlan \in Existing
             /\ b \in listed[r]
    <3>1. PICK meaning \in [want[r].refs -> VlanIds] : listed[r] = Made(r, meaning)
      BY <2>2 DEF KeysInv, LoadedInv, ResolvedOK
    <3>2. b.port = want[r].port
      BY <2>2, <3>1 DEF Made
    <3>3. OnGroupOf(b)
      BY <2>2 DEF KeysInv, LoadedInv, ResolvedOK
    <3> QED
      BY <2>2, <3>2, <3>3 DEF BindingResolves
  <2> QED
    BY <2>1, <2>2, BindingsMove
<1>2. Present(b.port)'
  <2>1. b.port \in Objects
    BY <1>n DEF Binding, OfKind
  <2> QED
    BY <1>t, <1>1, <2>1, GoneUnused DEF BindingResolves
<1>3. b.vlan \in Existing'
  BY <1>t, <1>1, GoneVlan DEF BindingResolves
<1>4. OnGroupOf(b)'
  <2>1. b.vlan # r
    BY <1>1, VlanKept DEF BindingResolves
  <2>2. vlans'[b.vlan].bg = vlans[b.vlan].bg
    BY <1>3, <2>1, VlanKept DEF SameKeys
  <2> QED
    BY <1>1, <2>2 DEF BindingResolves, OnGroupOf
<1> QED
  BY <1>2, <1>3, <1>4 DEF BindingResolves

-----------------------------------------------------------------------------
(* The native vlans of a port.                                             *)

\* Two associations made by one update come from two of its references.
LEMMA MadeByOne ==
    ASSUME NEW r \in Requests, ResolvedOK(r), NEW b \in listed[r], NEW c \in listed[r]
    PROVE  OnePayload(b, c) /\ b.port = want[r].port
<1>1. PICK meaning \in [want[r].refs -> VlanIds] : listed[r] = Made(r, meaning)
  BY DEF ResolvedOK
<1>2. PICK ref \in want[r].refs :
         b = [port |-> want[r].port, vlan |-> meaning[ref], native |-> ref.native,
              by |-> ref.by, maker |-> r]
  BY <1>1 DEF Made
<1>3. PICK other \in want[r].refs :
         c = [port |-> want[r].port, vlan |-> meaning[other], native |-> other.native,
              by |-> other.by, maker |-> r]
  BY <1>1 DEF Made
<1>4. /\ b.port = want[r].port /\ b.maker = r /\ b.native = ref.native
      /\ c.maker = r /\ c.native = other.native
  BY <1>2, <1>3
<1>5. b # c => ref # other
  BY <1>2, <1>3
<1> QED
  BY <1>4, <1>5 DEF OnePayload

LEMMA NativesKept ==
    ASSUME DistinctInv, KeysInv, NEW r \in Requests, Step(r),
           NEW b \in bindings', NEW c \in bindings'
    PROVE  OnePayload(b, c)'
<1>t. TypeOK /\ want' = want
  BY StepFrame DEF DistinctInv, TypeInv
<1>1. OnePayload(b, c)
  <2>1. CASE b \in bindings /\ c \in bindings
    BY <2>1 DEF KeysInv
  <2>2. CASE /\ Is(r, "resolved", "update_port")
             /\ bindings' = (bindings \ BindingsOf({want[r].port})) \cup listed[r]
    <3>r. ResolvedOK(r)
      BY <2>2 DEF KeysInv, LoadedInv
    <3>1. CASE b \in listed[r] /\ c \in listed[r]
      BY <3>r, <3>1, MadeByOne
    <3>2. CASE b \in listed[r] /\ c \in bindings \ BindingsOf({want[r].port})
      BY <3>r, <3>2, MadeByOne DEF OnePayload, BindingsOf
    <3>3. CASE c \in listed[r] /\ b \in bindings \ BindingsOf({want[r].port})
      BY <3>r, <3>3, MadeByOne DEF OnePayload, BindingsOf
    <3> QED
      BY <2>1, <2>2, <3>1, <3>2, <3>3
  <2> QED
    BY <2>1, <2>2, BindingsMove
<1> QED
  BY <1>t, <1>1 DEF OnePayload

-----------------------------------------------------------------------------
(* What requests hold.                                                     *)

\* A request past its first step, and what it has loaded there.
LEMMA Resolved ==
    ASSUME TypeInv, NEW r \in Requests, Step(r), pc'[r] = "resolved"
    PROVE  /\ UNCHANGED <<vlans, want>>
           /\ \E meaning \in [want[r].refs -> VlanIds] :
                /\ \A ref \in want[r].refs : meaning[ref] \in Meant(want[r].port, ref)
                /\ listed'[r] = Made(r, meaning)
<1>t. TypeOK
  BY DEF TypeInv
<1>1. ResolveVlans(r)
  BY <1>t DEF Step, Serve, CheckVlan, InsertVlan, MarkVlan, ListVlan, RemoveVlan, BindVlans,
     create_subnet, delete_subnet, CreateObject, DeleteObject, ListDevice, RemoveDevice, Crash,
     Goto, TypeOK
<1>2. PICK meaning \in [want[r].refs -> VlanIds] :
         /\ \A ref \in want[r].refs : meaning[ref] \in Meant(want[r].port, ref)
         /\ listed' = [listed EXCEPT ![r] = Made(r, meaning)]
  BY <1>1, <1>t DEF ResolveVlans, Goto, TypeOK, Made
<1> QED
  BY <1>1, <1>2, <1>t DEF ResolveVlans, tables, TypeOK

\* A vlan that a reference means is a row, of the port's bridge group unless it
\* was named by its id.
LEMMA MeantVlan ==
    ASSUME NEW p, NEW ref, ref.by \in Ways, NEW v \in Meant(p, ref)
    PROVE  v \in Existing /\ (ref.by = "id" \/ vlans[v].bg \in GroupsOf(p))
<1>1. \A u \in Reachable(p) : u \in Existing /\ vlans[u].bg \in GroupsOf(p)
  BY DEF Reachable, OnGroup
<1>2. CASE ref.by = "id"
  BY <1>2 DEF Meant
<1>3. CASE ref.by = "tag"
  BY <1>1, <1>3 DEF Meant, First, ByTag
<1>4. CASE ref.by = "vpc_name"
  BY <1>1, <1>4 DEF Meant, First, ByVpc
<1> QED
  BY <1>2, <1>3, <1>4 DEF Ways

\* A device about to be deleted, and the ports it has loaded.
LEMMA ListedDevice ==
    ASSUME TypeInv, NEW r \in Requests, Step(r), pc'[r] = "listed", want[r].op = "delete"
    PROVE  KindOf[want[r].object] = "device" /\ seen'[r] \subseteq OfKind("port")
<1>t. TypeOK
  BY DEF TypeInv
<1>1. ListDevice(r)
  BY <1>t DEF Step, Serve, CheckVlan, InsertVlan, MarkVlan, ListVlan, RemoveVlan, ResolveVlans,
     BindVlans, create_subnet, delete_subnet, CreateObject, DeleteObject, RemoveDevice, Crash,
     Goto, TypeOK, Is
<1>2. seen' = [seen EXCEPT ![r] = PortsOf(want[r].object)]
  BY <1>1, <1>t DEF ListDevice, Goto, TypeOK
<1> QED
  BY <1>1, <1>2, <1>t DEF ListDevice, PortsOf, TypeOK

LEMMA OthersListed ==
    ASSUME TypeOK, NEW r \in Requests, Step(r), NEW q \in Requests \ {r}
    PROVE  listed'[q] = listed[q]
  BY DEF Step, Serve, CheckVlan, InsertVlan, MarkVlan, ListVlan, RemoveVlan, ResolveVlans,
     BindVlans, create_subnet, delete_subnet, CreateObject, DeleteObject, ListDevice,
     RemoveDevice, Crash, locals, TypeOK

\* What another request has resolved stays good: its vlans may go, but not
\* come back.
LEMMA ResolvedKept ==
    ASSUME DistinctInv, NEW r \in Requests, Step(r), NEW q \in Requests \ {r}, ResolvedOK(q)
    PROVE  ResolvedOK(q)'
<1>t. TypeInv /\ TypeOK /\ want' = want
  BY StepFrame DEF DistinctInv, TypeInv
<1>1. listed'[q] = listed[q]
  BY <1>t, OthersListed
<1>2. \E meaning \in [want'[q].refs -> VlanIds] : listed'[q] = Made(q, meaning)'
  BY <1>t, <1>1 DEF ResolvedOK, Made
<1>3. ASSUME NEW b \in listed[q]
      PROVE  /\ b.vlan \in Requests => pc'[b.vlan] = "ok"
             /\ b.vlan \in Existing' => OnGroupOf(b)'
  <2>1. b.vlan \in Requests => pc[b.vlan] = "ok" /\ pc'[b.vlan] = "ok"
    BY <1>3, VlanKept DEF ResolvedOK
  <2>2. b.vlan # r
    BY <2>1, VlanKept
  <2>3. b.vlan \in Existing' => OnGroupOf(b) /\ vlans'[b.vlan].bg = vlans[b.vlan].bg
    BY <1>3, <2>2, VlanKept DEF ResolvedOK, SameKeys
  <2> QED
    BY <2>1, <2>3 DEF OnGroupOf
<1> QED
  BY <1>1, <1>2, <1>3 DEF ResolvedOK

\* And what a request resolves is good.
LEMMA ResolvedNow ==
    ASSUME DistinctInv, NEW r \in Requests, Step(r),
           pc'[r] = "resolved", want[r].op = "update_port"
    PROVE  ResolvedOK(r)'
<1>t. TypeInv /\ TypeOK /\ RowsInv
  BY DEF DistinctInv, TypeInv
<1>1. UNCHANGED <<vlans, want>> /\ Existing' = Existing
  BY <1>t, Resolved DEF Existing
<1>2. PICK meaning \in [want[r].refs -> VlanIds] :
         /\ \A ref \in want[r].refs : meaning[ref] \in Meant(want[r].port, ref)
         /\ listed'[r] = Made(r, meaning)
  BY <1>t, Resolved
<1>3. \E m \in [want'[r].refs -> VlanIds] : listed'[r] = Made(r, m)'
  BY <1>1, <1>2 DEF Made
<1>4. ASSUME NEW b \in listed'[r]
      PROVE  /\ b.vlan \in Requests => pc'[b.vlan] = "ok"
             /\ OnGroupOf(b)'
  <2>1. PICK ref \in want[r].refs :
           b = [port |-> want[r].port, vlan |-> meaning[ref], native |-> ref.native,
                by |-> ref.by, maker |-> r]
    BY <1>2, <1>4 DEF Made
  <2>2. b.port = want[r].port /\ b.vlan = meaning[ref] /\ b.by = ref.by
    BY <2>1
  <2>3. ref.by \in Ways
    BY <1>t, <2>1, OrderType DEF Ref
  <2>4. b.vlan \in Existing /\ (b.by = "id" \/ vlans[b.vlan].bg \in GroupsOf(b.port))
    BY <1>2, <2>2, <2>3, MeantVlan
  <2>5. b.vlan \in Requests => pc[b.vlan] = "ok"
    BY <1>t, <2>4 DEF RowsInv
  <2> QED
    BY <1>1, <2>4, <2>5, VlanKept DEF OnGroupOf
<1> QED
  BY <1>3, <1>4 DEF ResolvedOK

LEMMA LoadedKept ==
    ASSUME DistinctInv, KeysInv, NEW r \in Requests, Step(r)
    PROVE  LoadedInv'
<1>t. TypeInv /\ TypeOK /\ want' = want
  BY StepFrame DEF DistinctInv, TypeInv
<1> SUFFICES ASSUME NEW q \in Requests
             PROVE  /\ Is(q, "resolved", "update_port")' => ResolvedOK(q)'
                    /\ Is(q, "listed", "delete")' =>
                         KindOf[want'[q].object] = "device" /\ seen'[q] \subseteq OfKind("port")
  BY DEF LoadedInv
<1>1. CASE q = r
  BY <1>t, <1>1, ResolvedNow, ListedDevice DEF Is
<1>2. CASE q # r
  <2>1. pc'[q] = pc[q] /\ seen'[q] = seen[q]
    BY <1>t, <1>2, Frame
  <2>2. Is(q, "resolved", "update_port") => ResolvedOK(q)'
    BY <1>2, ResolvedKept DEF KeysInv, LoadedInv
  <2> QED
    BY <1>t, <2>1, <2>2 DEF KeysInv, LoadedInv, Is
<1> QED
  BY <1>1, <1>2

-----------------------------------------------------------------------------
(* The theorems.                                                           *)

LEMMA InitKeys == Init => KeysInv
<1> SUFFICES ASSUME Init PROVE KeysInv
  OBVIOUS
<1>1. ObjectsResolve
  BY ObjectAssumption DEF Init, ObjectsResolve, Present
<1>2. \A v \in VlanIds : v \in Existing <=> v \in Seeds
  BY SeedAssumption, ObjectAssumption DEF Init, Existing, VlanIds
<1>3. \A s \in Seeds : vlans[s] = SeedVlan[s] /\ SeedVlan[s] \in VlanRow
  BY SeedAssumption DEF Init, VlanIds
<1>4. \A o \in AtStart : Present(o)
  BY ObjectAssumption DEF Init, Present
<1>5. VlansResolve
  <2> SUFFICES ASSUME NEW v \in Existing PROVE VlanResolves(vlans[v])
    BY DEF VlansResolve
  <2>1. v \in Seeds
    BY <1>2 DEF Existing
  <2>2. SeedVlan[v].bg \in OfKind("bridgegroup") /\ SeedVlan[v].bg # Null
    BY <1>3, <2>1, ObjectAssumption DEF VlanRow, OfKind
  <2> QED
    BY <1>3, <1>4, <2>1, <2>2, SeedAssumption DEF VlanResolves
<1>6. SubnetsResolve
  BY <1>2, SeedAssumption DEF Init, SubnetsResolve, VlanIds
<1>7. BindingsResolve
  <2> SUFFICES ASSUME NEW b \in SeedBindings PROVE BindingResolves(b)
    BY DEF Init, BindingsResolve
  <2>1. b.port \in AtStart /\ b.vlan \in Seeds /\ b.vlan \in VlanIds
    BY SeedAssumption DEF VlanIds
  <2> QED
    BY <1>2, <1>3, <1>4, <2>1, SeedAssumption DEF BindingResolves, OnGroupOf
<1>8. \A b, c \in bindings : OnePayload(b, c)
  BY SeedAssumption DEF Init, OnePayload
<1>9. LoadedInv
  BY DEF Init, LoadedInv, Is
<1> QED
  BY <1>1, <1>5, <1>6, <1>7, <1>8, <1>9 DEF KeysInv

LEMMA NextKeys == DistinctInv /\ KeysInv /\ [Next]_vars => KeysInv'
<1> SUFFICES ASSUME DistinctInv, KeysInv, [Next]_vars PROVE KeysInv'
  OBVIOUS
<1>1. CASE UNCHANGED vars
  BY <1>1 DEF vars, tables, locals, KeysInv, ObjectsResolve, VlansResolve, VlanResolves,
     SubnetsResolve, BindingsResolve, BindingResolves, OnGroupOf, OnePayload, LoadedInv,
     ResolvedOK, Made, Is, Existing, Present
<1>2. ASSUME NEW r \in Requests, Step(r) PROVE KeysInv'
  BY <1>2, ObjectsKept, VlansKept, SubnetsKept, BindingsKept, NativesKept, LoadedKept DEF KeysInv
<1> QED
  BY <1>1, <1>2 DEF Next, Step

\* Whatever is deleted while something else is made, every row's references
\* resolve: the guards of the deletes and the foreign keys see to it, although
\* each delete acts on rows it has loaded earlier (delete_vlan, delete_device).
THEOREM ReferencesResolve == Spec => []References
<1>1. KeysInv => References
  BY DEF KeysInv, References, ObjectsResolve, VlansResolve, VlanResolves, SubnetsResolve,
     BindingsResolve, BindingResolves, OnGroupOf
<1> QED
  BY <1>1, InitDistinct, NextDistinct, InitKeys, NextKeys, PTL DEF Spec

\* However many updates of a port race, two native vlans come from one payload
\* that has two (_update_vlan_association replaces all of a port's vlans).
THEOREM NativesOfOnePayload == Spec => []NativesExplained
<1>1. KeysInv => NativesExplained
  BY DEF KeysInv, NativesExplained, OnePayload
<1> QED
  BY <1>1, InitDistinct, NextDistinct, InitKeys, NextKeys, PTL DEF Spec


-----------------------------------------------------------------------------
(* Vlans left half deleted.                                                *)

\* The makers of associations that exist or are about to: updates under way or
\* answered, which do not load theirs again.
MakersInv ==
    \A b \in bindings \cup UNION { listed[q] : q \in Requests } :
        b.maker # Null => want[b.maker].op = "update_port" /\ pc[b.maker] # "arrive"

\* An association that an update served at the same time as r has made.
MadeMeanwhile(r, b) ==
    b.maker \in Requests /\ b \in listed[b.maker] /\ {b.maker, r} \in met

\* A delete_vlan between its transactions knows the associations of its vlan,
\* but those made meanwhile.
ListedInv ==
    \A r \in Requests : Is(r, "listed", "delete_vlan") =>
        \A b \in bindings : b.vlan = want[r].vlan => b \in listed[r] \/ MadeMeanwhile(r, b)

\* Why a delete_vlan of v failed after it had marked it.
Thwarted(r, v) ==
    \/ v \in subnets
    \/ \E q \in Requests :
          \/ {q, r} \in met /\ \E b \in listed[q] : b.vlan = v /\ b.maker = q
          \/ want[q].op = "delete_subnet" /\ want[q].vlan = v

\* A delete_vlan that explains why v is PENDING_DELETE.
Explains(r, v) ==
    /\ want[r].op = "delete_vlan" /\ want[r].vlan = v
    /\ \/ pc[r] \in {"marked", "listed", "crashed"}
       \/ pc[r] = "error" /\ Thwarted(r, v)

PendingInv == KeysInv /\ MakersInv /\ ListedInv /\ PendingExplained

LEMMA InitPending == Init => PendingInv
<1> SUFFICES ASSUME Init PROVE PendingInv
  OBVIOUS
<1>1. KeysInv
  BY InitKeys
<1>2. MakersInv
  BY SeedAssumption DEF Init, MakersInv
<1>3. ListedInv
  BY DEF Init, ListedInv, Is
<1>4. PendingExplained
  BY DEF Init, Existing, PendingExplained
<1> QED
  BY <1>1, <1>2, <1>3, <1>4 DEF PendingInv

\* What a step loads are associations there are, or its own.
LEMMA ListedMove ==
    ASSUME TypeOK, NEW r \in Requests, Step(r), NEW b \in listed'[r]
    PROVE  b \in listed[r] \/ b \in bindings \/ (b.maker = r /\ want[r].op = "update_port")
<1>1. CASE ListVlan(r)
  BY <1>1 DEF ListVlan, TypeOK
<1>2. CASE ListDevice(r)
  BY <1>2 DEF ListDevice, TypeOK, BindingsOf, locals
<1>3. CASE ResolveVlans(r)
  <2>1. CASE UNCHANGED listed
    BY <2>1
  <2>2. CASE ~UNCHANGED listed
    <3>1. PICK meaning \in [want[r].refs -> VlanIds] :
             listed' = [listed EXCEPT ![r] = Made(r, meaning)]
      BY <1>3, <2>2 DEF ResolveVlans, Made
    <3>2. b \in Made(r, meaning)
      BY <3>1 DEF TypeOK
    <3> QED
      BY <1>3, <3>2 DEF ResolveVlans, Is, Made
  <2> QED
    BY <2>1, <2>2
<1>4. CASE UNCHANGED listed
  BY <1>4
<1> QED
  BY <1>1, <1>2, <1>3, <1>4
  DEF Step, Serve, locals, CheckVlan, InsertVlan, MarkVlan, RemoveVlan, BindVlans, create_subnet,
      delete_subnet, CreateObject, DeleteObject, RemoveDevice, Crash

\* An update that has resolved its vlans does not load them again.
LEMMA UpdateKeepsListed ==
    ASSUME NEW r \in Requests, Step(r), want[r].op = "update_port", pc[r] # "arrive"
    PROVE  UNCHANGED listed
  BY DEF Step, Serve, CheckVlan, InsertVlan, MarkVlan, ListVlan, RemoveVlan, ResolveVlans,
     BindVlans, create_subnet, delete_subnet, CreateObject, DeleteObject, ListDevice,
     RemoveDevice, Crash, locals, Is

LEMMA MakersKept ==
    ASSUME DistinctInv, PendingInv, NEW r \in Requests, Step(r)
    PROVE  MakersInv'
<1>t. TypeInv /\ TypeOK /\ want' = want
  BY StepFrame DEF DistinctInv, TypeInv
<1> SUFFICES ASSUME NEW b, b \in bindings' \/ \E q \in Requests : b \in listed'[q],
                    b.maker # Null
             PROVE  want[b.maker].op = "update_port" /\ pc'[b.maker] # "arrive"
  BY <1>t DEF MakersInv
<1>1. /\ \A q \in Requests : pc[q] # "arrive" => pc'[q] # "arrive"
      /\ pc'[r] # "arrive"
  BY <1>t, StepFrame DEF Goto, TypeOK
<1>2. \/ b \in bindings \/ \E q \in Requests : b \in listed[q]
      \/ b.maker = r /\ want[r].op = "update_port"
  <2>1. CASE b \in bindings'
    BY <2>1, BindingsMove
  <2>2. ASSUME NEW q \in Requests, b \in listed'[q]
        PROVE  \/ b \in bindings \/ \E p \in Requests : b \in listed[p]
               \/ b.maker = r /\ want[r].op = "update_port"
    BY <1>t, <2>2, OthersListed, ListedMove
  <2> QED
    BY <2>1, <2>2
<1>3. b \in bindings \/ (\E q \in Requests : b \in listed[q]) => b \in Binding
  BY <1>t DEF TypeOK
<1>4. CASE b \in bindings \/ \E q \in Requests : b \in listed[q]
  <2>1. b.maker \in Requests
    BY <1>3, <1>4 DEF Binding
  <2> QED
    BY <1>1, <1>4, <2>1 DEF PendingInv, MakersInv
<1> QED
  BY <1>1, <1>2, <1>4

\* The associations a vlan's deletion does not know stay explained.
LEMMA MeanwhileKept ==
    ASSUME DistinctInv, PendingInv, NEW r \in Requests, Step(r), NEW q \in Requests,
           NEW b, MadeMeanwhile(q, b)
    PROVE  MadeMeanwhile(q, b)'
<1>t. TypeInv /\ TypeOK
  BY DEF DistinctInv, TypeInv
<1>1. b.maker # Null
  BY ObjectAssumption DEF MadeMeanwhile
<1>2. want[b.maker].op = "update_port" /\ pc[b.maker] # "arrive"
  BY <1>1 DEF MadeMeanwhile, PendingInv, MakersInv
<1>3. listed'[b.maker] = listed[b.maker]
  BY <1>t, <1>2, OthersListed, UpdateKeepsListed DEF MadeMeanwhile
<1> QED
  BY <1>t, <1>3, Frame DEF MadeMeanwhile

LEMMA ListedKept ==
    ASSUME DistinctInv, PendingInv, NEW r \in Requests, Step(r)
    PROVE  ListedInv'
<1>t. TypeInv /\ TypeOK /\ want' = want
  BY StepFrame DEF DistinctInv, TypeInv
<1> SUFFICES ASSUME NEW q \in Requests, Is(q, "listed", "delete_vlan")',
                    NEW b \in bindings', b.vlan = want[q].vlan
             PROVE  b \in listed'[q] \/ MadeMeanwhile(q, b)'
  BY <1>t DEF ListedInv
<1>1. CASE q = r
  <2>1. ListVlan(r)
    BY <1>t, <1>1 DEF Step, Serve, CheckVlan, InsertVlan, MarkVlan, RemoveVlan, ResolveVlans,
       BindVlans, create_subnet, delete_subnet, CreateObject, DeleteObject, ListDevice,
       RemoveDevice, Crash, Goto, TypeOK, Is
  <2>2. listed'[r] = { c \in bindings : c.vlan = want[r].vlan }
    BY <1>t, <1>1, <2>1 DEF ListVlan, Goto, TypeOK, Is
  <2> QED
    BY <1>1, <2>1, <2>2 DEF ListVlan, tables
<1>2. CASE q # r
  <2>1. Is(q, "listed", "delete_vlan") /\ listed'[q] = listed[q]
    BY <1>t, <1>2, Frame, OthersListed DEF Is
  <2>2. CASE b \in bindings
    BY <2>1, <2>2, MeanwhileKept DEF PendingInv, ListedInv
  <2>3. CASE Is(r, "resolved", "update_port") /\ b \in listed[r]
    <3>1. ResolvedOK(r)
      BY <2>3 DEF PendingInv, KeysInv, LoadedInv
    <3>2. b.maker = r
      BY <2>3, <3>1 DEF ResolvedOK, Made
    <3>3. {r, q} \in met
      BY <1>2, <2>1, <2>3 DEF DistinctInv, MetInv, Active, Answered, Is
    <3>4. MadeMeanwhile(q, b)
      BY <2>3, <3>2, <3>3 DEF MadeMeanwhile
    <3> QED
      BY <3>4, MeanwhileKept
  <2> QED
    BY <2>2, <2>3, BindingsMove
<1> QED
  BY <1>1, <1>2


\* A step loses no reason why a delete_vlan failed: a subnet only goes by a
\* delete_subnet, and an update keeps what it has made in mind.
LEMMA ThwartedKept ==
    ASSUME DistinctInv, PendingInv, NEW r \in Requests, Step(r),
           NEW q \in Requests, NEW v, Thwarted(q, v)
    PROVE  Thwarted(q, v)'
<1>t. TypeInv /\ TypeOK /\ want' = want
  BY StepFrame DEF DistinctInv, TypeInv
<1>1. CASE v \in subnets
  <2>1. CASE delete_subnet(r) /\ want[r].vlan = v
    BY <1>t, <2>1 DEF delete_subnet, Is, Thwarted
  <2>2. CASE v \in subnets'
    BY <2>2 DEF Thwarted
  <2>3. CASE UNCHANGED subnets
    BY <1>1, <2>3 DEF Thwarted
  <2> QED
    BY <1>1, <2>1, <2>2, <2>3
    DEF Step, Serve, tables, CheckVlan, InsertVlan, MarkVlan, ListVlan, RemoveVlan, ResolveVlans,
        BindVlans, create_subnet, delete_subnet, CreateObject, DeleteObject, ListDevice,
        RemoveDevice, Crash
<1>2. ASSUME NEW p \in Requests, {p, q} \in met,
             NEW b \in listed[p], b.vlan = v, b.maker = p
      PROVE  Thwarted(q, v)'
  <2>1. MadeMeanwhile(q, b)
    BY <1>2 DEF MadeMeanwhile
  <2>2. MadeMeanwhile(q, b)'
    BY <2>1, MeanwhileKept
  <2> QED
    BY <1>2, <2>2 DEF MadeMeanwhile, Thwarted
<1>3. CASE \E p \in Requests : want[p].op = "delete_subnet" /\ want[p].vlan = v
  BY <1>t, <1>3 DEF Thwarted
<1> QED
  BY <1>1, <1>2, <1>3 DEF Thwarted

\* A vlan's deletion explains its status until the vlan is gone.
LEMMA ExplainsKept ==
    ASSUME DistinctInv, PendingInv, NEW r \in Requests, Step(r),
           NEW q \in Requests, NEW v \in Existing, v \in Existing', Explains(q, v)
    PROVE  Explains(q, v)'
<1>t. TypeInv /\ TypeOK /\ want' = want
  BY StepFrame DEF DistinctInv, TypeInv
<1>1. CASE q # r
  <2>1. pc'[q] = pc[q]
    BY <1>t, <1>1, Frame
  <2> QED
    BY <1>t, <2>1, ThwartedKept DEF Explains
<1>2. CASE q = r
  <2>1. pc[r] \in {"marked", "listed"} /\ want[r].op = "delete_vlan" /\ want[r].vlan = v
    BY <1>t, <1>2, Frame DEF Explains, Active, Answered
  <2>2. CASE Crash(r)
    <3>1. pc'[r] = "crashed"
      BY <1>t, <2>2 DEF Crash, Goto, TypeOK
    <3> QED
      BY <1>t, <1>2, <2>1, <3>1 DEF Explains
  <2>3. CASE ListVlan(r)
    <3>1. CASE v \in subnets
      <4>1. pc'[r] = "error" /\ v \in subnets'
        BY <1>t, <2>1, <2>3, <3>1 DEF ListVlan, Goto, TypeOK, tables
      <4> QED
        BY <1>t, <1>2, <2>1, <4>1 DEF Explains, Thwarted
    <3>2. CASE v \notin subnets
      <4>1. pc'[r] = "listed"
        BY <1>t, <2>1, <2>3, <3>2 DEF ListVlan, Goto, TypeOK
      <4> QED
        BY <1>t, <1>2, <2>1, <4>1 DEF Explains
    <3> QED
      BY <3>1, <3>2
  <2>4. CASE RemoveVlan(r)
    <3>1. ~(v \notin subnets /\ \A b \in bindings : b.vlan = v => b \in listed[r])
      <4>1. vlans'[v] # Null /\ v \in VlanIds
        BY DEF Existing
      <4>2. vlans' = [vlans EXCEPT ![v] = Null] => vlans'[v] = Null
        BY <1>t, <4>1 DEF TypeOK
      <4> QED
        BY <2>1, <2>4, <4>1, <4>2 DEF RemoveVlan
    <3>2. pc'[r] = "error" /\ UNCHANGED <<want, met, listed, subnets>>
      BY <1>t, <2>1, <2>4, <3>1 DEF RemoveVlan, Goto, TypeOK, locals, Arrived
    <3>3. Thwarted(r, v)
      <4>1. CASE v \in subnets
        BY <4>1 DEF Thwarted
      <4>2. ASSUME NEW b \in bindings, b.vlan = v, b \notin listed[r]
            PROVE  Thwarted(r, v)
        <5>1. MadeMeanwhile(r, b)
          BY <2>1, <2>4, <4>2 DEF PendingInv, ListedInv, RemoveVlan
        <5> QED
          BY <4>2, <5>1 DEF MadeMeanwhile, Thwarted
      <4> QED
        BY <3>1, <4>1, <4>2
    <3>4. Thwarted(r, v)'
      BY <3>3, ThwartedKept
    <3> QED
      BY <1>t, <1>2, <2>1, <3>2, <3>4 DEF Explains
  <2> QED
    BY <2>1, <2>2, <2>3, <2>4
    DEF Step, Serve, CheckVlan, InsertVlan, MarkVlan, ResolveVlans, BindVlans, create_subnet,
        delete_subnet, CreateObject, DeleteObject, ListDevice, RemoveDevice, Is
<1> QED
  BY <1>1, <1>2

\* A vlan becomes PENDING_DELETE only by the first transaction of its deletion.
LEMMA NewlyPending ==
    ASSUME DistinctInv, NEW r \in Requests, Step(r), NEW v \in Existing',
           vlans'[v].status = "PENDING_DELETE",
           ~(v \in Existing /\ vlans[v].status = "PENDING_DELETE")
    PROVE  Explains(r, v)'
<1>t. TypeInv /\ TypeOK /\ want' = want
  BY StepFrame DEF DistinctInv, TypeInv
<1>0. v \in VlanIds /\ vlans'[v] # Null
  BY DEF Existing
<1>1. CASE InsertVlan(r)
  <2>1. NewVlan(r).status = "ACTIVE"
    BY DEF NewVlan
  <2>2. vlans'[v] = vlans[v] \/ vlans'[v] = NewVlan(r)
    BY <1>t, <1>0, <1>1 DEF InsertVlan, TypeOK
  <2> QED
    BY <1>0, <2>1, <2>2 DEF Existing
<1>2. CASE MarkVlan(r)
  <2> DEFINE u == want[r].vlan
             marked == [vlans[u] EXCEPT !.status = "PENDING_DELETE"]
  <2>1. u \in Existing /\ vlans' = [vlans EXCEPT ![u] = marked]
    BY <1>0, <1>2 DEF MarkVlan, Existing
  <2> HIDE DEF marked
  <2>2. v = u
    BY <1>t, <1>0, <2>1 DEF TypeOK, Existing
  <2>3. pc'[r] = "marked"
    BY <1>t, <1>2, <2>1 DEF MarkVlan, Goto, TypeOK
  <2> QED
    BY <1>t, <1>2, <2>2, <2>3 DEF MarkVlan, Is, Explains
<1>3. CASE RemoveVlan(r)
  BY <1>t, <1>0, <1>3 DEF RemoveVlan, TypeOK, Existing
<1>4. CASE UNCHANGED vlans
  BY <1>0, <1>4 DEF Existing
<1> QED
  BY <1>1, <1>2, <1>3, <1>4
  DEF Step, Serve, tables, CheckVlan, ListVlan, ResolveVlans, BindVlans, create_subnet,
      delete_subnet, CreateObject, DeleteObject, ListDevice, RemoveDevice, Crash

LEMMA PendingKept ==
    ASSUME DistinctInv, PendingInv, NEW r \in Requests, Step(r)
    PROVE  PendingExplained'
<1> SUFFICES ASSUME NEW v \in Existing', vlans'[v].status = "PENDING_DELETE"
             PROVE  \/ v \in Seeds /\ SeedVlan[v].status = "PENDING_DELETE"
                    \/ \E q \in Requests : Explains(q, v)'
  BY DEF PendingExplained, Explains, Thwarted
<1>1. CASE v \in Existing /\ vlans[v].status = "PENDING_DELETE"
  <2>1. \/ v \in Seeds /\ SeedVlan[v].status = "PENDING_DELETE"
        \/ \E q \in Requests : Explains(q, v)
    BY <1>1 DEF PendingInv, PendingExplained, Explains, Thwarted
  <2> QED
    BY <1>1, <2>1, ExplainsKept
<1>2. CASE ~(v \in Existing /\ vlans[v].status = "PENDING_DELETE")
  BY <1>2, NewlyPending
<1> QED
  BY <1>1, <1>2

LEMMA NextPending == DistinctInv /\ PendingInv /\ [Next]_vars => PendingInv'
<1> SUFFICES ASSUME DistinctInv, PendingInv, [Next]_vars PROVE PendingInv'
  OBVIOUS
<1>1. KeysInv'
  BY NextKeys DEF PendingInv
<1>2. CASE UNCHANGED vars
  <2>1. UNCHANGED <<vlans, bindings, subnets, want, pc, listed, met>> /\ Existing' = Existing
    BY <1>2 DEF vars, tables, locals, Existing
  <2>2. MakersInv' /\ ListedInv'
    BY <2>1 DEF PendingInv, MakersInv, ListedInv, MadeMeanwhile, Is
  <2>3. ASSUME NEW v \in Existing, vlans[v].status = "PENDING_DELETE"
        PROVE  \/ v \in Seeds /\ SeedVlan[v].status = "PENDING_DELETE"
               \/ \E q \in Requests : Explains(q, v)'
    <3>1. \A q \in Requests : Thwarted(q, v) => Thwarted(q, v)'
      BY <2>1 DEF Thwarted
    <3>2. \A q \in Requests : Explains(q, v) => Explains(q, v)'
      BY <2>1, <3>1 DEF Explains
    <3>3. \/ v \in Seeds /\ SeedVlan[v].status = "PENDING_DELETE"
          \/ \E q \in Requests : Explains(q, v)
      BY <2>3 DEF PendingInv, PendingExplained, Explains, Thwarted
    <3> QED
      BY <3>2, <3>3
  <2>4. PendingExplained'
    BY <2>1, <2>3 DEF PendingExplained, Explains, Thwarted
  <2> QED
    BY <1>1, <2>2, <2>4 DEF PendingInv
<1>3. ASSUME NEW r \in Requests, Step(r) PROVE PendingInv'
  BY <1>1, <1>3, MakersKept, ListedKept, PendingKept DEF PendingInv
<1> QED
  BY <1>2, <1>3 DEF Next, Step

\* A vlan that stays PENDING_DELETE was in that state before, or its deletion
\* crashed, or failed on a subnet or on a port that got the vlan between its
\* two transactions: delete_vlan loses no race silently.
THEOREM PendingHasReason == Spec => []PendingExplained
<1>1. PendingInv => PendingExplained
  BY DEF PendingInv
<1> QED
  BY <1>1, InitDistinct, NextDistinct, InitPending, NextPending, PTL DEF Spec
=============================================================================
