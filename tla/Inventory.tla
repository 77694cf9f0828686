------------------------------ MODULE Inventory ------------------------------
(***************************************************************************)
(* The tables netforce keeps of the network: bridge groups, devices, device *)
(* types, ports, VPCs, bubbles and vrfs, the vlans of the bridge groups, and *)
(* which vlans a port carries.  API requests read these tables, decide and   *)
(* write.  No lock covers a decision: only the transaction that writes, the  *)
(* foreign keys and the unique keys of the migrated schema do.               *)
(*                                                                         *)
(* One action is one transaction, or the reads in front of one.  Where a     *)
(* request decides on what it read earlier, the reading is an action of its  *)
(* own.                                                                    *)
(***************************************************************************)
EXTENDS Naturals

CONSTANTS
    Objects,        \* every row of the tables without vlans, also future ones
    KindOf,         \* Objects -> Kinds
    RefersTo,       \* Objects -> the objects the foreign keys of its row name
    AtStart,        \* the objects that exist at the start
    VpcName,        \* the name of an object that is a VPC; names repeat
    Names, Tags,    \* of vlans
    Seeds,          \* ids of the vlans that exist at the start
    SeedVlan,       \* Seeds -> their rows
    SeedBindings,   \* vlan port associations that exist at the start
    SeedSubnets,    \* vlans that have a subnet at the start
    Requests, Orders, Faults,
    Null

Kinds == {"bridgegroup", "device", "devicetype", "port", "vpc", "bubble", "vrf"}
OfKind(kind) == { o \in Objects : KindOf[o] = kind }

\* The id of a vlan made by a request is the request.
VlanIds == Seeds \cup Requests

VlanRow == [bg : OfKind("bridgegroup"), name : Names, tag : Tags,
            vpc : OfKind("vpc") \cup {Null}, status : {"ACTIVE", "PENDING_DELETE"}]

\* How a payload names a vlan to carry, and the association made of it; `by`
\* and `maker` tell the rows apart, as their ids do.
Ways == {"tag", "id", "vpc_name"}
Ref == [by : Ways, what : Tags \cup VlanIds \cup Names, native : BOOLEAN]
Binding == [port : OfKind("port"), vlan : VlanIds, native : BOOLEAN,
            by : Ways, maker : Requests \cup {Null}]

Order ==
    [op : {"create_vlan"}, bg : OfKind("bridgegroup"), name : Names, tag : Tags,
     vpc : Names \cup {Null}]
    \cup [op : {"delete_vlan", "create_subnet", "delete_subnet"}, vlan : VlanIds]
    \cup [op : {"update_port"}, port : OfKind("port"), refs : SUBSET Ref]
    \cup [op : {"create", "delete"}, object : Objects]

\* Two vlans of one bridge group that a tag or a name does not tell apart.
Clash(a, b) == a.bg = b.bg /\ (a.tag = b.tag \/ a.name = b.name)

\* Two vlans of one bridge group whose VPCs have the same name.
SameVpc(a, b) ==
    a.bg = b.bg /\ a.vpc # Null /\ b.vpc # Null /\ VpcName[a.vpc] = VpcName[b.vpc]

\* A port's device and the bridge group of that, if it has one.
GroupsOf(p) == { bg \in OfKind("bridgegroup") : \E d \in RefersTo[p] : bg \in RefersTo[d] }

ASSUME ObjectAssumption ==
    /\ KindOf \in [Objects -> Kinds]
    /\ RefersTo \in [Objects -> SUBSET Objects]
    /\ VpcName \in [Objects -> Names]
    /\ AtStart \subseteq Objects
    /\ \A o \in AtStart : RefersTo[o] \subseteq AtStart
    /\ Null \notin Objects \cup Names \cup Requests \cup VlanRow

\* The foreign keys of netforce_model: only ports refer to a device, and of the
\* tables in objects none refers to a port.
ASSUME KeyAssumption ==
    \A o \in Objects : \A x \in RefersTo[o] :
        KindOf[x] # "port" /\ (KindOf[x] = "device" => KindOf[o] = "port")

ASSUME SeedAssumption ==
    /\ Seeds \cap Requests = {}
    /\ SeedVlan \in [Seeds -> VlanRow]
    /\ SeedBindings \subseteq Binding
    /\ SeedSubnets \subseteq Seeds
    /\ \A s \in Seeds : {SeedVlan[s].bg, SeedVlan[s].vpc} \subseteq AtStart \cup {Null}
    /\ \A s, t \in Seeds : s # t => ~Clash(SeedVlan[s], SeedVlan[t])
                                    /\ ~SameVpc(SeedVlan[s], SeedVlan[t])
    /\ \A b \in SeedBindings : b.port \in AtStart /\ b.vlan \in Seeds
    /\ \A b \in SeedBindings : b.by = "id" \/ SeedVlan[b.vlan].bg \in GroupsOf(b.port)
    /\ \A b, c \in SeedBindings : b.port = c.port /\ b.native /\ c.native => b = c
    /\ \A b \in SeedBindings : b.maker = Null

ASSUME OrderAssumption == Tags \subseteq Nat /\ Orders \subseteq Order

VARIABLES
    objects,    \* Objects -> never made, present or gone
    vlans,      \* nf_vlans: VlanIds -> a row, or Null
    bindings,   \* nf_vlanportassociations
    subnets,    \* the vlans that rows of nf_subnets name
    want,       \* Requests -> the order
    pc,         \* Requests -> where its handler is
    seen,       \* Requests -> objects it has loaded: the VPC, or a device's ports
    listed,     \* Requests -> associations it has loaded, or is about to make
    met,        \* history only: pairs of requests served at the same time
    earlier     \* history only: Requests -> vlans there were when it arrived

tables == <<objects, vlans, bindings, subnets>>
locals == <<seen, listed>>
vars == <<tables, want, pc, locals, met, earlier>>

Answered == {"ok", "error", "crashed"}
Places == {"arrive", "checked", "marked", "listed", "resolved"} \cup Answered
Active(r) == pc[r] \notin {"arrive"} \cup Answered

Present(o) == objects[o] = "present"
Existing == { v \in VlanIds : vlans[v] # Null }
OnGroup(bg) == { v \in Existing : vlans[v].bg = bg }
Referring(o) == { x \in Objects : Present(x) /\ o \in RefersTo[x] }
PortsOf(d) == { p \in OfKind("port") : p \in Referring(d) }
BindingsOf(ports) == { b \in bindings : b.port \in ports }

Reachable(p) == UNION { OnGroup(bg) : bg \in GroupsOf(p) }

Goto(r, l) == pc' = [pc EXCEPT ![r] = l]
Is(r, l, op) == pc[r] = l /\ want[r].op = op

\* The first step of a request.
Arrive(r) ==
    /\ met' = met \cup { {r, q} : q \in { s \in Requests : Active(s) } }
    /\ earlier' = [earlier EXCEPT ![r] = Existing]

Arrived == UNCHANGED <<want, met, earlier>>

Init ==
    /\ objects = [o \in Objects |-> IF o \in AtStart THEN "present" ELSE "never"]
    /\ vlans = [v \in VlanIds |-> IF v \in Seeds THEN SeedVlan[v] ELSE Null]
    /\ bindings = SeedBindings
    /\ subnets = SeedSubnets
    /\ want \in [Requests -> Orders]
    /\ pc = [r \in Requests |-> "arrive"]
    /\ seen = [r \in Requests |-> {}]
    /\ listed = [r \in Requests |-> {}]
    /\ met = {}
    /\ earlier = [r \in Requests |-> {}]

-----------------------------------------------------------------------------
(* create_vlan.                                                            *)

\* The row the request would insert, given the VPCs it found.
NewVlan(r) ==
    [bg |-> want[r].bg, name |-> want[r].name, tag |-> want[r].tag,
     vpc |-> IF want[r].vpc = Null THEN Null ELSE CHOOSE o \in seen[r] : TRUE,
     status |-> "ACTIVE"]

\* get_vpc_by_name: the first of those with the name.
VpcsNamed(name) == { o \in OfKind("vpc") : Present(o) /\ VpcName[o] = name }

\* NoResultFound, NoDevicesAssociatedToBridgeGroup or VPCNotConfigured.
VlanRefused(r) ==
    \/ ~Present(want[r].bg)
    \/ Referring(want[r].bg) \cap OfKind("device") = {}
    \/ want[r].vpc # Null /\ VpcsNamed(want[r].vpc) = {}

\* Mutant: the VPC's vlan is found only under the requested tag.
FoundByVpcAndTag(r) ==
    { v \in OnGroup(want[r].bg) :
        /\ vlans[v].vpc # Null /\ VpcName[vlans[v].vpc] = want[r].vpc
        /\ vlans[v].tag = want[r].tag }

\* _find_vlan_by_vpc_and_bg.
FoundByVpc(r) ==
    { v \in OnGroup(want[r].bg) :
        vlans[v].vpc # Null /\ VpcName[vlans[v].vpc] = want[r].vpc }

\* Mutant: a vlan of the same tag but another name does not count.
FoundByNameOnly(r) == { v \in OnGroup(want[r].bg) : vlans[v].name = want[r].name }

\* _check_duplicate_vlans_on_bridge_group.
FoundByNameOrTag(r) ==
    { v \in OnGroup(want[r].bg) :
        vlans[v].name = want[r].name \/ vlans[v].tag = want[r].tag }

Found(r) == IF want[r].vpc = Null THEN FoundByNameOrTag(r) ELSE FoundByVpc(r)

\* The relation is ordered by tag; equal tags come in any order.
First(S) == { v \in S : \A u \in S : vlans[v].tag <= vlans[u].tag }

CheckVlan(r) ==
    /\ Is(r, "arrive", "create_vlan")
    /\ Arrive(r)
    /\ \/ VlanRefused(r) /\ Goto(r, "error") /\ UNCHANGED seen
       \/ /\ ~VlanRefused(r)
          /\ \E v \in First(Found(r)) :
                \* ConfiguredVlanConflictsWithRequested, or the vlan itself.
                Goto(r, IF want[r].vpc = Null /\ (\/ vlans[v].name # want[r].name
                                                  \/ vlans[v].tag # want[r].tag)
                        THEN "error" ELSE "ok")
          /\ UNCHANGED seen
       \/ /\ ~VlanRefused(r)
          /\ Found(r) = {}
          /\ \/ want[r].vpc = Null /\ UNCHANGED seen
             \/ \E o \in VpcsNamed(want[r].vpc) : seen' = [seen EXCEPT ![r] = {o}]
          /\ Goto(r, "checked")
    /\ UNCHANGED <<tables, want, listed>>

\* The keys of nf_vlans: the references exist, and a VPC has one vlan per
\* bridge group.  A NULL vpc_id is equal to none.
VlanKeysHold(row) ==
    /\ Present(row.bg)
    /\ row.vpc # Null => Present(row.vpc)
    /\ \A v \in OnGroup(row.bg) : row.vpc # Null => vlans[v].vpc # row.vpc

\* create_vlan_by_bg_and_vpc.  An IntegrityError is answered 500: the
\* ResourceAlreadyExists made for it is never raised.
InsertVlan(r) ==
    /\ Is(r, "checked", "create_vlan")
    /\ IF VlanKeysHold(NewVlan(r))
       THEN vlans' = [vlans EXCEPT ![r] = NewVlan(r)] /\ Goto(r, "ok")
       ELSE UNCHANGED vlans /\ Goto(r, "error")
    /\ UNCHANGED <<objects, bindings, subnets, locals>> /\ Arrived

-----------------------------------------------------------------------------
(* delete_vlan, under the @transaction decorator: two transactions.        *)

MarkVlan(r) ==
    /\ Is(r, "arrive", "delete_vlan")
    /\ Arrive(r)
    /\ LET v == want[r].vlan IN
       IF v \in Existing
       THEN /\ vlans' = [vlans EXCEPT ![v] = [@ EXCEPT !.status = "PENDING_DELETE"]]
            /\ Goto(r, "marked")
       ELSE UNCHANGED vlans /\ Goto(r, "error")
    /\ UNCHANGED <<objects, bindings, subnets, want, locals>>

\* get_vlan, and what netforce_db.delete_vlan loads.  Deleting a vlan makes the
\* ORM set the vlan_id of its subnets to NULL, which the schema forbids.
ListVlan(r) ==
    /\ Is(r, "marked", "delete_vlan")
    /\ LET v == want[r].vlan IN
       IF v \in Existing \ subnets
       THEN /\ listed' = [listed EXCEPT ![r] = { b \in bindings : b.vlan = v }]
            /\ Goto(r, "listed")
       ELSE UNCHANGED listed /\ Goto(r, "error")
    /\ UNCHANGED <<tables, seen>> /\ Arrived

\* Mutant: the row is left without a bridge group.
RemoveVlanDetached(r) ==
    /\ Is(r, "listed", "delete_vlan")
    /\ vlans' = [vlans EXCEPT ![want[r].vlan] =
                    IF @ = Null THEN Null ELSE [@ EXCEPT !.bg = Null]]
    /\ Goto(r, "ok")
    /\ UNCHANGED <<objects, bindings, subnets, locals>> /\ Arrived

\* Mutant: the decorator forgets to delete.
RemoveVlanNot(r) ==
    /\ Is(r, "listed", "delete_vlan")
    /\ Goto(r, "ok")
    /\ UNCHANGED <<tables, locals>> /\ Arrived

\* The associations and the row go together.  Any other row that names the vlan
\* by now makes a foreign key fail; a row that is gone already is no error.
RemoveVlan(r) ==
    /\ Is(r, "listed", "delete_vlan")
    /\ LET v == want[r].vlan IN
       IF v \notin subnets /\ \A b \in bindings : b.vlan = v => b \in listed[r]
       THEN /\ bindings' = bindings \ listed[r]
            /\ vlans' = [vlans EXCEPT ![v] = Null]
            /\ Goto(r, "ok")
       ELSE UNCHANGED <<bindings, vlans>> /\ Goto(r, "error")
    /\ UNCHANGED <<objects, subnets, locals>> /\ Arrived

-----------------------------------------------------------------------------
(* The vlans of a port: _update_vlan_association of update_port.           *)

\* Mutant: a tag is looked up among all vlans.
ByTagAnywhere(p, tag) == { v \in Existing : vlans[v].tag = tag }

\* get_vlan_by_tag_and_port_id.
ByTag(p, tag) == { v \in Reachable(p) : vlans[v].tag = tag }

\* get_vlan_by_vpc_name_and_port_id.
ByVpc(p, name) ==
    { v \in Reachable(p) : vlans[v].vpc # Null /\ VpcName[vlans[v].vpc] = name }

\* The vlans a reference may mean; an id is good on every bridge group.
Meant(p, ref) ==
    CASE ref.by = "tag"      -> First(ByTag(p, ref.what))
      [] ref.by = "vpc_name" -> First(ByVpc(p, ref.what))
      [] ref.by = "id"       -> Existing \cap {ref.what}

\* The search by VPC reads vlan.vpc.name of every vlan it passes, and there is
\* no name when the vlan has no VPC.
Stumbles(p, ref) ==
    /\ ref.by = "vpc_name"
    /\ \E u \in Reachable(p) :
          /\ vlans[u].vpc = Null
          /\ \A v \in Meant(p, ref) : vlans[u].tag <= vlans[v].tag

ResolveVlans(r) ==
    /\ Is(r, "arrive", "update_port")
    /\ Arrive(r)
    /\ LET p == want[r].port IN
       \/ /\ Present(p)
          /\ \E meaning \in [want[r].refs -> VlanIds] :
                /\ \A ref \in want[r].refs : meaning[ref] \in Meant(p, ref)
                /\ listed' = [listed EXCEPT ![r] =
                      { [port |-> p, vlan |-> meaning[ref], native |-> ref.native,
                         by |-> ref.by, maker |-> r] : ref \in want[r].refs }]
          /\ Goto(r, "resolved")
       \/ /\ \/ ~Present(p)
             \/ \E ref \in want[r].refs : Meant(p, ref) = {} \/ Stumbles(p, ref)
          /\ UNCHANGED listed
          /\ Goto(r, "error")
    /\ UNCHANGED <<tables, want, seen>>

\* Mutant: the old associations stay.
BindVlansAdds(r) ==
    /\ Is(r, "resolved", "update_port")
    /\ LET p == want[r].port IN
       IF Present(p) /\ \A b \in listed[r] : b.vlan \in Existing
       THEN bindings' = bindings \cup listed[r] /\ Goto(r, "ok")
       ELSE UNCHANGED bindings /\ Goto(r, "error")
    /\ UNCHANGED <<objects, vlans, subnets, locals>> /\ Arrived

\* The old associations are deleted and the new ones inserted, or neither: the
\* port and the vlans must exist and no vlan may be named twice.
BindVlans(r) ==
    /\ Is(r, "resolved", "update_port")
    /\ LET p == want[r].port IN
       IF /\ Present(p)
          /\ \A b \in listed[r] : b.vlan \in Existing
          /\ \A b, c \in listed[r] : b.vlan = c.vlan => b = c
       THEN bindings' = (bindings \ BindingsOf({p})) \cup listed[r] /\ Goto(r, "ok")
       ELSE UNCHANGED bindings /\ Goto(r, "error")
    /\ UNCHANGED <<objects, vlans, subnets, locals>> /\ Arrived

-----------------------------------------------------------------------------
(* The rows of nf_subnets, which only point to vlans here.                 *)

create_subnet(r) ==
    /\ Is(r, "arrive", "create_subnet")
    /\ Arrive(r)
    /\ IF want[r].vlan \in Existing
       THEN subnets' = subnets \cup {want[r].vlan} /\ Goto(r, "ok")
       ELSE UNCHANGED subnets /\ Goto(r, "error")
    /\ UNCHANGED <<objects, vlans, bindings, want, locals>>

delete_subnet(r) ==
    /\ Is(r, "arrive", "delete_subnet")
    /\ Arrive(r)
    /\ subnets' = subnets \ {want[r].vlan}
    /\ Goto(r, "ok")
    /\ UNCHANGED <<objects, vlans, bindings, want, locals>>

-----------------------------------------------------------------------------
(* Everything else.                                                        *)

\* create_device, create_devicetype, create_port, create_vpc,
\* create_bridgegroup, create_bubble, create_vrf.
CreateObject(r) ==
    /\ Is(r, "arrive", "create")
    /\ Arrive(r)
    /\ LET o == want[r].object IN
       IF objects[o] = "never" /\ \A x \in RefersTo[o] : Present(x)
       THEN objects' = [objects EXCEPT ![o] = "present"] /\ Goto(r, "ok")
       ELSE UNCHANGED objects /\ Goto(r, "error")
    /\ UNCHANGED <<vlans, bindings, subnets, want, locals>>

\* The guards VlansAssociatedToPort, VlanAssociatedToBridgeGroup,
\* DevicesAssociatedToBridgeGroup, VlansAssociatedtoVPC,
\* DevicesAssociatedToTheBubble, and the foreign keys behind them.
InUse(o) ==
    \/ Referring(o) # {}
    \/ \E v \in Existing : o \in {vlans[v].bg, vlans[v].vpc}
    \/ BindingsOf({o}) # {}

\* delete_port, delete_vpc, delete_bridgegroup, delete_devicetype,
\* delete_bubble, delete_vrf.
DeleteObject(r) ==
    /\ Is(r, "arrive", "delete")
    /\ KindOf[want[r].object] # "device"
    /\ Arrive(r)
    /\ LET o == want[r].object IN
       IF Present(o) /\ ~InUse(o)
       THEN objects' = [objects EXCEPT ![o] = "gone"] /\ Goto(r, "ok")
       ELSE UNCHANGED objects /\ Goto(r, "error")
    /\ UNCHANGED <<vlans, bindings, subnets, want, locals>>

\* delete_device has no guard: the ORM loads the ports and their associations
\* and deletes them too.
ListDevice(r) ==
    /\ Is(r, "arrive", "delete")
    /\ KindOf[want[r].object] = "device"
    /\ Arrive(r)
    /\ LET d == want[r].object IN
       IF Present(d)
       THEN /\ seen' = [seen EXCEPT ![r] = PortsOf(d)]
            /\ listed' = [listed EXCEPT ![r] = BindingsOf(PortsOf(d))]
            /\ Goto(r, "listed")
       ELSE UNCHANGED locals /\ Goto(r, "error")
    /\ UNCHANGED <<tables, want>>

\* Mutant: the associations of the ports stay.
RemoveDeviceOnly(r) ==
    /\ Is(r, "listed", "delete")
    /\ objects' = [o \in Objects |-> IF o \in {want[r].object} \cup seen[r] THEN "gone" ELSE objects[o]]
    /\ Goto(r, "ok")
    /\ UNCHANGED <<vlans, bindings, subnets, locals>> /\ Arrived

\* A port or an association made since makes a foreign key fail.
RemoveDevice(r) ==
    /\ Is(r, "listed", "delete")
    /\ IF PortsOf(want[r].object) \subseteq seen[r] /\ BindingsOf(seen[r]) \subseteq listed[r]
       THEN /\ objects' = [o \in Objects |->
                  IF o \in {want[r].object} \cup seen[r] THEN "gone" ELSE objects[o]]
            /\ bindings' = bindings \ listed[r]
            /\ Goto(r, "ok")
       ELSE UNCHANGED <<objects, bindings>> /\ Goto(r, "error")
    /\ UNCHANGED <<vlans, subnets, locals>> /\ Arrived

\* The API worker dies between two transactions, or in one that rolls back.
Crash(r) ==
    /\ "crash" \in Faults
    /\ Active(r)
    /\ Goto(r, "crashed")
    /\ UNCHANGED <<tables, locals>> /\ Arrived

Serve(r) ==
    \/ CheckVlan(r) \/ InsertVlan(r)
    \/ MarkVlan(r) \/ ListVlan(r) \/ RemoveVlan(r)
    \/ ResolveVlans(r) \/ BindVlans(r)
    \/ create_subnet(r) \/ delete_subnet(r)
    \/ CreateObject(r) \/ DeleteObject(r) \/ ListDevice(r) \/ RemoveDevice(r)

Next == \E r \in Requests : Serve(r) \/ Crash(r)

Spec == Init /\ [][Next]_vars

-----------------------------------------------------------------------------
(* Properties.                                                             *)

\* The tables and what the requests carry keep their types.
TypeOK ==
    /\ objects \in [Objects -> {"never", "present", "gone"}]
    /\ vlans \in [VlanIds -> VlanRow \cup {Null}]
    /\ bindings \subseteq Binding
    /\ subnets \subseteq VlanIds
    /\ want \in [Requests -> Orders]
    /\ pc \in [Requests -> Places]
    /\ seen \in [Requests -> SUBSET Objects]
    /\ listed \in [Requests -> SUBSET Binding]
    /\ met \subseteq SUBSET Requests
    /\ earlier \in [Requests -> SUBSET VlanIds]

\* Whatever is deleted while something else is made: every row's references
\* resolve, and a port carries a vlan of a foreign bridge group only if the
\* client named it by id, the one way _update_vlan_association does not check.
References ==
    /\ \A o \in Objects : Present(o) => \A x \in RefersTo[o] : Present(x)
    /\ \A v \in Existing : Present(vlans[v].bg) /\ (vlans[v].vpc # Null => Present(vlans[v].vpc))
    /\ subnets \subseteq Existing
    /\ \A b \in bindings :
          /\ Present(b.port) /\ b.vlan \in Existing
          /\ b.by = "id" \/ vlans[b.vlan].bg \in GroupsOf(b.port)

\* Neither tag nor name of a vlan is a key of nf_vlans; create_vlan's check
\* alone keeps them distinct on a bridge group.  Two vlans clash only if their
\* creates were served at the same time, or the later one was made for a VPC,
\* for which the check is left out.
TagsDistinguish ==
    \A v, u \in Existing : v # u /\ Clash(vlans[v], vlans[u]) =>
        \/ {v, u} \in met
        \/ u \in Requests /\ v \in earlier[u] /\ vlans[u].vpc # Null
        \/ v \in Requests /\ u \in earlier[v] /\ vlans[v].vpc # Null

\* The key (vpc_id, bridge_group_id) backs create_vlan's check by VPC name only
\* for equal rows: a bridge group has two vlans of VPCs with the same name only
\* if these are two rows and the creates were served at the same time.
VpcHasOneVlan ==
    \A v, u \in Existing : v # u /\ SameVpc(vlans[v], vlans[u]) =>
        {v, u} \in met /\ vlans[v].vpc # vlans[u].vpc

\* A vlan is PENDING_DELETE while a delete_vlan is between its transactions.  It
\* stays so for good only if the worker died there, or the second transaction
\* failed on a subnet of the vlan or on a port that was given it meanwhile; or
\* if it was left so before the start.
PendingExplained ==
    \A v \in Existing : vlans[v].status = "PENDING_DELETE" =>
        \/ v \in Seeds /\ SeedVlan[v].status = "PENDING_DELETE"
        \/ \E r \in Requests :
              /\ want[r].op = "delete_vlan" /\ want[r].vlan = v
              /\ \/ pc[r] \in {"marked", "listed", "crashed"}
                 \/ /\ pc[r] = "error"
                    /\ \/ v \in subnets
                       \/ \E q \in Requests :
                            \/ {q, r} \in met /\ \E b \in listed[q] : b.vlan = v /\ b.maker = q
                            \/ want[q].op = "delete_subnet" /\ want[q].vlan = v

\* A port has two native vlans only when one update gave it both, which
\* _validate_vlans does not refuse: its counter is on the wrong branch.  The
\* updates of several clients never add theirs up (_update_vlan_association).
NativesExplained ==
    \A b, c \in bindings : b.port = c.port /\ b.native /\ c.native /\ b # c =>
        /\ b.maker = c.maker
        /\ \E ref, other \in want[b.maker].refs : ref # other /\ ref.native /\ other.native
=============================================================================
