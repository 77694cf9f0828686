---------------------------- MODULE MCInventory ----------------------------
(* An instance of Inventory for TLC: two bridge groups with one device and  *)
(* one vlan each, and what clients do to them.                             *)
EXTENDS Inventory, TLC

CONSTANTS
    bgA, bgB, devA, devB, type, portA, portB, portNew, vpc1, vpc2, vpcNew, bubble, vrf,
    n1, n2, blue, s1, s2

Kind ==
    [o \in Objects |->
        CASE o \in {bgA, bgB} -> "bridgegroup"
          [] o \in {devA, devB} -> "device"
          [] o = type -> "devicetype"
          [] o \in {portA, portB, portNew} -> "port"
          [] o \in {vpc1, vpc2, vpcNew} -> "vpc"
          [] o = bubble -> "bubble"
          [] o = vrf -> "vrf"]

Foreign ==
    [o \in Objects |->
        CASE o = devA -> {bgA, type, bubble}
          [] o = devB -> {bgB, type}
          [] o \in {portA, portNew} -> {devA}
          [] o = portB -> {devB}
          [] o = vrf -> {bubble, vpcNew}
          [] OTHER -> {}]

\* Both VPCs of the seeds have the same name: VPC names are no key.
NameOfVpc == [o \in Objects |-> IF o = vpcNew THEN n1 ELSE blue]

Begin == Objects \ {portNew, vpcNew, vrf}

\* s1 sorts before whatever has tag 2 and has no VPC; s2 has one.
SeedRows ==
    [s \in {s1, s2} |->
        IF s = s1 THEN [bg |-> bgA, name |-> n1, tag |-> 1, vpc |-> Null, status |-> "ACTIVE"]
        ELSE [bg |-> bgB, name |-> n2, tag |-> 2, vpc |-> vpc1, status |-> "ACTIVE"]]

Carried ==
    { [port |-> portA, vlan |-> s1, native |-> TRUE, by |-> "tag", maker |-> Null] }

Make(bg, name, tag, vpc) ==
    [op |-> "create_vlan", bg |-> bg, name |-> name, tag |-> tag, vpc |-> vpc]
OnVlan(op, v) == [op |-> op, vlan |-> v]
OnObject(op, o) == [op |-> op, object |-> o]
Carry(p, refs) == [op |-> "update_port", port |-> p, refs |-> refs]
By(way, what, native) == [by |-> way, what |-> what, native |-> native]

\* Vlans equal to a seed, in conflict with one, new, and for a VPC; ports that
\* get them by each way, twice, two natives at once, and across bridge groups; subnets; deletions of
\* everything, of vlans made by other requests too; and three creations.
AllOrders ==
    { Make(bgA, n1, 1, Null), Make(bgA, n2, 1, Null), Make(bgA, n2, 2, Null),
      Make(bgA, n1, 2, blue), Make(bgB, n1, 1, blue), Make(bgB, n2, 2, Null) }
    \cup { OnVlan("delete_vlan", v) : v \in VlanIds }
    \cup { OnVlan("create_subnet", s1), OnVlan("delete_subnet", s2) }
    \cup { Carry(portA, {By("tag", 1, TRUE), By("tag", 2, TRUE)}), Carry(portA, {By("id", s2, TRUE)}),
           Carry(portA, {By("vpc_name", blue, FALSE)}), Carry(portB, {By("vpc_name", blue, TRUE)}),
           Carry(portA, {By("tag", 1, TRUE), By("id", s1, FALSE)}),
           Carry(portNew, {By("tag", 1, FALSE)}) }
    \cup { OnObject("create", o) : o \in {portNew, vpcNew, vrf} }
    \cup { OnObject("delete", o) : o \in {bgB, devA, devB, portA, vpc1, vpcNew, bubble} }

Symmetry == Permutations(Requests)
=============================================================================
