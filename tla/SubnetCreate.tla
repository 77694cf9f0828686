---------------------------- MODULE SubnetCreate ----------------------------
(***************************************************************************)
(* NetForcePlugin.create_subnet and delete_subnet.  A subnet is a row of   *)
(* nf_subnets and an address of a vlan interface of a top-of-rack switch,  *)
(* from where routing makes it visible on the bubble (the distribution     *)
(* switches of its zone).  One database transaction is open around the     *)
(* calls to the switches, but what it has written nobody waits for, and    *)
(* nothing in the table keeps two subnets apart: the checks do.            *)
(*                                                                         *)
(* One action is one query, one exchange with one switch, or one commit.   *)
(* An order is a request that its static checks (enable_subnet, the format *)
(* of the cidr, allowed_subnet, the least reserve_ip_count) let through.   *)
(***************************************************************************)
EXTENDS Naturals, FiniteSets

CONSTANTS
    Requests,       \* POST /subnets and DELETE /subnets/<id> requests
    Cidrs,          \* blocks of addresses, each also its gateway address
    Overlapping,    \* the pairs of blocks that share an address
    Small,          \* blocks with fewer addresses than are to be reserved
    Ignored,        \* 0.0.0.0/0 and 10.0.0.0/8, where Cidrs has them
    Vlans,
    Routable,       \* vlans of an allowed vpc, their bridge group with
                    \*   exactly one switch, which is a TOR
    OsOf,           \* Vlans -> operating system of that switch
    Tables,         \* routing tables: a vrf of the switches of a bubble
    TableOf,        \* Vlans -> the table in which the vlan is routed
    Elsewhere,      \* Tables -> blocks that others advertise
    MaxSubnets,     \* max_subnets_each_interface
    Orders,         \* what requests may ask for
    InitialIfaces,  \* what the vlan interfaces may start with
    NoCidr,         \* the interface has no primary address
    Faults          \* what the environment may do, see FaultKinds

Systems == {"eos", "nxos", "junos", "ios"}

\* The query of the URL makes a create an import (skip_device) or a patch
\* (patch_primary_junos_subnets, alone or with one_subnet_only=True).
Kinds == {"create", "import", "patch", "patchone", "delete"}
Patches == {"patch", "patchone"}
Order == [kind : Kinds, cidr : Cidrs, vlan : Vlans]
Iface == [primary : Cidrs \cup {NoCidr}, others : SUBSET Cidrs]
FaultKinds == {"device", "crash"}

ASSUME CidrAssumption ==
    /\ NoCidr \notin Cidrs
    /\ IsFiniteSet(Cidrs)
    /\ Overlapping \subseteq Cidrs \X Cidrs
    /\ \A c \in Cidrs : <<c, c>> \in Overlapping
    /\ \A c, d \in Cidrs : <<c, d>> \in Overlapping => <<d, c>> \in Overlapping

ASSUME TopologyAssumption ==
    /\ Routable \subseteq Vlans
    /\ OsOf \in [Vlans -> Systems]
    /\ TableOf \in [Vlans -> Tables]
    /\ Elsewhere \in [Tables -> SUBSET Cidrs]
    /\ MaxSubnets \in Nat

ASSUME OrderAssumption ==
    /\ Orders \subseteq Order
    /\ InitialIfaces \subseteq [Vlans -> Iface]
    /\ Faults \subseteq FaultKinds

VARIABLES
    rows,       \* committed rows of nf_subnets
    iface,      \* Vlans -> addresses of the vlan interface
    routes,     \* Tables -> blocks the table has learned from the TORs
    order,      \* Requests -> what was asked
    pc,         \* Requests -> where create_subnet or delete_subnet is
    first,      \* Requests -> the driver saw an interface without addresses
    met,        \* history: pairs of requests that were active together
    added,      \* history: requests whose address the switch has taken
    left        \* history: Requests -> which failure undid nothing on it

vars == <<rows, iface, routes, order, pc, first, met, added, left>>

BeforePush == {"looked", "checked", "inserted", "prechecked", "drivable"}
AfterPush == {"pushed", "configured", "validated", "undo"}
Answered == {"ok", "error", "crashed"}
Places == {"arrive"} \cup BeforePush \cup AfterPush \cup Answered
Reasons == {"none", "driver", "undo", "small"}

Row == [by : Requests, cidr : Cidrs, vlan : Vlans]

Active(r) == pc[r] \in BeforePush \cup AfterPush

Kind(r) == order[r].kind
Cidr(r) == order[r].cidr
Vlan(r) == order[r].vlan
Os(r) == OsOf[Vlan(r)]

Overlap(c, d) == <<c, d>> \in Overlapping

\* A patch goes its own way only on Junos; elsewhere _configure_subnet_on_device
\* creates the address, without the checks create_subnet skipped for a patch.
Promotes(r) == Kind(r) \in Patches /\ Os(r) = "junos"

\* get_ip_addrs_on_interface, without the 0.0.0.0/0 that EOS shows as the
\* primary address of an interface that has none.
AddressesOf(f) == f.others \cup ({f.primary} \ {NoCidr})
Addresses(v) == AddressesOf(iface[v])

\* Mutant: the whole payload is taken for the row.
OwnRowWhole(r) == order[r]

OwnRow(r) == [by |-> r, cidr |-> Cidr(r), vlan |-> Vlan(r)]

-----------------------------------------------------------------------------
Goto(r, l) == pc' = [pc EXCEPT ![r] = l]

Blame(r, why) == left' = [left EXCEPT ![r] = why]

stores == <<rows, iface, routes>>
history == <<met, added, left>>

Init ==
    /\ rows = {}
    /\ iface \in InitialIfaces
    /\ routes = [t \in Tables |-> {}]
    /\ order \in [Requests -> Orders]
    /\ pc = [r \in Requests |-> "arrive"]
    /\ first = [r \in Requests |-> FALSE]
    /\ met = {}
    /\ added = {}
    /\ left = [r \in Requests |-> "none"]

-----------------------------------------------------------------------------
(* Queries outside the transaction.                                        *)

\* get_subnet_by_cidr and _check_subnet_mismatch: a row with this cidr answers
\* the request, whoever made it.
Lookup(r) ==
    /\ pc[r] = "arrive"
    /\ Kind(r) # "delete"
    /\ LET same == { x \in rows : x.cidr = Cidr(r) }
       IN  IF same = {}
           THEN /\ Goto(r, "looked")
                /\ met' = met \cup { {r, q} : q \in { q \in Requests : Active(q) } }
           ELSE /\ \E x \in same : Goto(r, IF x.vlan = Vlan(r) THEN "ok" ELSE "error")
                /\ UNCHANGED met
    /\ UNCHANGED <<stores, order, first, added, left>>

\* Mutant: the cidr itself is looked for, and no block around or inside it.
CheckOverlapSame(r) ==
    /\ pc[r] = "looked"
    /\ Goto(r, IF Kind(r) = "create" /\ \E x \in rows : x.cidr = Cidr(r)
               THEN "error" ELSE "checked")
    /\ UNCHANGED <<stores, order, first, history>>

\* _get_overlapping_subnet compares with what is committed now.
CheckOverlap(r) ==
    /\ pc[r] = "looked"
    /\ Goto(r, IF Kind(r) = "create" /\ \E x \in rows : Overlap(x.cidr, Cidr(r))
               THEN "error" ELSE "checked")
    /\ UNCHANGED <<stores, order, first, history>>

\* DELETE removes the row it names; the switch keeps the address.
delete_subnet(r) ==
    /\ pc[r] = "arrive"
    /\ Kind(r) = "delete"
    /\ LET same == { x \in rows : x.cidr = Cidr(r) }
       IN  IF same = {} THEN UNCHANGED rows
           ELSE \E x \in same : rows' = rows \ {x}
    /\ Goto(r, "ok")
    /\ UNCHANGED <<iface, routes, order, first, history>>

-----------------------------------------------------------------------------
(* The transaction.                                                        *)

\* skip_device: the row is all there is to it.
Import(r) ==
    /\ pc[r] = "checked"
    /\ Kind(r) = "import"
    /\ rows' = rows \cup {OwnRow(r)}
    /\ Goto(r, "ok")
    /\ UNCHANGED <<iface, routes, order, first, history>>

\* The row is flushed, its vlan loaded, and the vlan's vpc, bridge group and
\* switch are asked whether they may have subnets.
Insert(r) ==
    /\ pc[r] = "checked"
    /\ Kind(r) # "import"
    /\ Goto(r, IF Vlan(r) \in Routable THEN "inserted" ELSE "error")
    /\ UNCHANGED <<stores, order, first, history>>

\* The blocks get_routes returns and _check_cidr_overlap_on_bubble looks at.
Seen(r) == (routes[TableOf[Vlan(r)]] \cup Elsewhere[TableOf[Vlan(r)]]) \ Ignored

\* _validate_subnet_push, "pre"; a patch skips it.
PreValidate(r) ==
    /\ pc[r] = "inserted"
    /\ Goto(r, IF Kind(r) = "create" /\ \E c \in Seen(r) : Overlap(c, Cidr(r))
               THEN "error" ELSE "prechecked")
    /\ UNCHANGED <<stores, order, first, history>>

\* Mutant: one address too many is let through.
MayCreateOneMore(r) ==
    /\ Cardinality(Addresses(Vlan(r))) <= MaxSubnets
    /\ \A c \in Addresses(Vlan(r)) : ~Overlap(c, Cidr(r))

\* pre_change_validate_subnet; Junos also wants a primary address there, and
\* an EOS interface without one shows 0.0.0.0/0, which overlaps everything.
MayCreate(r) ==
    /\ Os(r) \in {"junos", "eos"} => iface[Vlan(r)].primary # NoCidr
    /\ Os(r) # "ios" =>
          /\ Cardinality(Addresses(Vlan(r))) < MaxSubnets
          /\ \A c \in Addresses(Vlan(r)) : ~Overlap(c, Cidr(r))

\* _check_patch_subnet_on_interface.  one_subnet_only comes from the URL as a
\* string, so `one_subnet_only is True` never holds and the number of addresses
\* is never looked at.
MayPromote(r) ==
    /\ Cidr(r) \in Addresses(Vlan(r))
    /\ iface[Vlan(r)].primary = NoCidr

\* What the driver reads before its command: whether it may, and whether the
\* interface is empty, which on EOS and NX-OS makes the new address primary.
DriverCheck(r) ==
    /\ pc[r] = "prechecked"
    /\ IF (IF Promotes(r) THEN MayPromote(r) ELSE MayCreate(r))
       THEN /\ Goto(r, "drivable")
            /\ first' = [first EXCEPT ![r] = Addresses(Vlan(r)) = {}]
       ELSE /\ Goto(r, "error")
            /\ UNCHANGED first
    /\ UNCHANGED <<stores, order, history>>

\* An interface f after the driver's command.  `ip address X` without
\* "secondary" replaces the primary address; set_subnet_primary moves it; the
\* IOS driver has no body.
Configured(f, r) ==
    CASE Os(r) = "ios" -> f
      [] Promotes(r) -> [primary |-> Cidr(r), others |-> AddressesOf(f) \ {Cidr(r)}]
      [] Os(r) \in {"nxos", "eos"} /\ first[r] ->
            [primary |-> Cidr(r), others |-> f.others \ {Cidr(r)}]
      [] OTHER -> [f EXCEPT !.others = @ \cup ({Cidr(r)} \ {f.primary})]

\* The command takes effect, or a faulty switch drops it.
Push(r) ==
    /\ pc[r] = "drivable"
    /\ Goto(r, "pushed")
    /\ \/ /\ iface' = [iface EXCEPT ![Vlan(r)] = Configured(@, r)]
          /\ added' = IF iface'[Vlan(r)] = iface[Vlan(r)] THEN added ELSE added \cup {r}
       \/ "device" \in Faults /\ UNCHANGED <<iface, added>>
    /\ UNCHANGED <<rows, routes, order, first, met, left>>

\* post_change_validate_subnet.
PostChange(r) ==
    /\ pc[r] = "pushed"
    /\ IF Os(r) = "ios" \/ Cidr(r) \in Addresses(Vlan(r))
       THEN Goto(r, "configured") /\ UNCHANGED left
       ELSE Goto(r, "error") /\ Blame(r, "driver")
    /\ UNCHANGED <<stores, order, first, met, added>>

\* _validate_subnet_push, "post": the block itself, once, with no wait for the
\* routing protocol to carry it there.
PostValidate(r) ==
    /\ pc[r] = "configured"
    /\ Goto(r, IF Kind(r) = "create" /\ Cidr(r) \notin Seen(r)
               THEN "undo" ELSE "validated")
    /\ UNCHANGED <<stores, order, first, history>>

\* Mutants: nothing is sent; `no ip address` is sent without the address.
UnconfiguredNot(f, r) == f
UnconfiguredAll(f, r) == [primary |-> NoCidr, others |-> {}]

\* An interface f after delete_subnet_on_device: `no ip address X secondary`
\* leaves a primary address alone.
Unconfigured(f, r) ==
    CASE Os(r) = "ios" -> f
      [] Os(r) = "junos" -> [primary |-> IF f.primary = Cidr(r) THEN NoCidr ELSE f.primary,
                             others |-> f.others \ {Cidr(r)}]
      [] OTHER -> [f EXCEPT !.others = @ \ {Cidr(r)}]

\* _delete_subnet_on_device; its failure is logged.  The transaction is rolled
\* back either way.
Undo(r) ==
    /\ pc[r] = "undo"
    /\ Goto(r, "error")
    /\ \/ /\ iface' = [iface EXCEPT ![Vlan(r)] = Unconfigured(@, r)]
          /\ Blame(r, IF first[r] THEN "undo" ELSE "none")
       \/ /\ "device" \in Faults
          /\ Blame(r, "undo")
          /\ UNCHANGED iface
    /\ UNCHANGED <<rows, routes, order, first, met, added>>

\* _set_allocation_range, then the end of the `with` block.
Allocate(r) ==
    /\ pc[r] = "validated"
    /\ IF Cidr(r) \in Small
       THEN Goto(r, "error") /\ Blame(r, "small") /\ UNCHANGED rows
       ELSE Goto(r, "ok") /\ rows' = rows \cup {OwnRow(r)} /\ UNCHANGED left
    /\ UNCHANGED <<iface, routes, order, first, met, added>>

-----------------------------------------------------------------------------
(* Failures, and the network.                                              *)

\* No distribution switch answers, or its driver fails.
BubbleFail(r) ==
    /\ "device" \in Faults
    /\ Kind(r) = "create"
    /\ \/ pc[r] = "inserted" /\ Goto(r, "error")
       \/ pc[r] = "configured" /\ Goto(r, "undo")
    /\ UNCHANGED <<stores, order, first, history>>

\* Connecting to the TOR or a command on it fails; the last command perhaps
\* after it took effect.  _configure_subnet_on_device undoes nothing.
DriverFail(r) ==
    /\ "device" \in Faults
    /\ pc[r] \in {"prechecked", "drivable", "pushed"}
    /\ Goto(r, "error")
    /\ \/ UNCHANGED <<iface, added>>
       \/ /\ pc[r] = "drivable"
          /\ iface' = [iface EXCEPT ![Vlan(r)] = Configured(@, r)]
          /\ added' = added \cup {r}
    /\ Blame(r, IF pc[r] = "prechecked" THEN "none" ELSE "driver")
    /\ UNCHANGED <<rows, routes, order, first, met>>

\* The API worker dies; the database rolls back what it had open.
Crash(r) ==
    /\ "crash" \in Faults
    /\ Active(r)
    /\ Goto(r, "crashed")
    /\ UNCHANGED <<stores, order, first, history>>

\* The addresses of the vlans routed in a table.
Advertised(t) == UNION { Addresses(v) : v \in { v \in Vlans : TableOf[v] = t } }

\* Routing carries an address to the bubble, or its absence, in its own time.
Learn(t, c) ==
    /\ c \in Advertised(t) \ routes[t]
    /\ routes' = [routes EXCEPT ![t] = @ \cup {c}]
    /\ UNCHANGED <<rows, iface, order, pc, first, history>>

Withdraw(t, c) ==
    /\ c \in routes[t] \ Advertised(t)
    /\ routes' = [routes EXCEPT ![t] = @ \ {c}]
    /\ UNCHANGED <<rows, iface, order, pc, first, history>>

create_subnet(r) ==
    \/ Lookup(r) \/ CheckOverlap(r) \/ Import(r) \/ Insert(r) \/ PreValidate(r)
    \/ DriverCheck(r) \/ Push(r) \/ PostChange(r) \/ PostValidate(r) \/ Undo(r)
    \/ Allocate(r)

Routing == \E t \in Tables, c \in Cidrs : Learn(t, c) \/ Withdraw(t, c)

Next ==
    \/ \E r \in Requests : create_subnet(r) \/ delete_subnet(r)
                           \/ BubbleFail(r) \/ DriverFail(r) \/ Crash(r)
    \/ Routing

Spec == Init /\ [][Next]_vars

-----------------------------------------------------------------------------
(* Properties.                                                             *)

\* Every variable of the create_subnet model keeps its type.
TypeOK ==
    /\ rows \subseteq Row
    /\ iface \in [Vlans -> Iface]
    /\ routes \in [Tables -> SUBSET Cidrs]
    /\ order \in [Requests -> Order]
    /\ pc \in [Requests -> Places]
    /\ first \in [Requests -> BOOLEAN]
    /\ met \subseteq SUBSET Requests
    /\ added \subseteq Requests
    /\ left \in [Requests -> Reasons]

Met(r, q) == {r, q} \in met

\* The inductive form of NoOverlap: of two active requests the later one saw
\* the earlier one active, and past its overlap check a create has only to fear
\* the rows of requests that were active when it was.
MetInv ==
    \A r, q \in Requests : r # q /\ Active(r) /\ Active(q) => Met(r, q)

CheckedInv ==
    \A r \in Requests :
        Kind(r) = "create" /\ Active(r) /\ pc[r] # "looked" =>
            \A x \in rows : Overlap(x.cidr, Cidr(r)) => Met(x.by, r)

\* _get_overlapping_subnet is check-then-act, and no unique key or lock backs
\* it: overlapping subnets made by two creates are possible, but only if the
\* two requests were being served at the same time.
NoOverlap ==
    \A x, y \in rows :
        /\ x # y /\ Overlap(x.cidr, y.cidr)
        /\ Kind(x.by) = "create" /\ Kind(y.by) = "create"
        => Met(x.by, y.by)

Disturbed(r) == \E q \in Requests \ {r} : Met(r, q)

\* A subnet that create_subnet committed is configured on the interface of its
\* vlan and stays there, whatever other requests do to that interface later:
\* a failing one undoes only its own address, a succeeding one adds.  Requests
\* that overlap in time can replace each other's primary address.
RowsConfigured ==
    \A x \in rows :
        Kind(x.by) # "import" /\ OsOf[x.vlan] # "ios" =>
            x.cidr \in Addresses(x.vlan) \/ Disturbed(x.by)

\* The address a create put on a switch has its row in nf_subnets, or a known
\* reason not to: the create is at work or its worker died, the subnet was
\* deleted since, which leaves the switch alone, or the create failed in one of
\* three ways that undo nothing: in the driver after its command, in the undo
\* (which cannot remove a primary address), or because the block is too small,
\* which is noticed last.  (Or another request has put the same address there.)
FailureExplained ==
    \A r \in added :
        Kind(r) = "create" /\ Cidr(r) \in Addresses(Vlan(r)) /\ OwnRow(r) \notin rows =>
            \/ pc[r] \in AfterPush \cup {"crashed"}
            \/ left[r] # "none"
            \/ pc[r] = "ok" /\ \E d \in Requests :
                                Kind(d) = "delete" /\ Cidr(d) = Cidr(r) /\ pc[d] = "ok"
            \/ \E q \in added \ {r} : Cidr(q) = Cidr(r) /\ Vlan(q) = Vlan(r)

\* pre_change_validate_subnet counts, then the driver pushes: an interface grows
\* past max_subnets_each_interface only when two requests for it were served at
\* the same time, so that both could count before either pushed.
WithinLimit ==
    [][\A v \in Vlans :
          Cardinality(AddressesOf(iface'[v])) > Cardinality(Addresses(v)) =>
              \/ Cardinality(AddressesOf(iface'[v])) <= MaxSubnets
              \/ \E r, q \in Requests : r # q /\ Met(r, q) /\ Vlan(r) = v /\ Vlan(q) = v]_vars

-----------------------------------------------------------------------------
(* What comments and messages of the source say, and the code does not do.  *)

\* "CIDR %s cannot be pushed to devices since we donot support subnet creation
\* for smaller subnets": a request refused with it has pushed nothing.
SmallNeverPushed ==
    \A r \in Requests : left[r] = "small" => r \notin added
=============================================================================
