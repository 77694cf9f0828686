---------------------------- MODULE MCPortUpdate ----------------------------
(* Instances of PortUpdate for TLC: payloads and initial rows.             *)
EXTENDS PortUpdate, TLC

CONSTANTS p1, p2, a1, a2, v1, v2, vBad

\* The access vlan v1 reads as the tag of the trunk v2; an empty trunk keeps a
\* native vlan, and a list the bridge group does not know has two tags.
SomeTags == (v1 :> {22}) @@ (v2 :> {2}) @@ (vBad :> {2, 3}) @@ (NoVlans :> {})
SomeNatives == (v1 :> NoTag) @@ (v2 :> 2) @@ (vBad :> NoTag) @@ (NoVlans :> 2)

\* The driver of each port.
AnyDriver == [Ports -> Systems]
EosAndNexus == { (p1 :> "eos") @@ (p2 :> "nxos") }
IosAndNexus == { (p1 :> "ios") @@ (p2 :> "nxos") }
Mixed == EosAndNexus \cup IosAndNexus
Nexus == { [p \in Ports |-> "nxos"] }

\* The keys a payload leaves out are Absent.
Nothing == [admin |-> Absent, label |-> Absent, mode |-> Absent, vlans |-> Absent]

Sent(change, withMac) == [change |-> change, mac |-> withMac]

SetTo(a) == [Nothing EXCEPT !.admin = a]
Label(l) == [Nothing EXCEPT !.label = l]
Flip(m, v) == [Nothing EXCEPT !.mode = m, !.vlans = v]
Flipped(m, v, l) == [Flip(m, v) EXCEPT !.label = l]

\* Enable, disable and label, together and apart; one disable without a mac.
AdminPayloads ==
    { Sent(SetTo("ACTIVE"), TRUE), Sent(SetTo("SUSPENDED"), TRUE),
      Sent(SetTo("SUSPENDED"), FALSE), Sent(Label(a1), FALSE),
      Sent([SetTo("SUSPENDED") EXCEPT !.label = a2], TRUE) }

\* Flips to either mode, with a mac, to a vlan the bridge group has not, with
\* a label, a label alone (which may be the one the flip gives up), a mode alone,
\* half a payload, and the enable/disable they race with.
FlipPayloads ==
    { Sent(Flip("access", v1), FALSE), Sent(Flip("trunk", v2), FALSE),
      Sent(Flip("access", v2), TRUE), Sent(Flip("access", vBad), FALSE),
      Sent(Flipped("trunk", v2, a2), FALSE), Sent(Label(a1), FALSE),
      Sent(Flip("access", NoVlans), FALSE),
      Sent([Nothing EXCEPT !.mode = "access"], FALSE),
      Sent(SetTo("SUSPENDED"), TRUE), Sent(SetTo("ACTIVE"), TRUE) }

\* The first of them only: enough for a run of one or two flips.
PlainFlips == { Sent(Flip("access", v1), FALSE), Sent(Flip("trunk", v2), FALSE) }

\* Both kinds of change meet on one port: what the liveness run races.
MixedPayloads ==
    { Sent(Flip("access", v1), FALSE), Sent(Flip("trunk", v2), FALSE),
      Sent(SetTo("SUSPENDED"), TRUE), Sent(SetTo("ACTIVE"), TRUE),
      Sent(Label(a1), FALSE) }

Fresh == [admin |-> "ACTIVE", label |-> NoLabel, mode |-> "trunk", vlans |-> v2]
InUse == [admin |-> "SUSPENDED", label |-> a1, mode |-> "access", vlans |-> v1]
Open == [admin |-> "ACTIVE", label |-> a1, mode |-> "access", vlans |-> v1]
Empty == [admin |-> "ACTIVE", label |-> a2, mode |-> "trunk", vlans |-> NoVlans]

OneRow == {Fresh}
SomeRows == {Fresh, InUse, Empty}
FlipRows == {Fresh, Open, Empty, InUse}

Symmetry == Permutations(Requests)
=============================================================================
