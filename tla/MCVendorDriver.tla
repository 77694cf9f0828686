--------------------------- MODULE MCVendorDriver ---------------------------
(* Instances of VendorDriver for TLC: switches, interfaces and requests.    *)
EXTENDS VendorDriver, TLC

CONSTANTS all, prod

\* Two neighbours, one tag apart from them, and one that reads as another.
SomeTags == {2, 3, 5, 22}
Stands == [n \in Names |-> IF n = all THEN SomeTags ELSE {5}]

Plain == [os |-> "eos", eapi |-> TRUE, traffic |-> FALSE,
          active |-> SomeTags, suspended |-> {}]

\* One switch of each vendor as it is meant to be driven, and those whose
\* drivers refuse: no eAPI, traffic checked, vlans missing or suspended.
AllSwitches ==
    { [Plain EXCEPT !.os = os] : os \in {"eos", "nxos", "junos", "ios"} }
        \cup { [Plain EXCEPT !.eapi = FALSE],
               [Plain EXCEPT !.os = "nxos", !.traffic = TRUE],
               [Plain EXCEPT !.active = {2, 3}, !.suspended = {22}],
               [Plain EXCEPT !.os = "junos", !.active = {2, 3, 5}, !.suspended = {22}] }

Trunk(trunk, native) ==
    [mode |-> "trunk", access |-> NoVlan, trunk |-> trunk, native |-> native,
     off |-> FALSE, label |-> "server"]

\* A trunk of two tags, of none, of a tag and a name, an open trunk whose label
\* speaks of a shutdown, and an access port that is shut.
SomeConfigs ==
    { Trunk({2, 5}, 2), Trunk({}, 2), Trunk({2, prod}, 2),
      [Trunk({all}, 2) EXCEPT !.label = "shutdown-soon"],
      [Trunk({}, NoVlan) EXCEPT !.mode = "access", !.access = 3, !.off = TRUE] }

Nothing == [kind |-> "admin", off |-> FALSE, label |-> "server", mode |-> "trunk",
            vlans |-> {}, native |-> NoVlan]

Trunked(vlans, native) ==
    [Nothing EXCEPT !.kind = "flip", !.vlans = vlans, !.native = native]
Accessed(vlans) == [Nothing EXCEPT !.kind = "flip", !.mode = "access", !.vlans = vlans]

\* Enable, disable, two labels, and flips: a trunk the interfaces start with,
\* one with neighbours, one of two digits, one without a native vlan,
\* and access vlans of one digit and of two.
SomeOps ==
    { Nothing, [Nothing EXCEPT !.off = TRUE],
      [Nothing EXCEPT !.kind = "label", !.label = "shutdown-soon"],
      [Nothing EXCEPT !.kind = "label"],
      Trunked({2, 5}, 2), Trunked({2, 3}, 3), Trunked({5, 22}, 5),
      Trunked({2, 5}, NoVlan), Accessed({2}), Accessed({22}) }

AdminOps == { Nothing, [Nothing EXCEPT !.off = TRUE] }
OneEos == {Plain}

Symmetry == Permutations(Requests)
=============================================================================
