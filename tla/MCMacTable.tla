------------------------------ MODULE MCMacTable ------------------------------
(* Instances of MacTable for TLC: the lines a switch may print.             *)
EXTENDS MacTable, TLC

CONSTANTS m1, m2, this, other

Entries(words, ports) ==
    { [shape |-> "entry", words |-> words, vlan |-> 1, mac |-> mac, ports |-> ports] :
        mac \in {m1, m2} }

Shaped(shape, words, ports) ==
    [shape |-> shape, words |-> words, vlan |-> 1, mac |-> m2, ports |-> ports]

\* Each number of words on one port, the layouts that may join ports with two,
\* an entry of another vlan, continuations, and lines without an entry.
TextLines ==
    UNION { Entries(4, {this}), Entries(4, {this, other}), Entries(5, {this}), Entries(6, {other}) }
        \cup { [shape |-> "entry", words |-> n, vlan |-> 1, mac |-> m1, ports |-> {this}] : n \in 7..9 }
        \cup { [shape |-> "entry", words |-> 6, vlan |-> 2, mac |-> m2, ports |-> {this}],
               Shaped("entry", 5, {this, other}), Shaped("entry", 9, {this, other}),
               Shaped("macfirst", 4, {this}), Shaped("macfirst", 4, {this, other}),
               Shaped("macfirst", 5, {this}), Shaped("fill", 1, {this}), Shaped("fill", 1, {other}),
               Shaped("noise", 3, {}), Shaped("odd", 3, {}), Shaped("entry", 3, {this}) }

Rows == [shape : {"row"}, words : {0}, vlan : {1, 2}, mac : {m1, m2}, ports : { {this}, {other} }]

SomeLines == TextLines \cup Rows
=============================================================================
