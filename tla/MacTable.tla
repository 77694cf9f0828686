------------------------------- MODULE MacTable -------------------------------
(***************************************************************************)
(* Which MAC addresses a switch port has: get_mac_addresses_on_interface   *)
(* of the four drivers, and NetForcePlugin's check of a server's address   *)
(* before it touches the port.                                             *)
(*                                                                         *)
(* The EOS and IOS drivers read the table as text, line by line.  What a   *)
(* line is read as depends on the number of its words; some of the Python  *)
(* variables keep what an earlier line left in them.  NX-OS and Junos      *)
(* answer in rows.  A line is abstracted to its shape, the number of its   *)
(* words and what it says; several ports stand in it joined by commas.     *)
(***************************************************************************)
EXTENDS Naturals, Sequences, FiniteSets

CONSTANTS
    Systems,    \* the kinds of switch
    Macs,       \* MAC addresses
    Vlans,      \* vlan numbers
    NoVlan,     \* the caller names no vlan
    Ports,      \* ports of the switch
    This,       \* the port that is asked about
    Lines,      \* what a switch may print
    MaxLines    \* bound on the lines of a table

Shapes == {"entry", "macfirst", "fill", "noise", "odd", "row"}

Line ==
    [shape : Shapes, words : Nat, vlan : Vlans, mac : Macs, ports : SUBSET Ports]

ASSUME MacAssumption ==
    /\ Systems \subseteq {"eos", "ios", "nxos", "junos"}
    /\ NoVlan \notin Vlans
    /\ This \in Ports
    /\ IsFiniteSet(Ports)
    /\ Lines \subseteq Line
    /\ MaxLines \in Nat

VARIABLES
    os,         \* the kind of switch
    short,      \* the port's name is one the driver can shorten as the switch does
    asked,      \* the vlan the caller names
    printed,    \* the lines read so far
    table,      \* mac_address_table: what they were read as
    last,       \* what vlan, mac and interface hold, {} while they are unbound
    fill,       \* fill_down_*: the last entry with several ports, or {}
    outcome,    \* "reading", "error", "read", then "accepted" or "refused"
    result,     \* the entries the driver returns, in no order
    server      \* the address to check

vars == <<os, short, asked, printed, table, last, fill, outcome, result, server>>

\* An entry of the table.  If `split` the ports have an entry each.
Entry == [mac : Macs, vlan : Vlans, ports : SUBSET Ports, split : BOOLEAN]

TypeOK ==
    /\ os \in Systems /\ short \in BOOLEAN /\ asked \in Vlans \cup {NoVlan}
    /\ printed \in Seq(Lines) /\ Len(printed) <= MaxLines
    /\ table \in Seq(Entry) /\ result \subseteq Entry
    /\ last \subseteq Entry /\ Cardinality(last) <= 1
    /\ fill \subseteq Entry /\ Cardinality(fill) <= 1
    /\ outcome \in {"reading", "error", "read", "accepted", "refused"}
    /\ server \in Macs

Init ==
    /\ os \in Systems /\ short \in BOOLEAN /\ asked \in Vlans \cup {NoVlan}
    /\ server \in Macs
    /\ printed = <<>> /\ table = <<>> /\ result = {}
    /\ last = {} /\ fill = {}
    /\ outcome = "reading"

Text == os \in {"eos", "ios"}

\* What the switch prints for the driver's command: EOS and NX-OS are asked for
\* the vlan or for the port, Junos for both, IOS for everything.  An entry may
\* continue on lines of its own.
Prints(line) ==
    /\ Text <=> line.shape # "row"
    /\ line.shape \in {"entry", "macfirst", "row"} =>
        CASE os = "ios" -> TRUE
          [] os = "junos" -> This \in line.ports /\ asked \in {NoVlan, line.vlan}
          [] OTHER -> IF asked = NoVlan THEN This \in line.ports ELSE line.vlan = asked
    /\ line.shape = "fill" =>
        printed # <<>> /\ printed[Len(printed)].shape \in {"entry", "fill"}

\* The next line has this shape and so many words.
NextLine(line, shapes, words) ==
    /\ outcome = "reading" /\ Len(printed) < MaxLines
    /\ line \in Lines /\ Prints(line)
    /\ line.shape \in shapes /\ line.words \in words
    /\ printed' = Append(printed, line)

Given == <<os, short, asked, result, server>>

\* ValueError, UnboundLocalError.
Fails == outcome' = "error" /\ UNCHANGED <<table, last, fill>>

\* An entry, as the code finds it in the line.
Of(line, split) == [mac |-> line.mac, vlan |-> line.vlan, ports |-> line.ports, split |-> split]

\* Mutant: earlier entries are not forgotten.
FillsMany(e) == IF Cardinality(e.ports) > 1 THEN fill \cup {e} ELSE fill

\* fill_down_* are set by an entry with a comma in its ports.
Fills(e) == IF Cardinality(e.ports) > 1 THEN {e} ELSE fill

Adds(e) ==
    /\ table' = Append(table, e)
    /\ last' = {e}
    /\ UNCHANGED outcome

-----------------------------------------------------------------------------
(* Reading lines.                                                          *)

\* A line of ports only continues the entry in fill_down_*, which need not be
\* the one before it; without one, int('') fails.
FillDown(line) ==
    /\ NextLine(line, {"fill"}, Nat)
    /\ IF fill = {} THEN Fails
       ELSE /\ \E e \in fill : table' = Append(table, [e EXCEPT !.ports = line.ports, !.split = TRUE])
            /\ last' = { [e EXCEPT !.ports = line.ports] : e \in last }
            /\ UNCHANGED <<fill, outcome>>
    /\ UNCHANGED Given

\* Blank lines, headers and totals.
Skip(line) ==
    /\ NextLine(line, {"noise"}, Nat)
    /\ UNCHANGED <<table, last, fill, outcome>>
    /\ UNCHANGED Given

\* "Unexpected output from".
Odd(line) ==
    /\ \/ NextLine(line, {"odd"}, Nat)
       \/ NextLine(line, {"macfirst"}, Nat \ {4})
       \/ NextLine(line, {"entry"}, 0..3)
    /\ Fails
    /\ UNCHANGED Given

\* Format1, and the five words of a Cat4500: ports are not split.
Whole(line) ==
    /\ NextLine(line, {"macfirst"}, {4}) \/ NextLine(line, {"entry"}, {5})
    /\ Adds(Of(line, FALSE))
    /\ UNCHANGED fill
    /\ UNCHANGED Given

\* Where a driver finds the ports in a line of six words or more.
Widths == IF os = "eos" THEN {6, 9} ELSE {6}

\* Four words, and the longer lines a driver can take apart: seven are an entry
\* of six behind an asterisk, which is still there when the line is indented.
Split(line) ==
    /\ NextLine(line, {"entry"}, {4, 7} \cup Widths)
    /\ Adds(Of(line, TRUE))
    /\ fill' = Fills(Of(line, TRUE))
    /\ UNCHANGED Given

\* An asterisk at the start of the line has been stripped, and what stands in the
\* place of the vlan of seven other words is not a number.
Shifted(line) ==
    /\ NextLine(line, {"entry"}, {7})
    /\ Fails
    /\ UNCHANGED Given

\* Any other number of words: nothing is unpacked, and the entry before it is
\* added once more.
Stale(line) ==
    /\ NextLine(line, {"entry"}, Nat \ (0..7 \cup Widths))
    /\ IF last = {} THEN Fails
       ELSE \E e \in last : Adds([e EXCEPT !.split = TRUE]) /\ fill' = Fills(e)
    /\ UNCHANGED Given

\* A row of NX-OS or Junos.
Row(line) ==
    /\ NextLine(line, {"row"}, Nat)
    /\ Adds(Of(line, FALSE))
    /\ UNCHANGED fill
    /\ UNCHANGED Given

-----------------------------------------------------------------------------
(* The end of the table.                                                   *)

\* Mutant: the vlan the caller named selects entries, too.
MatchesVlan(e) == (short /\ This \in e.ports) \/ e.vlan = asked

\* `vlan` holds the text of the last line by now, and a text is never equal to
\* the number in the table: only the name of the port selects an entry, as the
\* driver shortens it.
Matches(e) == short /\ IF e.split THEN This \in e.ports ELSE e.ports = {This}

Found == { i \in DOMAIN table : Matches(table[i]) }

\* IOS stops at the first entry; it is none if nothing matches.
First == { i \in Found : \A j \in Found : i <= j }

\* Mutant: EOS stops at the first entry, too.
ReturnedFirst == { table[i] : i \in IF Text THEN First ELSE DOMAIN table }

\* NX-OS and Junos return what they are given.
Returned ==
    { table[i] : i \in CASE os = "eos" -> Found
                         [] os = "ios" -> First
                         [] OTHER -> DOMAIN table }

EndRead ==
    /\ outcome = "reading"
    /\ result' = Returned
    /\ outcome' = "read"
    /\ UNCHANGED <<os, short, asked, printed, table, last, fill, server>>

Addresses == { e.mac : e \in result }

\* Junos has one item for a vlan, in which several addresses are a list, and a
\* list is no address.
Crowded ==
    os = "junos" /\ \E e, f \in result : e.vlan = f.vlan /\ e.mac # f.mac

\* Mutant: an empty table refuses every address.
AcceptsSeen == server \in Addresses

\* `if not macs: return`
Accepts == Addresses = {} \/ server \in Addresses

\* _check_mac.
CheckMac ==
    /\ outcome = "read"
    /\ outcome' = IF Crowded THEN "error" ELSE IF Accepts THEN "accepted" ELSE "refused"
    /\ UNCHANGED <<os, short, asked, printed, table, last, fill, result, server>>

Read(line) ==
    \/ FillDown(line) \/ Skip(line) \/ Odd(line) \/ Whole(line)
    \/ Split(line) \/ Shifted(line) \/ Stale(line) \/ Row(line)

Next ==
    \/ \E line \in Lines : Read(line)
    \/ EndRead
    \/ CheckMac

Spec == Init /\ [][Next]_vars
-----------------------------------------------------------------------------
(* Properties.                                                             *)

\* The entry that line i belongs to: itself, or the one a line of ports goes on.
Owner(i) ==
    CHOOSE j \in 1..i : /\ printed[j].shape # "fill"
                        /\ \A k \in j+1..i : printed[k].shape = "fill"

\* The addresses the switch has said to be on the port.
Present ==
    { printed[Owner(i)].mac : i \in { k \in DOMAIN printed :
        printed[k].shape \in {"entry", "macfirst", "fill", "row"} /\ This \in printed[k].ports } }

\* Lines the driver misreads: too wide, or continuing an entry of one port.
Misread ==
    \E i \in DOMAIN printed :
        \/ printed[i].shape = "entry" /\ printed[i].words > 7 /\ printed[i].words \notin Widths
        \/ printed[i].shape = "fill"
            /\ (Cardinality(printed[Owner(i)].ports) < 2 \/ printed[Owner(i)].words = 5)

\* Entries whose ports stay joined.
Joined ==
    \E i \in DOMAIN printed :
        /\ (printed[i].shape = "entry" /\ printed[i].words = 5) \/ printed[i].shape = "macfirst"
        /\ Cardinality(printed[i].ports) > 1

Answered == outcome \in {"read", "accepted", "refused"}

\* A driver never returns an address of another port, unless NX-OS was asked
\* for a whole vlan or the text was misread (get_mac_addresses_on_interface).
NothingForeign ==
    Answered /\ ~Misread /\ ~(os = "nxos" /\ asked # NoVlan)
        => Addresses \subseteq Present

\* A driver returns every address of the port, in each of the layouts it knows,
\* unless it does not know the port's short name, is IOS, which returns one,
\* or the layout keeps several ports joined.
NothingMissing ==
    Answered /\ ~Misread /\ ~Joined /\ (Text => short)
        => IF os = "ios" THEN Present # {} => Addresses # {} ELSE Present \subseteq Addresses

\* The plugin refuses a server that is on the port only after an IOS switch has
\* shown another one there, or the table was misread; it accepts one that is
\* not there only if the driver saw nothing or NX-OS was asked for a vlan.
CheckMeansPresence ==
    /\ outcome = "refused" /\ server \in Present => os = "ios" \/ Misread \/ Joined
    /\ outcome = "accepted" /\ server \notin Present =>
        Addresses = {} \/ Misread \/ (os = "nxos" /\ asked # NoVlan)
=============================================================================
