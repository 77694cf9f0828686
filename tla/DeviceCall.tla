------------------------------ MODULE DeviceCall ------------------------------
(***************************************************************************)
(* What the plugin relies on when it calls a vendor driver: the abstract   *)
(* view of enable_interface, disable_interface, update_interface_label and *)
(* update_switch_port_vlans on one interface.  A call is asked once and    *)
(* answered once.  A part of the interface changes only while a call is    *)
(* outstanding, and only a part that some call not answered "ok" asked     *)
(* for: "ok" is final.  A reload of the switch falls back to what was      *)
(* saved, and only an outstanding call saves.                              *)
(***************************************************************************)
CONSTANTS
    Requests,   \* the calls
    Parts,      \* what a call may ask to change: "admin", "label", "flip"
    Interfaces  \* what an interface may be: functions with domain Parts

VARIABLES
    iface,      \* one of Interfaces: the running configuration
    saved,      \* one of Interfaces: what a reload falls back to
    asked,      \* Requests -> the part asked for, or "none"
    answer      \* Requests -> "none", "ok" or "failed"

vars == <<iface, saved, asked, answer>>

TypeOK ==
    /\ iface \in Interfaces
    /\ saved \in Interfaces
    /\ asked \in [Requests -> Parts \cup {"none"}]
    /\ answer \in [Requests -> {"none", "ok", "failed"}]

Init ==
    /\ iface \in Interfaces
    /\ saved = iface
    /\ asked = [r \in Requests |-> "none"]
    /\ answer = [r \in Requests |-> "none"]

Outstanding(r) == asked[r] # "none" /\ answer[r] = "none"

Ask(r) ==
    /\ asked[r] = "none"
    /\ \E p \in Parts : asked' = [asked EXCEPT ![r] = p]
    /\ UNCHANGED <<iface, saved, answer>>

\* The parts a change may reach.
Open == { asked[q] : q \in { r \in Requests : answer[r] # "ok" } }

\* A call changes the interface, saves it, and may be answered in one step.
Work(r) ==
    /\ Outstanding(r)
    /\ iface' \in Interfaces
    /\ \A p \in Parts : iface'[p] # iface[p] => p \in Open
    /\ saved' \in {saved, iface'}
    /\ \E a \in {"none", "ok", "failed"} : answer' = [answer EXCEPT ![r] = a]
    /\ UNCHANGED asked

\* The switch restarts; calls that were talking to it may fail.
Reload ==
    /\ iface' = saved
    /\ \E lost \in SUBSET { r \in Requests : Outstanding(r) } :
        answer' = [r \in Requests |-> IF r \in lost THEN "failed" ELSE answer[r]]
    /\ UNCHANGED <<saved, asked>>

Next ==
    \/ \E r \in Requests : Ask(r) \/ Work(r)
    \/ Reload

Spec == Init /\ [][Next]_vars
=============================================================================
