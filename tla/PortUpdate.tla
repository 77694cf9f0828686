----------------------------- MODULE PortUpdate -----------------------------
(***************************************************************************)
(* NetForcePlugin.update_port: several API requests change the same ports  *)
(* at the same time.  Each request moves a port in two stores that no      *)
(* common transaction covers:                                              *)
(*   db   what the port should be (the source calls it WISB): the nf_ports *)
(*        row and its vlan associations;                                   *)
(*   dev  what the port is (WIRI): the interface on the switch.            *)
(* Port enable/disable and labelling push to the device INSIDE the         *)
(* database transaction; a vlan flip pushes AFTER it has committed and     *)
(* undoes the committed rows when the push fails.                          *)
(*                                                                         *)
(* One action is one interval in which the request neither talks to the    *)
(* database nor to the device more than once.  The row lock is the one     *)
(* InnoDB takes on the port row and its associations at the first write    *)
(* of a transaction and keeps to its end.                                  *)
(*                                                                         *)
(* What a request asks the switch, and what it believes of the answer,     *)
(* depends on the driver of the port: each port has the operating system   *)
(* of its device.  Junos is left to VendorDriver: its candidate ties all   *)
(* ports of a switch together.                                             *)
(***************************************************************************)
EXTENDS Naturals

CONSTANTS
    Ports,          \* the ports of the deployment
    Requests,       \* PUT /ports/<id> requests in flight
    Deployments,    \* the drivers (Ports -> Systems) a run may meet
    Labels,         \* interface descriptions
    OffLabels,      \* those that contain the word a driver takes for "shut"
    Vlans,          \* vlan lists: each a set of tags, one perhaps native
    TagsOf,         \* the tags of a list
    NativeOf,       \* its native vlan
    NoTag,          \* it has none
    KnownVlans,     \* the lists whose tags exist on the port's bridge group
    NoVlans,        \* the empty list
    NoLabel,        \* the label column is NULL
    Absent,         \* the key is not in the payload
    NoReq,          \* nobody holds the lock
    Payloads,       \* bodies clients may send
    InitialRows,    \* rows (equal in both stores) a port may start with
    Faults,         \* what the environment may inject, see FaultKinds
    MaxDeadlocks    \* bound: DBDeadlock errors one request meets

AdminStates == {"ACTIVE", "SUSPENDED"}
Modes == {"access", "trunk"}
Systems == {"eos", "nxos", "ios"}
FaultKinds == {"device", "link", "crash", "dbdeadlock"}

Scalars == {"admin", "label", "mode"}       \* columns of nf_ports
Columns == Scalars \cup {"vlans"}           \* and the association table

Value == AdminStates \cup Modes \cup Labels \cup {NoLabel} \cup Vlans \cup {NoVlans}

Row == { row \in [Columns -> Value] :
            /\ row["admin"] \in AdminStates
            /\ row["label"] \in Labels \cup {NoLabel}
            /\ row["mode"] \in Modes
            /\ row["vlans"] \in Vlans \cup {NoVlans} }

Body == { b \in [Columns -> Value \cup {Absent}] :
            /\ b["admin"] \in AdminStates \cup {Absent}
            /\ b["label"] \in Labels \cup {Absent}
            /\ b["mode"] \in Modes \cup {Absent}
            /\ b["vlans"] \in Vlans \cup {NoVlans, Absent} }

Payload == [change : Body, mac : BOOLEAN]

ASSUME SentinelAssumption ==
    /\ NoReq \notin Requests
    /\ Absent \notin Value
    /\ NoVlans \notin Vlans
    /\ NoLabel \notin Labels

ASSUME InputAssumption ==
    /\ Deployments \subseteq [Ports -> Systems]
    /\ OffLabels \subseteq Labels
    /\ TagsOf \in [Vlans \cup {NoVlans} -> SUBSET Nat]
    /\ \A v, w \in Vlans \cup {NoVlans} :
          TagsOf[v] = TagsOf[w] /\ NativeOf[v] = NativeOf[w] => v = w
    /\ Payloads \subseteq Payload
    /\ InitialRows \subseteq Row
    /\ Faults \subseteq FaultKinds
    /\ MaxDeadlocks \in Nat

VARIABLES
    db, dev,    \* Ports -> Row
    lock,       \* Ports -> the request whose transaction has written the port
    os,         \* Ports -> the operating system of the device, which stays
    port,       \* Requests -> the port named in the URL
    pc,         \* Requests -> where update_port is
    body,       \* Requests -> what is left of the payload
    mac,        \* Requests -> whether the payload still has a mac_address
    image,      \* Requests -> current_port_data; its scalars are also the
                \*   attributes the ORM loaded, which UPDATEs are diffed with
    loaded,     \* Requests -> the attributes the ORM reloads after commit
    before,     \* Requests -> running config the driver saw before a push
    retries,    \* Requests -> times wrap_db_retry has called update_port again
    causes      \* history only: what may have separated the stores of a port

vars == <<db, dev, lock, os, port, pc, body, mac, image, loaded, before, retries, causes>>

WriteHeld == {"written", "adminApplied", "adminDone", "labelDone"}
InTxn == {"imaged"} \cup WriteHeld
AfterCommit == {"committed", "reread", "prechecked", "applied", "rollback"}
Answered == {"ok", "error", "crashed"}
Places == {"arrive", "loaded"} \cup InTxn \cup AfterCommit \cup Answered
Causes == {"overlap", "aborted", "masked", "offlabel", "halflabel", "nolabel",
           "modeonly", "mac", "crashed", "misread", "unconfirmed", "halfpushed",
           "lostvlans", "staleadmin", "rolledlabel", "labeltaken"}

Active(r) == pc[r] \notin {"arrive"} \cup Answered

-----------------------------------------------------------------------------
(* The payload.                                                            *)

\* `if vlans`: an empty list is as false as a missing one.
HasVlans(r) == body[r]["vlans"] \notin {Absent, NoVlans}

\* Mutant: half a switchport payload is let through.
ValidPayloadLax(r) == ~(HasVlans(r) /\ body[r]["admin"] # Absent)

\* _validate_vlans and the two checks after it.
ValidPayload(r) ==
    /\ (body[r]["vlans"] = Absent) <=> (body[r]["mode"] = Absent)
    /\ ~(HasVlans(r) /\ body[r]["admin"] # Absent)

\* Mutants: keys that are not in the payload are written too; the label is
\* pushed but not stored.
DirtyUnlessEqual(r) ==
    { c \in Scalars : body[r][c] # image[r][c] } \cup (IF HasVlans(r) THEN {"vlans"} ELSE {})
DirtyNoLabel(r) ==
    { c \in Scalars \ {"label"} : body[r][c] # Absent /\ body[r][c] # image[r][c] }
        \cup (IF HasVlans(r) THEN {"vlans"} ELSE {})

\* The columns a flush writes: those that differ from what the ORM loaded,
\* and the associations, which are deleted and created again.
Dirty(r) ==
    { c \in Scalars : body[r][c] # Absent /\ body[r][c] # image[r][c] }
        \cup (IF HasVlans(r) THEN {"vlans"} ELSE {})

\* "only call enable/disable device if WISB is mismatch"
AdminNeeded(r) == "admin" \in Dirty(r)

\* Mutant: the revert repeats the command it should undo.
SameAgain(a) == a

Other(a) == IF a = "ACTIVE" THEN "SUSPENDED" ELSE "ACTIVE"

-----------------------------------------------------------------------------
(* Pieces of steps.                                                        *)

Goto(r, l) == pc' = [pc EXCEPT ![r] = l]

\* Mutant: an abandoned transaction stays open.
ReleaseNever(r) == UNCHANGED lock

Release(r) == lock' = [lock EXCEPT ![port[r]] = IF @ = r THEN NoReq ELSE @]

Note(r, why) == causes' = [causes EXCEPT ![port[r]] = @ \cup why]

\* update_interface_label of the IOS driver is `pass`.
PushesLabel(r) == body[r]["label"] # Absent /\ os[port[r]] # "ios"

\* What the open transaction of r has pushed to the device.
Touched(r) ==
    (IF pc[r] \in {"adminApplied", "adminDone", "labelDone"} /\ AdminNeeded(r)
     THEN {"aborted"} ELSE {})
        \cup (IF pc[r] = "labelDone" /\ PushesLabel(r) THEN {"halflabel"} ELSE {})

\* An exception leaves the `with` block: the transaction rolls back.
Abort(r, answer) ==
    /\ Goto(r, answer)
    /\ Release(r)
    /\ Note(r, Touched(r))
    /\ UNCHANGED db

\* The columns S of a row, taken from what the payload asks for.
Overlay(row, r, S) == [c \in Columns |-> IF c \in S THEN body[r][c] ELSE row[c]]

\* A driver call that configures the interface as the payload asks.
Configure(r, S) == dev' = [dev EXCEPT ![port[r]] = Overlay(@, r, S)]

\* The migrations make nf_ports.label unique.  An UPDATE to a label fails if
\* another port has it, and waits for a transaction that gives or takes it.
LabelUsed(r, l) == \E p \in Ports \ {port[r]} : db[p]["label"] = l
LabelBusy(r, l) ==
    \E q \in Requests \ {r} :
        /\ pc[q] \in WriteHeld /\ port[q] # port[r]
        /\ "label" \in Dirty(q)
        /\ l \in {body[q]["label"], db[port[q]]["label"]}
LabelFree(r, l) == ~LabelUsed(r, l) /\ ~LabelBusy(r, l)

\* What update_switch_port_vlans_on_device configures.
Switchport == {"mode", "vlans"}

locals == <<os, port, body, mac, image, loaded, before, retries>>

Init ==
    /\ db \in [Ports -> InitialRows]
    /\ \A p, q \in Ports : p # q /\ db[p]["label"] = db[q]["label"] => db[p]["label"] = NoLabel
    /\ dev = db
    /\ lock = [p \in Ports |-> NoReq]
    /\ os \in Deployments
    /\ port \in [Requests -> Ports]
    /\ pc = [r \in Requests |-> "arrive"]
    /\ \E sent \in [Requests -> Payloads] :
          /\ body = [r \in Requests |-> sent[r].change]
          /\ mac = [r \in Requests |-> sent[r].mac]
    /\ image = [r \in Requests |-> db[port[r]]]
    /\ loaded = [r \in Requests |-> db[port[r]]]
    /\ before = [r \in Requests |-> db[port[r]]]
    /\ retries = [r \in Requests |-> 0]
    /\ causes = [p \in Ports |-> {}]

-----------------------------------------------------------------------------
(* Before and at the start of the transaction.                             *)

\* BadRequest or PortFlipAndPortEnableDisableNotSupportedAtSameTime.
Reject(r) ==
    /\ pc[r] = "arrive"
    /\ ~ValidPayload(r)
    /\ Goto(r, "error")
    /\ UNCHANGED <<db, dev, lock, causes, locals>>

\* get_port_db, outside any transaction.  Nothing refreshes these attributes
\* until the session is expired after the commit.
LoadPort(r) ==
    /\ pc[r] = "arrive"
    /\ ValidPayload(r)
    /\ image' = [image EXCEPT ![r] = [db[port[r]] EXCEPT !["vlans"] = NoVlans]]
    /\ Goto(r, "loaded")
    /\ Note(r, IF \E q \in Requests \ {r} : port[q] = port[r] /\ Active(q)
               THEN {"overlap"} ELSE {})
    /\ UNCHANGED <<db, dev, lock, os, port, body, mac, loaded, before, retries>>

\* make_port_dict(current_port_db): the scalars are the loaded ones, the
\* associations are read now, by the transaction's first SELECT.
TakeImage(r) ==
    /\ pc[r] = "loaded"
    /\ image' = [image EXCEPT ![r] = [@ EXCEPT !["vlans"] = db[port[r]]["vlans"]]]
    /\ Goto(r, "imaged")
    /\ UNCHANGED <<db, dev, lock, causes, os, port, body, mac, loaded, before, retries>>

\* Mutant: the write does not keep the row locked while the device is pushed.
WriteRowUnlocked(r) ==
    /\ pc[r] = "imaged"
    /\ HasVlans(r) => body[r]["vlans"] \in KnownVlans
    /\ Goto(r, "written")
    /\ UNCHANGED <<db, dev, lock, causes, locals>>

\* netforce_model.update_port and _update_vlan_association.  What changed is
\* flushed, so the row stays locked from here to the end of the transaction.
WriteRow(r) ==
    /\ pc[r] = "imaged"
    /\ IF Dirty(r) = {} THEN UNCHANGED lock
       ELSE /\ lock[port[r]] = NoReq
            /\ lock' = [lock EXCEPT ![port[r]] = r]
    /\ "label" \in Dirty(r) => LabelFree(r, body[r]["label"])
    /\ HasVlans(r) => body[r]["vlans"] \in KnownVlans
    /\ Goto(r, "written")
    /\ UNCHANGED <<db, dev, causes, locals>>

\* DBDuplicateEntry from the flush, which update_port does not catch.
LabelTaken(r) ==
    /\ pc[r] = "imaged"
    /\ "label" \in Dirty(r)
    /\ lock[port[r]] = NoReq
    /\ LabelUsed(r, body[r]["label"]) /\ ~LabelBusy(r, body[r]["label"])
    /\ Abort(r, "error")
    /\ UNCHANGED <<dev, locals>>

\* A tag, id or vpc_name names no vlan of the bridge group: BadRequest.
UnknownVlan(r) ==
    /\ pc[r] = "imaged"
    /\ HasVlans(r) /\ body[r]["vlans"] \notin KnownVlans
    /\ lock[port[r]] = NoReq
    /\ Abort(r, "error")
    /\ UNCHANGED <<dev, locals>>

\* InnoDB picks this transaction as a victim while it waits for a lock, and
\* wrap_db_retry calls update_port again with the SAME dict, from which the
\* first call has popped the mac address and the vlans.
Deadlock(r) ==
    /\ "dbdeadlock" \in Faults
    /\ pc[r] = "imaged"
    /\ Dirty(r) # {}
    /\ retries[r] < MaxDeadlocks
    /\ retries' = [retries EXCEPT ![r] = @ + 1]
    /\ body' = [body EXCEPT ![r] = [@ EXCEPT !["vlans"] = Absent]]
    /\ mac' = [mac EXCEPT ![r] = FALSE]
    /\ Goto(r, "arrive")
    /\ UNCHANGED <<db, dev, lock, causes, os, port, image, loaded, before>>

-----------------------------------------------------------------------------
(* Enable/disable: _enable_disable_port, inside the transaction.           *)

AdminSkip(r) ==
    /\ pc[r] = "written"
    /\ ~AdminNeeded(r)
    /\ Goto(r, "adminDone")
    /\ UNCHANGED <<db, dev, lock, causes, locals>>

\* get_interfaces_by_name is called with a string: EOS and IOS send it as it is,
\* NX-OS joins its characters with commas, and the switch refuses the command.
Found(p) == os[p] # "nxos"

\* is_interface_enabled looks for "shutdown" in each line of the running
\* configuration, the description included.
Enabled(p) == dev[p]["admin"] = "ACTIVE" /\ dev[p]["label"] \notin OffLabels

\* Under such a description an interface that is up reads as disabled.
HiddenBy(r) == IF dev[port[r]]["label"] \in OffLabels THEN {"offlabel"} ELSE {}

\* The interface is as the payload asks.
AdminTaken(r) == dev[port[r]]["admin"] = body[r]["admin"]

\* What pre_check_*_interface compares: the interface reads as requested.
ReadsAsAsked(r) == Enabled(port[r]) <=> body[r]["admin"] = "ACTIVE"

\* MacAddressNotPassed; or _check_mac does not find the address; or the device
\* cannot be opened or does not know the interface.
AdminRefused(r) ==
    /\ pc[r] = "written"
    /\ AdminNeeded(r)
    /\ mac[r] /\ Found(port[r]) => "device" \in Faults
    /\ Abort(r, "error")
    /\ UNCHANGED <<dev, locals>>

\* pre_check_*_interface: nothing is pushed.
AdminAlready(r) ==
    /\ pc[r] = "written"
    /\ AdminNeeded(r) /\ mac[r] /\ Found(port[r])
    /\ ReadsAsAsked(r)
    /\ Goto(r, "adminDone")
    /\ Note(r, IF ~AdminTaken(r) THEN HiddenBy(r) ELSE {})
    /\ UNCHANGED <<db, dev, lock, locals>>

\* enable_interface_on_device / disable_interface_on_device.  A faulty device
\* takes the command without effect.
AdminApply(r) ==
    /\ pc[r] = "written"
    /\ AdminNeeded(r) /\ mac[r] /\ Found(port[r])
    /\ ~ReadsAsAsked(r)
    /\ before' = [before EXCEPT ![r] = dev[port[r]]]
    /\ \/ Configure(r, {"admin"})
       \/ "device" \in Faults /\ UNCHANGED dev
    /\ Goto(r, "adminApplied")
    /\ UNCHANGED <<db, lock, causes, os, port, body, mac, image, loaded, retries>>

\* An enable goes unquestioned when the running config is not what it was.
Masked(r) == body[r]["admin"] = "ACTIVE" /\ dev[port[r]] # before[r]

\* post_check_disable wants the interface to read as down; post_check_enable
\* complains only when it does AND the running config is what it was before.
Confirmed(r) == ReadsAsAsked(r) \/ Masked(r)

AdminPostCheck(r) ==
    /\ pc[r] = "adminApplied"
    /\ Confirmed(r)
    /\ Goto(r, "adminDone")
    /\ Note(r, IF AdminTaken(r) THEN {} ELSE IF Masked(r) THEN {"masked"} ELSE HiddenBy(r))
    /\ UNCHANGED <<db, dev, lock, locals>>

\* PostChangeValidationException: the opposite command is sent and the
\* transaction rolls back.  An interface that was up under a description that
\* hides it is shut.
AdminRevert(r) ==
    /\ pc[r] = "adminApplied"
    /\ ~Confirmed(r)
    /\ dev' = [dev EXCEPT ![port[r]] = [@ EXCEPT !["admin"] = Other(body[r]["admin"])]]
    /\ Goto(r, "error")
    /\ Release(r)
    /\ Note(r, IF AdminTaken(r) THEN HiddenBy(r) ELSE {})
    /\ UNCHANGED <<db, locals>>

\* Any other exception after the command, or one from the revert itself.
AdminFail(r) ==
    /\ pc[r] = "adminApplied"
    /\ "device" \in Faults
    /\ Abort(r, "error")
    /\ UNCHANGED <<dev, locals>>

-----------------------------------------------------------------------------
(* Label, and the end of the transaction.                                  *)

\* update_interface_label runs whenever the payload has a label, whether or
\* not the row was written.  On EOS it never returns: `[interface] in line`,
\* in the check after the push, is a TypeError.
LabelPush(r) ==
    /\ pc[r] = "adminDone"
    /\ body[r]["label"] # Absent => os[port[r]] # "eos"
    /\ IF PushesLabel(r) THEN Configure(r, {"label"}) ELSE UNCHANGED dev
    /\ Goto(r, "labelDone")
    /\ Note(r, IF body[r]["label"] # Absent /\ ~PushesLabel(r) THEN {"nolabel"} ELSE {})
    /\ UNCHANGED <<db, lock, locals>>

\* The device refuses or cannot be opened, or it has taken the label and the
\* check after it fails.
LabelFail(r) ==
    /\ pc[r] = "adminDone"
    /\ body[r]["label"] # Absent
    /\ os[port[r]] # "eos" => "device" \in Faults
    /\ \/ "device" \in Faults /\ UNCHANGED dev
       \/ PushesLabel(r) /\ Configure(r, {"label"})
    /\ Goto(r, "error")
    /\ Release(r)
    /\ Note(r, Touched(r) \cup IF dev' # dev THEN {"halflabel"} ELSE {})
    /\ UNCHANGED <<db, locals>>

\* The `with` block ends.  Only a non-empty vlan list goes on to the device:
\* a mode that came with `vlans: []` stays in the database.
Commit(r) ==
    /\ pc[r] = "labelDone"
    /\ db' = [db EXCEPT ![port[r]] = Overlay(@, r, Dirty(r))]
    /\ Release(r)
    /\ Goto(r, IF HasVlans(r) THEN "committed" ELSE "ok")
    /\ Note(r, IF "mode" \in Dirty(r) /\ ~HasVlans(r) THEN {"modeonly"} ELSE {})
    /\ UNCHANGED <<dev, locals>>

-----------------------------------------------------------------------------
(* Flip: push_vlanportassociation_to_device, after the commit.             *)

\* The lists with a native vlan.
NativeVlans == { v \in Vlans : NativeOf[v] # NoTag }

\* session.expire_all, get_port_db and, given a mac address,
\* _validate_mac_address with the native vlan the database has now.
Reread(r) ==
    /\ pc[r] = "committed"
    /\ mac[r] => db[port[r]]["vlans"] \in NativeVlans
    /\ loaded' = [loaded EXCEPT ![r] = [db[port[r]] EXCEPT !["vlans"] = NoVlans]]
    /\ Goto(r, "reread")
    /\ UNCHANGED <<db, dev, lock, causes, os, port, body, mac, image, before, retries>>

\* NoNativeVlan, or MacAddressNotFoundOnInterface.  The rows stay committed.
MacFail(r) ==
    /\ pc[r] = "committed"
    /\ mac[r]
    /\ Goto(r, "error")
    /\ Note(r, {"mac"})
    /\ UNCHANGED <<db, dev, lock, locals>>

\* get_vlans_on_interface: the mode of EOS and NX-OS is the operational one, and
\* that of an EOS access port is "static access".
ShownMode(row, system) ==
    IF row["admin"] = "SUSPENDED" THEN "down"
    ELSE IF system = "eos" /\ row["mode"] = "access" THEN "static access"
    ELSE row["mode"]

\* The decimal digits of a tag.
Digits(t) == { (t \div k) % 10 : k \in {1} \cup { x \in {10, 100, 1000} : x <= t } }

\* The tags compare_vlan_config takes a list for: set() and the loop over the
\* members split a string into its characters; NX-OS splits its trunks at commas.
ReadTags(row, system) ==
    LET tags == TagsOf[row["vlans"]] IN
    IF system = "nxos" /\ row["mode"] = "trunk" THEN tags ELSE UNION { Digits(t) : t \in tags }

\* An EOS trunk with neighbours is shown as a range, whose '-' is an empty
\* number on either side.
Unparsable(row, system) ==
    /\ system = "eos" /\ row["mode"] = "trunk"
    /\ \E t \in TagsOf[row["vlans"]] : t + 1 \in TagsOf[row["vlans"]]

\* Mutant: the tags are not compared.
SameMode(r) == ShownMode(dev[port[r]], os[port[r]]) = body[r]["mode"]

\* compare_vlan_config.  A list that reads as nothing is not compared, and no
\* native vlan is None on one side and "None" on the other.
SameSwitchport(r) ==
    LET row == dev[port[r]]
        asked == body[r]["vlans"]
    IN
    /\ ShownMode(row, os[port[r]]) = body[r]["mode"]
    /\ ReadTags(row, os[port[r]]) \in {{}, TagsOf[asked]}
    /\ body[r]["mode"] = "trunk" =>
          NativeOf[row["vlans"]] = NativeOf[asked] /\ asked \in NativeVlans

\* What the driver reads is not what the interface has, or it is not compared.
Distorted(row, system) ==
    \/ ShownMode(row, system) # row["mode"]
    \/ ReadTags(row, system) # TagsOf[row["vlans"]]
    \/ TagsOf[row["vlans"]] = {}

\* The native vlan of an access list is stored but on no switch: lists that
\* differ in nothing else are the same access vlan.
AccessNative(r) ==
    LET has == dev[port[r]]["vlans"]
        asked == body[r]["vlans"]
    IN  body[r]["mode"] = "access" /\ TagsOf[has] = TagsOf[asked] /\ NativeOf[has] # NativeOf[asked]

\* An interface without link reads as no mode at all.
Links == IF "link" \in Faults THEN BOOLEAN ELSE {TRUE}

\* The vlans of the interface are taken for those asked for.
Misread(r, same) ==
    IF same /\ (Distorted(dev[port[r]], os[port[r]]) \/ AccessNative(r)) THEN {"misread"} ELSE {}

\* The interface has taken the vlans and does not show it.
Unconfirmed(r, same, up) ==
    IF /\ ~same
       /\ \A c \in Switchport : dev[port[r]][c] = body[r][c]
       /\ ~up \/ Distorted(dev[port[r]], os[port[r]])
    THEN {"unconfirmed"} ELSE {}

\* The IOS driver has no _validate_vlan_tags; and the list cannot be parsed.
CannotRead(r) == os[port[r]] = "ios" \/ Unparsable(dev[port[r]], os[port[r]])

\* MoreThanOneAccessVlan and NoNativeVlan.
Shaped(r) ==
    LET asked == body[r]["vlans"] IN
    IF body[r]["mode"] = "access" THEN \E t \in TagsOf[asked] : TagsOf[asked] = {t}
    ELSE asked \in NativeVlans

\* pre_check_update_switch_port_vlans: push only a configuration that differs.
PreCheck(r) ==
    /\ pc[r] = "reread"
    /\ ~CannotRead(r)
    /\ \E up \in Links : LET same == up /\ SameSwitchport(r) IN
          Goto(r, IF same THEN "ok" ELSE "prechecked") /\ Note(r, Misread(r, same))
    /\ UNCHANGED <<db, dev, lock, locals>>

\* update_switch_port_vlans_on_device; a faulty device drops the command.
PushVlans(r) ==
    /\ pc[r] = "prechecked"
    /\ Shaped(r)
    /\ \/ Configure(r, Switchport)
       \/ "device" \in Faults /\ UNCHANGED dev
    /\ Goto(r, "applied")
    /\ UNCHANGED <<db, lock, causes, locals>>

\* post_check_update_switch_port_vlans reads the interface back, and may not
\* recognize what it has pushed.
PostCheck(r) ==
    /\ pc[r] = "applied"
    /\ ~CannotRead(r)
    /\ \E up \in Links : LET same == up /\ SameSwitchport(r) IN
          /\ Goto(r, IF same THEN "ok" ELSE "rollback")
          /\ Note(r, Misread(r, same) \cup Unconfirmed(r, same, up))
    /\ UNCHANGED <<db, dev, lock, locals>>

\* What raises whatever the device does.
MustFail(r) ==
    \/ pc[r] \in {"reread", "applied"} /\ CannotRead(r)
    \/ pc[r] = "prechecked" /\ ~Shaped(r)

\* An exception from the device or the driver: before the command (the
\* interface or a vlan is missing, the driver refuses the list), or after it
\* has taken effect.  Nothing undoes the command.
PushFail(r) ==
    /\ pc[r] \in {"reread", "prechecked", "applied"}
    /\ MustFail(r) \/ "device" \in Faults
    /\ \/ UNCHANGED dev
       \/ pc[r] = "prechecked" /\ Shaped(r) /\ Configure(r, Switchport)
    /\ Goto(r, "rollback")
    /\ Note(r, IF dev' # dev \/ pc[r] = "applied" THEN {"halfpushed"} ELSE {})
    /\ UNCHANGED <<db, lock, locals>>

\* Mutant: only the associations are put back.
RolledBackVlans(r) == {"vlans"}

\* The columns _rollback_vlanport_db writes: make_port_dict leaves a NULL
\* label out, and the ORM writes what differs from the attributes reloaded
\* after the commit.
RolledBack(r) ==
    { c \in Scalars : /\ image[r][c] # loaded[r][c]
                      /\ ~(c = "label" /\ image[r][c] = NoLabel) }
        \cup {"vlans"}

RollbackDb(r) ==
    /\ pc[r] = "rollback"
    /\ lock[port[r]] = NoReq
    /\ "label" \in RolledBack(r) => LabelFree(r, image[r]["label"])
    /\ db' = [db EXCEPT ![port[r]] =
                 [c \in Columns |-> IF c \in RolledBack(r) THEN image[r][c] ELSE @[c]]]
    /\ Goto(r, "error")
    /\ Note(r, (IF "admin" \in RolledBack(r) THEN {"staleadmin"} ELSE {})
               \cup (IF body[r]["label"] # Absent THEN {"rolledlabel"} ELSE {}))
    /\ UNCHANGED <<dev, lock, locals>>

\* Another port has taken the label that the rollback would put back: its
\* flush fails, and with it the whole transaction, the vlans included.
RollbackLabelTaken(r) ==
    /\ pc[r] = "rollback"
    /\ lock[port[r]] = NoReq
    /\ "label" \in RolledBack(r)
    /\ LabelUsed(r, image[r]["label"]) /\ ~LabelBusy(r, image[r]["label"])
    /\ Goto(r, "error")
    /\ Note(r, {"labeltaken"})
    /\ UNCHANGED <<db, dev, lock, locals>>

\* The rollback's own transaction is a deadlock victim: wrap_db_retry calls it
\* again, but 'vlans' was popped from current_port_data before the transaction.
\* The session's rollback expires what the ORM had loaded.
RollbackDeadlock(r) ==
    /\ "dbdeadlock" \in Faults
    /\ pc[r] = "rollback"
    /\ retries[r] < MaxDeadlocks
    /\ retries' = [retries EXCEPT ![r] = @ + 1]
    /\ image' = [image EXCEPT ![r] = [@ EXCEPT !["vlans"] = NoVlans]]
    /\ loaded' = [loaded EXCEPT ![r] = [db[port[r]] EXCEPT !["vlans"] = NoVlans]]
    /\ Note(r, {"lostvlans"})
    /\ UNCHANGED <<db, dev, lock, pc, os, port, body, mac, before>>

\* The API worker dies; the database rolls back what it had open.
Crash(r) ==
    /\ "crash" \in Faults
    /\ Active(r)
    /\ Goto(r, "crashed")
    /\ Release(r)
    /\ Note(r, Touched(r) \cup IF pc[r] \in AfterCommit THEN {"crashed"} ELSE {})
    /\ UNCHANGED <<db, dev, locals>>

-----------------------------------------------------------------------------
update_port(r) ==
    \/ Reject(r) \/ LoadPort(r) \/ TakeImage(r) \/ WriteRow(r) \/ UnknownVlan(r)
    \/ LabelTaken(r)
    \/ AdminSkip(r) \/ AdminRefused(r) \/ AdminAlready(r) \/ AdminApply(r)
    \/ AdminPostCheck(r) \/ AdminRevert(r) \/ AdminFail(r)
    \/ LabelPush(r) \/ LabelFail(r) \/ Commit(r)
    \/ Reread(r) \/ MacFail(r) \/ PreCheck(r) \/ PushVlans(r) \/ PostCheck(r)
    \/ PushFail(r) \/ RollbackDb(r) \/ RollbackLabelTaken(r)

Environment(r) == Deadlock(r) \/ RollbackDeadlock(r) \/ Crash(r)

Next == \E r \in Requests : update_port(r) \/ Environment(r)

Spec == Init /\ [][Next]_vars

\* A live worker carries its request on; nothing obliges the environment.
FairSpec == Spec /\ \A r \in Requests : WF_vars(update_port(r))

-----------------------------------------------------------------------------
(* Properties.                                                             *)

\* Every variable keeps its type; in particular what a request commits or
\* pushes (update_port's UPDATEs and driver calls) is always a whole row.
TypeOK ==
    /\ db \in [Ports -> Row]
    /\ dev \in [Ports -> Row]
    /\ lock \in [Ports -> Requests \cup {NoReq}]
    /\ os \in [Ports -> Systems]
    /\ port \in [Requests -> Ports]
    /\ pc \in [Requests -> Places]
    /\ body \in [Requests -> Body]
    /\ mac \in [Requests -> BOOLEAN]
    /\ image \in [Requests -> Row]
    /\ loaded \in [Requests -> Row]
    /\ before \in [Requests -> Row]
    /\ retries \in [Requests -> 0..MaxDeadlocks]
    /\ causes \in [Ports -> SUBSET Causes]

\* What the checks at the top of update_port establish stays true: past them
\* the payload is valid, only a request with vlans outlives its commit, and what
\* is read back after a push is a list the driver has taken.
PayloadInv ==
    \A r \in Requests :
        /\ Active(r) => ValidPayload(r)
        /\ pc[r] \in AfterCommit => HasVlans(r)
        /\ pc[r] = "adminApplied" => AdminNeeded(r)
        /\ pc[r] = "applied" => Shaped(r)

\* The row of a port is locked exactly by the request whose open transaction
\* has written to it.
LockInv ==
    /\ \A p \in Ports : lock[p] # NoReq => port[lock[p]] = p
    /\ \A r \in Requests :
          lock[port[r]] = r <=> pc[r] \in WriteHeld /\ Dirty(r) # {}

\* What may separate a port's two admin_status: a transaction that dies after
\* its push, a description that makes the interface read as disabled, an enable
\* whose failed push a concurrent flip hides from the post check, and the
\* rollback of a flip that writes an old admin_status over a newer one.
AdminExcused(p) == causes[p] \cap {"aborted", "offlabel", "masked", "staleadmin"} # {}

\* What admin_status the interface has when nobody holds the row, and at each
\* place of the transaction that does.
AdminInStep(p) ==
    /\ lock[p] = NoReq => dev[p]["admin"] = db[p]["admin"]
    /\ \A r \in Requests : lock[p] = r =>
          /\ pc[r] = "written" => dev[p]["admin"] = db[p]["admin"]
          /\ pc[r] = "adminApplied" =>
                \/ db[p]["admin"] = Other(body[r]["admin"])
                \/ db[p]["admin"] = body[r]["admin"] /\ dev[p]["admin"] = body[r]["admin"]
          /\ pc[r] \in {"adminDone", "labelDone"} =>
                dev[p]["admin"] = IF AdminNeeded(r) THEN body[r]["admin"] ELSE db[p]["admin"]

\* The strengthening of AdminAgrees that _enable_disable_port keeps inductive.
AdminInv == \A p \in Ports : AdminExcused(p) \/ AdminInStep(p)

\* Enable/disable is consistent under any number of concurrent requests: while
\* no transaction holds the row, the database and the interface agree on
\* admin_status, because the push happens under the lock the UPDATE took.
\* AdminExcused names the four events that can break it.
AdminAgrees ==
    \A p \in Ports :
        lock[p] = NoReq => db[p]["admin"] = dev[p]["admin"] \/ AdminExcused(p)

\* Labels have no such protection: update_interface_label runs even when the
\* stale row made the UPDATE a no-op and so no lock was taken.  Between pushes
\* the label agrees unless requests overlapped, a transaction died after its
\* push (every label on EOS), the driver pushes none (IOS), or a flip that
\* carried a label was rolled back.
LabelAgrees ==
    \A p \in Ports :
        (\A r \in Requests : port[r] = p => pc[r] # "labelDone") =>
            \/ db[p]["label"] = dev[p]["label"]
            \/ causes[p] \cap {"overlap", "halflabel", "nolabel", "rolledlabel"} # {}

\* A flip that runs alone, fails wherever it fails and is rolled back leaves
\* switch_port_mode and the vlan associations as the interface has them.  What
\* separates them is exactly: another update in the same interval, a worker
\* dying or a mac address failing between commit and push, vlans of the
\* interface taken for those asked for, vlans the interface took and the post
\* check does not recognize, a device error after the command took effect, a
\* retried rollback, a mode without vlans, or a label that another port took
\* before the rollback could put it back.
SwitchportAgrees ==
    \A p \in Ports :
        (\A r \in Requests : port[r] = p => pc[r] \notin AfterCommit) =>
            \/ \A c \in {"mode", "vlans"} : db[p][c] = dev[p][c]
            \/ causes[p] \cap {"overlap", "crashed", "mac", "misread", "unconfirmed",
                               "halfpushed", "lostvlans", "modeonly", "labeltaken"} # {}

\* update_port pops the vlans from the caller's dict, and wrap_db_retry calls
\* it again with that dict: a flip that met a deadlock is answered BadRequest
\* and never writes its mode without its vlans.
DeadlockedFlipFails ==
    \A r \in Requests :
        retries[r] > 0 /\ body[r]["mode"] # Absent /\ body[r]["vlans"] = Absent
            => pc[r] \in {"arrive", "error", "crashed"}

\* On a port where nothing out of the ordinary happened, an update answered
\* 200 has taken effect in both stores at the moment it is answered.
OkMeansDone ==
    [][\A r \in Requests :
          pc[r] # "ok" /\ pc'[r] = "ok" /\ causes'[port[r]] = {} =>
              \A c \in Columns : body[r][c] \notin {Absent, NoVlans} =>
                  db'[port[r]][c] = body[r][c] /\ dev'[port[r]][c] = body[r][c]]_vars

\* Every request is answered, whatever it waits for: nobody ends still holding
\* a row that update_port of another request needs.
Termination == \A r \in Requests : <>(pc[r] \in Answered)

-----------------------------------------------------------------------------
(* What comments and tests of the source say, and the code does not do.     *)

\* "If there is exception, rollback the db change": when the device never took
\* the command, _rollback_vlanport_db puts back the associations it still has.
RollbackRestoresVlans ==
    [][\A r \in Requests :
          /\ pc[r] = "rollback" /\ pc'[r] = "error"
          /\ causes[port[r]] \cap {"overlap", "halfpushed", "unconfirmed"} = {}
          => db'[port[r]]["vlans"] = dev[port[r]]["vlans"]]_vars
=============================================================================
