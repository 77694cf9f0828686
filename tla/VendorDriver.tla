----------------------------- MODULE VendorDriver -----------------------------
(***************************************************************************)
(* The EOS, NX-OS, Junos and IOS drivers under NetForcePlugin: enabling,   *)
(* disabling, labelling and flipping the vlans of one interface, by        *)
(* several API requests at once.  Each call is the template of             *)
(* EbayNetworkDriver: a pre-check that reads the interface, the push, a    *)
(* post-check that reads it again, and for enable/disable the plugin's     *)
(* opposite command when the post-check raises.                            *)
(*                                                                         *)
(* One action is one exchange with the switch: each command runs in an SSH *)
(* session of its own (base_connection) and other requests run in between. *)
(* Junos sessions instead share the candidate configuration, because the   *)
(* plugin passes config_lock = False: a load changes it, a commit moves    *)
(* all of it to the running configuration.  A vlan list is a set of tags   *)
(* and of names (ALL, a Junos vlan name) that stand for more tags.         *)
(***************************************************************************)
EXTENDS Integers, FiniteSets

CONSTANTS
    Requests,       \* driver calls on the interface
    Tags,           \* vlan numbers
    Names,          \* members of a trunk that are not numbers
    Carries,        \* Names -> the tags each stands for
    Hyphened,       \* those with a hyphen in them
    AllVlans,       \* the name in Names that EOS shows for an open trunk
    Labels,         \* interface descriptions
    OffLabels,      \* those that contain the word a driver takes for "shut"
    NoVlan,         \* no native vlan, no access vlan
    Switches,       \* the switches a run may talk to
    Ops,            \* what may be asked
    InitialConfigs, \* interfaces a run may start with
    Faults          \* what the environment may do, see FaultKinds

FaultKinds == {"read", "push", "ignored", "link", "reload"}

Config ==
    [mode : {"access", "trunk"}, access : Tags \cup {NoVlan}, trunk : SUBSET (Tags \cup Names),
     native : Tags \cup {NoVlan}, off : BOOLEAN, label : Labels]

\* Only the fields of the kind matter: off, label, or the other three.
Op ==
    [kind : {"admin", "label", "flip"}, off : BOOLEAN, label : Labels,
     mode : {"access", "trunk"}, vlans : SUBSET Tags, native : Tags \cup {NoVlan}]

\* eapi: napalm's eAPI session exists beside SSH; traffic: enable_traffic_check.
Switch ==
    [os : {"eos", "nxos", "junos", "ios"}, eapi : BOOLEAN, traffic : BOOLEAN,
     active : SUBSET Tags, suspended : SUBSET Tags]

ASSUME DriverAssumption ==
    /\ Tags \subseteq Nat
    /\ NoVlan \notin Tags
    /\ Names \cap Tags = {}
    /\ AllVlans \in Names
    /\ Carries \in [Names -> SUBSET Tags]
    /\ Hyphened \subseteq Names
    /\ OffLabels \subseteq Labels
    /\ Switches \subseteq Switch
    /\ Ops \subseteq Op
    /\ Ops # {}
    /\ InitialConfigs \subseteq Config
    /\ Faults \subseteq FaultKinds

VARIABLES
    switch,     \* the switch, which does not change
    link,       \* whether a server answers on the other end of the cable
    running,    \* the configuration in force
    startup,    \* the configuration a reload starts from
    cand,       \* Junos: the candidate configuration all sessions share
    call        \* Requests -> the state of the driver call

vars == <<switch, link, running, startup, cand, call>>

Places == {"idle", "pre", "snap", "build", "push", "commit", "save",
           "post", "postsnap", "undo", "done"}

\* History: what a call has met, for the properties to name.
Causes == {"fault", "disturbed", "leftover", "name", "range", "down",
           "offlabel", "masked", "digits", "memberless"}

Call ==
    [pc : Places, op : Op, enabled : BOOLEAN, seen : Config, native : Tags \cup {NoVlan},
     sent : BOOLEAN, answer : {"none", "ok", "failed"}, why : SUBSET Causes]

TypeOK ==
    /\ switch \in Switch
    /\ link \in BOOLEAN
    /\ running \in Config
    /\ startup \in Config
    /\ cand \in Config
    /\ call \in [Requests -> Call]

Init ==
    /\ switch \in Switches
    /\ link \in BOOLEAN
    /\ running \in InitialConfigs
    /\ startup = running
    /\ cand = running
    /\ call = [r \in Requests |->
                 [pc |-> "idle", op |-> CHOOSE op \in Ops : TRUE, enabled |-> FALSE,
                  seen |-> running, native |-> NoVlan, sent |-> FALSE,
                  answer |-> "none", why |-> {}]]

-----------------------------------------------------------------------------
(* What a driver reads.                                                    *)

Junos == switch.os = "junos"

\* The parts of an interface that a call asks for.
Part(c, p) ==
    CASE p = "admin" -> <<c.off>>
      [] p = "label" -> <<c.label>>
      [] OTHER -> <<c.mode, c.access, c.trunk, c.native>>

\* get_vlans_on_interface and the description table of Junos read the
\* candidate; everything else reads the running configuration.
Shown == IF Junos THEN cand ELSE running

\* get_vlans_on_interface.  EOS and NX-OS report the operational mode, which
\* is down without a link, and EOS calls an access port "static access".
EosMode(c) ==
    IF c.off \/ ~link THEN "down" ELSE IF c.mode = "access" THEN "static access" ELSE "trunk"
NxosMode(c) == IF c.off \/ ~link THEN "down" ELSE c.mode
JunosMode(c) == c.mode

Mode(c) ==
    CASE switch.os = "eos" -> EosMode(c)
      [] switch.os = "nxos" -> NxosMode(c)
      [] OTHER -> JunosMode(c)

\* The decimal digits of a tag.
Digits(t) == { (t \div k) % 10 : k \in {1} \cup { x \in {10, 100, 1000} : x <= t } }

\* Switches compress neighbours into a range.
HasRange(tags) == \E t \in tags : t + 1 \in tags

\* PyEZ gives None for the vlan members of a Junos interface that has none, and
\* iterating over it is a TypeError.
Memberless(c) == Junos /\ IF c.mode = "access" THEN c.access = NoVlan ELSE c.trunk = {}

\* The interface cannot be read; or _parse_vlan_range raises a ValueError: a
\* hyphen in a name is taken for a range, and EOS returns the list as one string,
\* taken character by character, so that the '-' of a range is split into two
\* empty numbers.
Unparsable(c) ==
    \/ Memberless(c)
    \/ /\ Mode(c) \notin {"access", "static access"}
       /\ c.trunk \cap Hyphened # {} \/ (switch.os = "eos" /\ HasRange(c.trunk \cap Tags))

\* _parse_vlan_range otherwise: names are dropped, and the characters of the
\* EOS string are digits.
Parsed(c) ==
    IF switch.os = "eos" THEN UNION { Digits(t) : t \in c.trunk \cap Tags }
    ELSE c.trunk \cap Tags

\* set(current_access_vlan): the characters of the string, except on Junos,
\* where it is a list.
AccessVlans(c) == IF Junos THEN {c.access} ELSE Digits(c.access)

\* The digits are taken for another vlan: 22 for 2, an EOS trunk of 12 for 1 and 2.
Misread(c) ==
    IF Mode(c) \in {"access", "static access"} THEN AccessVlans(c) # {c.access}
    ELSE Parsed(c) # c.trunk \cap Tags

\* A trunk whose members are not numbers, or that has none: the members that
\* are left are compared, or nothing is.
Nameless(c) == c.mode = "trunk" /\ (c.trunk \cap Names # {} \/ c.trunk = {})

\* Mutant: the mode alone is compared.
SameMode(c, op) == Mode(c) = op.mode

\* compare_vlan_config.  A list that parses to nothing is not compared, and no
\* native vlan is None on one side and "None" on the other.
Same(c, op) ==
    /\ Mode(c) = op.mode
    /\ op.mode = "trunk" =>
        Parsed(c) \in {{}, op.vlans} /\ op.native # NoVlan /\ c.native = op.native
    /\ op.mode = "access" => AccessVlans(c) = op.vlans

\* get_interface_running_config contains the word a driver looks for.
ShowsOff(c) == c.off \/ c.label \in OffLabels

\* is_interface_enabled looks for the word in each line of it.
IsEnabled(c) == ~ShowsOff(c)

\* get_interfaces_by_name is called with a string: EOS and IOS send it as it is,
\* Junos looks up its characters, and NX-OS joins them with commas into a list
\* that the switch refuses.
Found == switch.os \in {"eos", "ios"}

\* check_traffic_on_interface: the list with which a flip calls it breaks every
\* driver; called with a name it compares numbers with a string, which are
\* never greater.
TrafficRefuses(op) == switch.traffic /\ op.kind = "flip"

\* get_vlan.
VlanStatus(t) ==
    CASE t \in switch.suspended -> "suspend"
      [] t \in switch.active -> "active"
      [] OTHER -> "none"

\* _validate_vlan_tags.  EOS lets a missing vlan pass, unless the answer to
\* `show vlan` is not JSON; Junos objects to any suspended vlan it meets.
EosRefuses(op) == \E t \in op.vlans : VlanStatus(t) = "suspend"
EosMayRefuse(op) == \E t \in op.vlans : VlanStatus(t) = "none"
NxosRefuses(op) == \E t \in op.vlans : VlanStatus(t) # "active"
JunosRefuses(op) ==
    \/ op.vlans # {} /\ switch.suspended # {}
    \/ \E t \in op.vlans : VlanStatus(t) = "none"

\* What refuses any flip before the comparison; the IOS driver has no
\* _validate_vlan_tags, and EOS reads the vlans through eAPI.
MustRefuse(op) ==
    \/ TrafficRefuses(op)
    \/ CASE switch.os = "eos" -> ~switch.eapi \/ EosRefuses(op)
         [] switch.os = "nxos" -> NxosRefuses(op)
         [] switch.os = "junos" -> JunosRefuses(op)
         [] OTHER -> TRUE

MayRefuse(op) == switch.os = "eos" /\ EosMayRefuse(op)

\* MoreThanOneAccessVlan and NoNativeVlan (and an empty list of vlans).
Shaped(op) ==
    /\ op.mode = "access" => \E t \in Tags : op.vlans = {t}
    /\ op.mode = "trunk" => op.native \in op.vlans

-----------------------------------------------------------------------------
(* What a driver pushes.                                                   *)

\* update_switch_port_vlans_on_device.  An access port keeps an open trunk list
\* behind its mode.  NX-OS sends the native vlan, and Junos deletes it, only if
\* the read before the push says it is needed.
EosFlipped(c, op) ==
    IF op.mode = "access"
    THEN [c EXCEPT !.mode = "access", !.access = CHOOSE t \in op.vlans : TRUE,
                   !.trunk = {AllVlans}, !.native = NoVlan]
    ELSE [c EXCEPT !.mode = "trunk", !.access = NoVlan, !.trunk = op.vlans, !.native = op.native]

\* Mutants: the number of vlans is sent as the access vlan; the test whether the
\* native vlan must be sent is inverted.
NxosFlippedLength(c, op, native) ==
    IF op.mode = "access" THEN [c EXCEPT !.mode = "access", !.access = Cardinality(op.vlans)]
    ELSE [c EXCEPT !.mode = "trunk", !.trunk = op.vlans, !.native = op.native]
NxosFlippedInverted(c, op, native) ==
    IF op.mode = "access"
    THEN [c EXCEPT !.mode = "access", !.access = CHOOSE t \in op.vlans : TRUE,
                   !.trunk = Tags, !.native = NoVlan]
    ELSE [c EXCEPT !.mode = "trunk", !.access = NoVlan, !.trunk = op.vlans,
                   !.native = IF native # op.native THEN @ ELSE op.native]

NxosFlipped(c, op, native) ==
    IF op.mode = "access"
    THEN [c EXCEPT !.mode = "access", !.access = CHOOSE t \in op.vlans : TRUE,
                   !.trunk = Tags, !.native = NoVlan]
    ELSE [c EXCEPT !.mode = "trunk", !.access = NoVlan, !.trunk = op.vlans,
                   !.native = IF native = op.native THEN @ ELSE op.native]

JunosFlipped(c, op, native) ==
    IF op.mode = "access"
    THEN [c EXCEPT !.mode = "access", !.access = CHOOSE t \in op.vlans : TRUE, !.trunk = {},
                   !.native = IF native = NoVlan THEN @ ELSE NoVlan]
    ELSE [c EXCEPT !.mode = "trunk", !.access = NoVlan, !.trunk = op.vlans, !.native = op.native]

Flipped(c, op, native) ==
    CASE switch.os = "eos" -> EosFlipped(c, op)
      [] switch.os = "nxos" -> NxosFlipped(c, op, native)
      [] OTHER -> JunosFlipped(c, op, native)

\* Mutant: a flip also brings the interface up.
EditNoShutdown(c, k) ==
    CASE k.op.kind = "admin" -> [c EXCEPT !.off = k.op.off]
      [] k.op.kind = "label" -> [c EXCEPT !.label = k.op.label]
      [] OTHER -> [Flipped(c, k.op, k.native) EXCEPT !.off = FALSE]

Edit(c, k) ==
    CASE k.op.kind = "admin" -> [c EXCEPT !.off = k.op.off]
      [] k.op.kind = "label" -> [c EXCEPT !.label = k.op.label]
      [] OTHER -> Flipped(c, k.op, k.native)

\* Whether a push also copies running-config to startup-config: never for a
\* label; perhaps for an EOS flip (napalm's commit) and an IOS enable (whose
\* copy command asks for a file name).
EosSaves(op) ==
    CASE op.kind = "label" -> {FALSE}
      [] op.kind = "flip" -> BOOLEAN
      [] OTHER -> {TRUE}
NxosSaves(op) == {op.kind # "label"}
IosSaves(op) == IF op.off THEN {TRUE} ELSE BOOLEAN

\* Mutant: nothing is copied to startup-config.
SavesNever(op) == {FALSE}

Saves(op) ==
    CASE switch.os = "eos" -> EosSaves(op)
      [] switch.os = "nxos" -> NxosSaves(op)
      [] OTHER -> IosSaves(op)

\* The end of update_interface_label: the label that is read is the one asked
\* for.  On EOS `[interface] in line` is a TypeError.
EosLabelled(op) == FALSE
NxosLabelled(op) == Shown.label = op.label
JunosLabelled(op) == Shown.label = op.label

Labelled(op) ==
    CASE switch.os = "eos" -> EosLabelled(op)
      [] switch.os = "nxos" -> NxosLabelled(op)
      [] OTHER -> JunosLabelled(op)

-----------------------------------------------------------------------------
(* Pieces of steps.                                                        *)

Kind(r) == call[r].op.kind

At(r, p) == call[r].pc = p

\* `if condition THEN the cause is met`.
Met(cause, condition) == IF condition THEN {cause} ELSE {}

\* Call r goes on as k; the running configuration becomes c.  Every other call
\* whose part of the interface that changes has been disturbed.
Advance(r, k, c) ==
    call' = [q \in Requests |->
               IF q = r THEN k
               ELSE IF ~At(q, "idle") /\ Part(c, Kind(q)) # Part(running, Kind(q))
               THEN [call[q] EXCEPT !.why = @ \cup {"disturbed"}]
               ELSE call[q]]

Goto(r, p) == Advance(r, [call[r] EXCEPT !.pc = p], running)

Done(k, answer) == [k EXCEPT !.pc = "done", !.answer = answer]

Finish(r, answer) == Advance(r, Done(call[r], answer), running)

Untouched == UNCHANGED <<switch, link, running, startup, cand>>
-----------------------------------------------------------------------------
(* A call, up to the push.                                                 *)

Ask(r) ==
    /\ At(r, "idle")
    /\ \E op \in Ops : Advance(r, [call[r] EXCEPT !.pc = "pre", !.op = op], running)
    /\ Untouched

\* A show command fails, or the session to the switch breaks.
ReadFails(r) ==
    /\ "read" \in Faults
    /\ call[r].pc \in {"pre", "snap", "build", "post", "postsnap"}
    /\ Advance(r, [Done(call[r], "failed") EXCEPT !.why = @ \cup {"fault"}], running)
    /\ Untouched

\* What the vlan comparison is about to stumble over.
Read(k) ==
    [k EXCEPT !.seen = Shown,
              !.why = @ \cup Met("leftover", Shown # running)
                        \cup Met("name", Nameless(Shown))
                        \cup Met("digits", Misread(Shown))
                        \cup Met("range", Unparsable(Shown) /\ ~Memberless(Shown))
                        \cup Met("memberless", Memberless(Shown))
                        \cup Met("down", Mode(Shown) = "down")]

\* pre_check_update_switch_port_vlans raises.
FlipRefused(r) ==
    /\ At(r, "pre") /\ Kind(r) = "flip"
    /\ MustRefuse(call[r].op) \/ MayRefuse(call[r].op) \/ Unparsable(Shown)
    /\ Advance(r, Done(Read(call[r]), "failed"), running)
    /\ Untouched

\* "Current configuration is same as requested": nothing is pushed.
FlipSame(r) ==
    /\ At(r, "pre") /\ Kind(r) = "flip"
    /\ ~MustRefuse(call[r].op) /\ ~Unparsable(Shown)
    /\ Same(Shown, call[r].op)
    /\ Advance(r, Done(Read(call[r]), "ok"), running)
    /\ Untouched

FlipDiffers(r) ==
    /\ At(r, "pre") /\ Kind(r) = "flip"
    /\ ~MustRefuse(call[r].op) /\ ~Unparsable(Shown)
    /\ ~Same(Shown, call[r].op)
    /\ Advance(r, [Read(call[r]) EXCEPT !.pc = "build"], running)
    /\ Untouched

\* update_switch_port_vlans_on_device up to the push: it refuses a list it
\* cannot configure, or reads the native vlan once more.  An interface that had
\* members at the pre-check still has some: no flip leaves it without.
FlipMalformed(r) ==
    /\ At(r, "build")
    /\ ~Shaped(call[r].op)
    /\ Finish(r, "failed")
    /\ Untouched

FlipBuild(r) ==
    /\ At(r, "build")
    /\ Shaped(call[r].op)
    /\ Advance(r, [call[r] EXCEPT !.pc = "push", !.native = Shown.native], running)
    /\ Untouched

\* _check_interface_config, which both checks of enable and disable begin with:
\* first is_interface_enabled, then the running configuration.
AdminUnknown(r) ==
    /\ At(r, "pre") /\ Kind(r) = "admin"
    /\ ~Found
    /\ Finish(r, "failed")
    /\ Untouched

AdminProbe(r) ==
    /\ At(r, "pre") /\ Kind(r) = "admin"
    /\ Found
    /\ Advance(r, [call[r] EXCEPT !.pc = "snap", !.enabled = IsEnabled(running),
                                  !.why = @ \cup Met("offlabel", running.label \in OffLabels)],
               running)
    /\ Untouched

\* "Port is already enabled", "already disabled".
Already(k) == k.enabled # k.op.off

AdminSnap(r) ==
    /\ At(r, "snap")
    /\ Advance(r, IF Already(call[r]) THEN Done(call[r], "ok")
                  ELSE [call[r] EXCEPT !.pc = "push", !.seen = running],
               running)
    /\ Untouched

\* The label has no pre-check; the IOS driver does nothing at all.
LabelStart(r) ==
    /\ At(r, "pre") /\ Kind(r) = "label"
    /\ IF switch.os = "ios" THEN Finish(r, "ok") ELSE Goto(r, "push")
    /\ Untouched

-----------------------------------------------------------------------------
(* The push.                                                               *)

NextPlace(r) == IF switch.os = "ios" THEN "save" ELSE "post"

\* The command takes effect.  IOS gets its commands one by one, the one that
\* saves last.
PushTakes(r) ==
    /\ At(r, "push") /\ ~Junos
    /\ running' = Edit(running, call[r])
    /\ \E saves \in Saves(call[r].op) :
        startup' = IF saves /\ switch.os # "ios" THEN running' ELSE startup
    /\ Advance(r, [call[r] EXCEPT !.pc = NextPlace(r), !.sent = TRUE], running')
    /\ UNCHANGED <<switch, link, cand>>

\* The switch prints an error, which nobody reads.
PushIgnored(r) ==
    /\ "ignored" \in Faults
    /\ At(r, "push") /\ ~Junos
    /\ Advance(r, [call[r] EXCEPT !.pc = NextPlace(r), !.sent = TRUE, !.why = @ \cup {"fault"}],
               running)
    /\ Untouched

\* The session breaks while the command is sent: it may have taken effect.
PushBreaks(r) ==
    /\ "push" \in Faults
    /\ At(r, "push") /\ ~Junos
    /\ running' \in {running, Edit(running, call[r])}
    /\ Advance(r, [Done(call[r], "failed") EXCEPT !.sent = TRUE, !.why = @ \cup {"fault"}], running')
    /\ UNCHANGED <<switch, link, startup, cand>>

SaveIos(r) ==
    /\ At(r, "save")
    /\ \E saves \in Saves(call[r].op) : startup' = IF saves THEN running ELSE startup
    /\ Goto(r, "post")
    /\ UNCHANGED <<switch, link, running, cand>>

\* Junos: cu.load changes the shared candidate, also under a call that is
\* about to commit it.
Load(r) ==
    /\ At(r, "push") /\ Junos
    /\ cand' = Edit(cand, call[r])
    /\ call' = [q \in Requests |->
                  IF q = r THEN [call[q] EXCEPT !.pc = "commit"]
                  ELSE IF At(q, "commit") /\ Part(cand', Kind(q)) # Part(cand, Kind(q))
                  THEN [call[q] EXCEPT !.why = @ \cup {"disturbed"}]
                  ELSE call[q]]
    /\ UNCHANGED <<switch, link, running, startup>>

\* cu.commit moves the candidate to the running configuration: all of it.
Commit(r) ==
    /\ At(r, "commit")
    /\ running' = cand /\ startup' = cand
    /\ Advance(r, [call[r] EXCEPT !.pc = "post", !.sent = TRUE], cand)
    /\ UNCHANGED <<switch, link, cand>>

\* The commit is refused, and the candidate keeps the load; or only the reply
\* to it is lost.
CommitFails(r) ==
    /\ "push" \in Faults
    /\ At(r, "commit")
    /\ \/ UNCHANGED <<running, startup>>
       \/ running' = cand /\ startup' = cand
    /\ Advance(r, [Done(call[r], "failed") EXCEPT !.sent = TRUE, !.why = @ \cup {"fault"}], running')
    /\ UNCHANGED <<switch, link, cand>>

-----------------------------------------------------------------------------
(* After the push.                                                         *)

\* post_check_update_switch_port_vlans.
FlipPost(r) ==
    /\ At(r, "post") /\ Kind(r) = "flip"
    /\ Advance(r, Done(Read(call[r]), IF ~Unparsable(Shown) /\ Same(Shown, call[r].op)
                                      THEN "ok" ELSE "failed"), running)
    /\ Untouched

LabelPost(r) ==
    /\ At(r, "post") /\ Kind(r) = "label"
    /\ Advance(r, [Done(call[r], IF Labelled(call[r].op) THEN "ok" ELSE "failed")
                     EXCEPT !.why = @ \cup Met("leftover", Shown # running)], running)
    /\ Untouched

AdminReprobe(r) ==
    /\ At(r, "post") /\ Kind(r) = "admin"
    /\ Found
    /\ Advance(r, [call[r] EXCEPT !.pc = "postsnap", !.enabled = IsEnabled(running),
                                  !.why = @ \cup Met("offlabel", running.label \in OffLabels)],
               running)
    /\ Untouched

\* post_check_enable_interface, post_check_disable_interface.
Unconfirmed(k) ==
    IF k.op.off THEN k.enabled ELSE k.seen = running /\ ~k.enabled

AdminPost(r) ==
    /\ At(r, "postsnap")
    /\ Advance(r, [ (IF Unconfirmed(call[r]) THEN [call[r] EXCEPT !.pc = "undo"]
                     ELSE Done(call[r], "ok"))
                    EXCEPT !.why = @ \cup Met("masked", running # [call[r].seen EXCEPT !.off = running.off]) ],
               running)
    /\ Untouched

\* _enable_disable_port, PostChangeValidationException: "ROllback the device
\* config to previous config" pushes the opposite command.
Undo(r) ==
    /\ At(r, "undo")
    /\ \/ running' = [running EXCEPT !.off = ~call[r].op.off]
       \/ "push" \in Faults /\ running' = running
    /\ startup' \in {startup, running'}
    /\ Advance(r, Done(call[r], "failed"), running')
    /\ UNCHANGED <<switch, link, cand>>

-----------------------------------------------------------------------------
(* The environment.                                                        *)

LinkChange ==
    /\ "link" \in Faults
    /\ link' = ~link
    /\ UNCHANGED <<switch, running, startup, cand, call>>

\* The switch restarts from what was saved; the candidate and the session
\* about to commit it are lost.
Reload ==
    /\ "reload" \in Faults
    /\ running # startup \/ cand # startup
    /\ running' = startup /\ cand' = startup
    /\ call' = [q \in Requests |->
                  IF At(q, "commit")
                  THEN [Done(call[q], "failed") EXCEPT !.why = @ \cup {"fault"}]
                  ELSE IF ~At(q, "idle") /\ Part(startup, Kind(q)) # Part(running, Kind(q))
                  THEN [call[q] EXCEPT !.why = @ \cup {"disturbed"}]
                  ELSE call[q]]
    /\ UNCHANGED <<switch, link, startup>>

Flip(r) ==
    FlipRefused(r) \/ FlipSame(r) \/ FlipDiffers(r) \/ FlipMalformed(r) \/ FlipBuild(r) \/ FlipPost(r)

Admin(r) ==
    AdminUnknown(r) \/ AdminProbe(r) \/ AdminSnap(r) \/ AdminReprobe(r) \/ AdminPost(r) \/ Undo(r)

Push(r) ==
    PushTakes(r) \/ PushIgnored(r) \/ PushBreaks(r) \/ SaveIos(r) \/ Load(r) \/ Commit(r) \/ CommitFails(r)

Next ==
    \/ \E r \in Requests :
        Ask(r) \/ ReadFails(r) \/ LabelStart(r) \/ LabelPost(r) \/ Flip(r) \/ Admin(r) \/ Push(r)
    \/ LinkChange
    \/ Reload

Spec == Init /\ [][Next]_vars
-----------------------------------------------------------------------------
(* Properties.                                                             *)

\* The tags the members of a trunk stand for.
Carried(trunk) == (trunk \cap Tags) \cup UNION { Carries[n] : n \in trunk \cap Names }

\* The interface is as the call asked.
Achieved(c, op) ==
    /\ op.kind = "admin" => c.off = op.off
    /\ op.kind = "label" => c.label = op.label
    /\ op.kind = "flip" /\ op.mode = "access" => c.mode = "access" /\ {c.access} = op.vlans
    /\ op.kind = "flip" /\ op.mode = "trunk" =>
        c.mode = "trunk" /\ Carried(c.trunk) = op.vlans /\ c.native = op.native

\* What may make "ok" wrong on this switch although nobody else has changed
\* that part of the interface: a label that reads as shutdown, a post-check of
\* an enable that took somebody's label or vlans for its own effect, a trunk
\* with a member that is no number or with none at all, a vlan whose digits read
\* as another one, a Junos candidate that was never committed; and the calls
\* that do nothing: labels on IOS.
Deceptions(op) ==
    CASE op.kind = "admin" -> IF op.off THEN {"offlabel"} ELSE {"masked"}
      [] op.kind = "label" -> {"leftover"}
      [] OTHER -> {"name", "leftover", "digits"}

Idles(op) == op.kind = "label" /\ switch.os = "ios"

\* A call that is answered "ok" has the interface as asked, whatever the
\* faults and the other calls, until another one changes that part of it and
\* but for the deceptions above (base_validator's pre- and post-checks).
OkMeansDone ==
    \A r \in Requests :
        LET k == call[r] IN
        k.answer = "ok" /\ ~Idles(k.op) /\ k.why \cap (Deceptions(k.op) \cup {"disturbed"}) = {}
            => Achieved(running, k.op)

\* What a driver can never do, or never confirm, on this switch.
Hopeless(op) ==
    CASE op.kind = "label" -> switch.os = "eos"
      [] op.kind = "admin" -> ~Found
      [] OTHER -> \/ MustRefuse(op) \/ MayRefuse(op) \/ ~Shaped(op)
                  \/ switch.os = "eos" /\ (op.mode = "access" \/ HasRange(op.vlans))
                  \/ ~Junos /\ \E t \in op.vlans : t >= 10 /\ (op.mode = "access" \/ switch.os = "eos")

\* A call fails for a reason: a fault, another call that changed the same part
\* or left a candidate behind, an interface without link, a trunk that shows a
\* range or a hyphen, a Junos interface without members, an enable under a label
\* that reads as shutdown, or a request the driver cannot serve at all.
FailureExplained ==
    \A r \in Requests :
        LET k == call[r] IN
        k.answer = "failed" =>
            \/ k.why \cap {"fault", "disturbed", "leftover"} # {}
            \/ k.op.kind = "flip" /\ k.why \cap {"range", "down", "memberless"} # {}
            \/ k.op.kind = "admin" /\ ~k.op.off /\ "offlabel" \in k.why
            \/ Hopeless(k.op)

\* The pushes that no driver is sure to copy to startup-config.
Unsaved(op) ==
    CASE op.kind = "label" -> ~Junos
      [] op.kind = "flip" -> switch.os = "eos"
      [] OTHER -> switch.os = "ios" /\ ~op.off

\* What a call pushed and was answered "ok" for outlives a reload of the
\* switch, except labels, EOS flips and IOS enables.
OkSurvivesReload ==
    \A r \in Requests :
        LET k == call[r] IN
        k.answer = "ok" /\ k.sent /\ k.why \cap {"fault", "disturbed"} = {}
          /\ ~Unsaved(k.op) /\ Achieved(running, k.op)
            => Achieved(startup, k.op)

\* The abstract view of the calls: see DeviceCall.
Interface ==
    [admin : { <<off>> : off \in BOOLEAN },
     label : { <<label>> : label \in Labels },
     flip : {"access", "trunk"} \X (Tags \cup {NoVlan}) \X (SUBSET (Tags \cup Names))
                \X (Tags \cup {NoVlan})]

Abstract(c) == [p \in {"admin", "label", "flip"} |-> Part(c, p)]

Promise == INSTANCE DeviceCall WITH
    Parts <- {"admin", "label", "flip"},
    Interfaces <- Interface,
    iface <- Abstract(running),
    saved <- Abstract(startup),
    asked <- [r \in Requests |-> IF At(r, "idle") THEN "none" ELSE Kind(r)],
    answer <- [r \in Requests |-> call[r].answer]

\* Every behaviour of the drivers is one the plugin may rely on: a part of the
\* interface changes only while a call is outstanding and only if a call that
\* has not been answered "ok" asked for it.
Promised == Promise!Spec

\* "ROllback the device config to previous config"
\* (netforce_plugin.py:511): a failed enable or disable of an interface nobody
\* else touches leaves it as it was.
RollbackRestoresAdmin ==
    \A r \in Requests :
        LET k == call[r] IN
        k.answer = "failed" /\ k.op.kind = "admin" /\ k.why \cap {"fault", "disturbed"} = {}
            => k.seen.off = running.off
=============================================================================
