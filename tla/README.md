# A verification development for netforce

netforce is a network-management service: a REST API (a neutron service plugin)
over a database that says what every switch port, vlan and subnet *should be*
(the source calls it WISB), and a set of NAPALM drivers that make the switches
*be* so (WIRI).  No transaction spans the two.  Most of what can go wrong in
this code is a disagreement between them, and that is what these modules are
about.

All source paths below are relative to `src/`.

## 1. The system

| component | source | state | operations |
|---|---|---|---|
| port update | `netforce/services/netforce_plugin.py` 334-659, `napalm_baseebay/base_ebay.py`, `base_validator.py` | `nf_ports` row, vlan associations; the switch interface | `update_port`, `push_vlanportassociation_to_device`, `_rollback_vlanport_db`, `_enable_disable_port`, `_update_vlan_association` |
| inventory (vlans, bridge groups, VPCs, devices, device types, ports, bubbles, vrfs) | `netforce_plugin.py` 280-330, 661-771, 1287-1307, `netforce/db/netforce_db.py`, `netforce_model.py` | the `nf_*` tables | `create_*`, `update_*`, `delete_*`, with their checks |
| subnets | `netforce_plugin.py` 774-1214 | `nf_subnets`; vlan interfaces and routing tables of the switches | `create_subnet`, `delete_subnet`, overlap checks, allocation range |
| vendor drivers | `napalm_ebayeos`, `napalm_ebaynxos`, `napalm_ebayjunos`, `napalm_ebayios` over `napalm_baseebay` | a session to one switch | pre-check, push, post-check of vlans, enable/disable, labels, subnets |
| transaction manager | `netforce/services/transaction_manager.py` | the wrapped plugin's session | rollback of database and device together |
| distributed lock | `netforce/common/lockutils.py`, `local.py` | a lease per name in a coordination service, a thread-local | `lock`, refresh, release |
| change tickets | `netforce/services/ticket_workflow.py`, `netforce/api_client/ticket_api_client.py` | tickets in an external service | create, start, complete, cancel (the plugin's callers are commented out) |
| sessions, authentication | `netforce/db/session_db.py`, `netforce/api/auth.py` | an audit table | one row per request; nothing reads it |
| REST controller | `netforce/extensions/netforceext.py` | none | maps requests to plugin calls |

Interaction: a controller thread calls the plugin; the plugin reads and writes
the database through SQLAlchemy (InnoDB row locks, `wrap_db_retry` around the
calls that may deadlock) and, synchronously and while it may hold those locks,
opens a driver session to the switch.  Several API workers do this at once.

What is hard:

* **Two stores, no common transaction.**  Enable/disable and labels are pushed
  *inside* the database transaction, a vlan flip *after* it has committed.
* **Stale reads.**  `update_port` loads the row before its transaction and
  uses it, for decisions and for the rollback copy, inside and after it.
* **Retries with side effects.**  `wrap_db_retry` calls a function again with
  the arguments the first call has already taken keys out of.
* **Partial failure.**  A device may refuse, drop or half apply a command; a
  worker may die anywhere; the rollback may itself be a deadlock victim.
* **Check then act** in the inventory and the subnet code.
* **Vendor differences** in what the common validator is given to compare.
* **A shared candidate.**  Junos sessions edit one candidate configuration, and a
  commit takes along what any of them left in it.
* **Running against startup configuration.**  What a call was answered for may
  not survive a reload of the switch.
* **Variables that outlive a loop's turn** in the readers of mac tables.
* **Calls that are never repeated** to the ticket service, and a **lock that is a
  lease**.

What makes each component correct: the two stores agree whenever nobody is at
work on a port, or a named event explains why not; a 200 answer means the
change is in both; what a transaction rolls back to is what was there; every
request is answered; the tables keep their references and uniqueness rules
under concurrent calls; no two subnets overlap; a driver's `ok` means that
the interface is as asked; a closed ticket tells the truth; the lock has one holder
and comes free.

## 2. Modules

| module | what it is |
|---|---|
| `PortUpdate` | `update_port` under concurrency, device faults, crashes and deadlocks |
| `MCPortUpdate` | payloads and rows TLC instantiates it with |
| `PortUpdate_proofs` | its theorems |
| `SubnetCreate` | `create_subnet`, imports, patches and `delete_subnet` against the database, the TORs and the routing of the bubbles |
| `MCSubnetCreate` | blocks, vlans, interfaces and orders for it |
| `SubnetCreate_proofs` | its theorems |
| `Inventory` | the tables: vlans and what they hang on, created, deleted and associated by concurrent requests |
| `MCInventory` | two bridge groups with devices, ports, VPCs and orders for it |
| `Inventory_proofs` | its theorems: types, what keeps vlans apart, references, native vlans, half-deleted vlans |
| `DeviceCall` | abstract: what the plugin relies on when it calls a driver |
| `VendorDriver` | the four drivers that implement it: checks, push, post-check and undo on one interface |
| `MCVendorDriver` | switches, interfaces and requests for it |
| `VendorDriver_proofs` | its type correctness and the refinement of `DeviceCall` |
| `DriverAnswers_proofs` | what an answer `ok` of a driver means, and why a call fails |
| `MacTable` | how each driver reads the mac address table, and the plugin's check of a server's address |
| `MCMacTable` | the lines a switch may print |
| `MacTable_proofs` | its theorems |
| `ChangeTicket` | the change tickets of a request, against the ticket service |
| `MCChangeTicket` | which of its constants are alike |
| `ChangeTicket_proofs` | its theorems |
| `DistLock` | the distributed lock and the lease behind it |
| `MCDistLock` | its threads |
| `DistLock_proofs` | its theorems |

### PortUpdate

`db[p]` is the `nf_ports` row of port `p` with its vlan associations, `dev[p]`
the interface on the switch; both are rows with the columns `admin`
(`admin_status`), `label`, `mode` (`switch_port_mode`) and `vlans`.  A vlan
list is one value; `TagsOf` and `NativeOf` say what it holds, because the drivers
compare tags, and badly.  `os[p]` is the operating system of the port's switch,
EOS, NX-OS or IOS.  A request is a
`PUT /ports/<id>`; `pc` says where it is in `update_port`:

    arrive -LoadPort-> loaded -TakeImage-> imaged -WriteRow-> written
      -AdminSkip/AdminAlready-> adminDone             (nothing to push)
      -AdminApply-> adminApplied -AdminPostCheck-> adminDone
    adminDone -LabelPush-> labelDone -Commit-> ok     (no vlans in the payload)
                                     -Commit-> committed -Reread-> reread
      -PreCheck-> prechecked -PushVlans-> applied -PostCheck-> ok
    reread, prechecked, applied -PushFail/PostCheck-> rollback -RollbackDb-> error

`image[r]` is two things the code keeps in one object, `current_port_db`: the
attributes the ORM loaded at line 553, and `current_port_data` made from them
at line 595.  An UPDATE writes a column only if the payload differs from the
loaded attribute (`Dirty`), which is why a stale read can make a write vanish,
and with it the row lock.  `loaded[r]` are the attributes reloaded after the
commit; `_rollback_vlanport_db` writes the columns that differ from those
(`RolledBack`).  `before[r]` is the running config the driver compares with
in `post_check_enable_interface`.  `retries[r]` counts calls that
`wrap_db_retry` repeats.

`causes[p]` is a history variable.  No action reads it.  It names what has
happened on a port that the code does not defend against:

| cause | event |
|---|---|
| `overlap` | a request started on the port while another one was active |
| `aborted` | a transaction rolled back, or its worker died, after it had enabled or disabled the interface |
| `masked` | `post_check_enable_interface` accepted an interface that is down, because its config had changed |
| `offlabel` | under a description with the word `shutdown` an interface that is up read as disabled (`eos_ebay.py:568`, `ios_ebay.py:217`), so a disable was answered ok with nothing pushed, or an enable undone by a shutdown |
| `halflabel` | a label reached the switch and its transaction rolled back: every label on EOS, whose check after the push raises |
| `nolabel` | the driver pushes no label: on IOS `update_interface_label` is `pass` (`ios_ebay.py:90`) |
| `modeonly` | `switch_port_mode` with `vlans: []` was committed (line 647 ff.: `if vlans` is false, nothing is pushed) |
| `mac` | `_validate_mac_address` failed after the commit |
| `crashed` | the worker died between commit and the end of the push |
| `misread` | the vlans of the interface were taken for those asked for: compared character by character (22 for 2, `base_validator.py:136`), not compared at all (an empty list, 129), or told apart by a native vlan that an access port has not |
| `unconfirmed` | the switch took the vlans and the post check did not recognize them: an interface without link or suspended, an EOS access port ("static access"), a tag of two different digits |
| `halfpushed` | the switch took the vlans and an exception followed |
| `lostvlans` | `_rollback_vlanport_db` was retried without its vlans |
| `staleadmin` | a rollback wrote `admin_status` |
| `rolledlabel` | a flip that carried a label was rolled back |
| `labeltaken` | the rollback of a flip failed because another port has taken the label it would put back |

Each property lists those of them that may break it; in the model any other way is a
violation.  That is a claim about the model, with its faults and its three
drivers, not about everything that may happen to a switch.

What the drivers do with a port is not the same:

* NX-OS refuses every enable and disable: `get_interfaces_by_name` is called with a
  string (`base_validator.py:237`) and joins its characters with commas (`Found`).
* EOS refuses no label and answers none: the push is done and the check after it is a
  `TypeError`.  IOS answers every label and pushes none (`PushesLabel`).
* IOS refuses every flip, because its driver has no `_validate_vlan_tags`.  EOS and
  NX-OS push the flip of a suspended port and, like EOS every access port, do not
  recognize it: the rows are rolled back and the switch keeps the vlans.

Junos ports are left to `VendorDriver`: the candidate configuration ties all ports of a
switch together.

Locks.  The model has the lock that orders the requests of one port: InnoDB's
exclusive lock on the port row, taken by the first flushed write and kept to
the end of the transaction.  `WriteRow` waits for it when it has something to
write.  Device calls that are not under the lock interleave freely.

Ports meet in one place: the migration `nf_port_init_ops.py:56` makes
`nf_ports.label` unique (the ORM class does not say so).  A write of a label
waits for the transaction that gives or takes it (`LabelBusy`), and fails when
another port has it: `LabelTaken` in `update_port`, `RollbackLabelTaken` in the
rollback, which then puts back nothing.

Environment.  With `"device"` in `Faults` a switch may refuse a command, drop
it silently, or take it and then fail; with `"link"` an interface may be without
link whenever its vlans are read; with `"crash"` a worker may die at any
place; with `"dbdeadlock"` a transaction waiting for the row may be the
deadlock victim, and so may the rollback's, at most `MaxDeadlocks` times per
request.

### SubnetCreate

`rows` is the committed `nf_subnets`; `iface[v]` the addresses of vlan `v`'s
interface on the one TOR of its bridge group (`primary`, and `others`, which are
the secondary addresses of EOS and NX-OS and the unmarked ones of Junos);
`routes[t]` what routing has carried to the table that `get_routes` reads, a vrf
of the distribution switches of a bubble.  A block is one value; `Overlapping`
says which share an address, `Small` which have fewer addresses than are to be
reserved.  The gateway address pushed for a block is named by the block.

    arrive -Lookup-> looked -CheckOverlap-> checked -Insert-> inserted
      -PreValidate-> prechecked -DriverCheck-> drivable -Push-> pushed
      -PostChange-> configured -PostValidate-> validated -Allocate-> ok
                                             -> undo -Undo-> error

An import leaves at `checked` (`skip_device`: only the row); a patch of Junos
primary addresses skips `CheckOverlap`, `PreValidate` and `PostValidate`.  The
four operating systems differ in `MayCreate`, `Configured` and `Unconfigured`:
EOS shows `0.0.0.0/0` for an interface without addresses (the fixture in
`netforce/tests/unit/napalm/test_eos.py:269`), which overlaps every request;
NX-OS makes the first address primary; Junos wants a primary address to be
there; the IOS driver's methods are empty.  That `ip address X` replaces a
primary address and `no ip address X secondary` does not remove one is how
these switches behave; it is not in the repository.

History: `met` has the pairs of requests that were active at the same time,
`added` the requests whose address a switch took, `left[r]` which failure of
`r` undid nothing.

### Inventory

`objects[o]` says of every row of the tables without vlans whether it was never
made, is present or is gone (a row made again after a deletion is another
object); `RefersTo[o]` are the objects its foreign keys name.  `vlans[v]` is
the row of vlan `v` (the id of a vlan that a request makes is the request),
`bindings` the rows of `nf_vlanportassociations`, `subnets` the vlans that some
subnet names.  A tag, a name or a VPC never changes once a vlan is made:
`update_vlan`, `update_device` and `update_vpc` fail on the keyword the
controller passes.

Every request reads in one action and writes in a later one wherever the code
decides on what it has read:

    create_vlan    arrive -CheckVlan-> checked -InsertVlan-> ok
    delete_vlan    arrive -MarkVlan-> marked -ListVlan-> listed -RemoveVlan-> ok
    update_port    arrive -ResolveVlans-> resolved -BindVlans-> ok
    delete_device  arrive -ListDevice-> listed -RemoveDevice-> ok
    all others     one transaction

An action that writes checks the keys of the *migrated* schema, which differs
from the ORM classes: `nf_subnets.vlan_id` and `nf_devices.device_type_id` are
NOT NULL, `nf_vlans.vpc_id` may be NULL, `(bridge_group_id, vpc_id)` and
`(port_id, vlan_id)` are unique, `nf_vrfs.name` is not.  Deleting a row that the
ORM would detach others from therefore fails when the column is NOT NULL.

History: `met` as above; `earlier[r]` the vlans there were when `r` arrived, so
that of two clashing vlans the later one can be named.

A row of `nf_vlanportassociations` keeps `maker`, the request that wrote it, so
that two native vlans of a port can be traced to one payload: the counter of
native vlans at `netforce_plugin.py:211` is on the wrong branch.  `delete_vlan`
commits `PENDING_DELETE` first and deletes in a second transaction
(`transaction_manager.py:86`), although the decorator is there "to ensure that the
changes in the WISB database and device are ATOMIC"; `PendingExplained` lists
what can leave a vlan between the two.

`update_port` occurs in both `PortUpdate` and `Inventory`.  The first has its
two stores and one value for a list of vlans; the second has how the list is
resolved and stored while the vlans themselves come and go.

### VendorDriver and DeviceCall

`PortUpdate` has whole driver calls between two accesses of the database.
`VendorDriver` is the layer below: the calls `enable_interface`,
`disable_interface`, `update_interface_label` and `update_switch_port_vlans` of
several requests on one interface.  `running` is the configuration in force,
`startup` what a reload starts from, `cand` the candidate that Junos sessions
share (the plugin passes `config_lock=False`), `link` whether the far end of the
cable is up.  `call[r]` is a call with its locals:

    flip   idle -Ask-> pre -FlipSame-> done            (nothing to push)
                           -FlipRefused-> done         -FlipDiffers-> build
           build -FlipMalformed-> done  -FlipBuild-> push
    admin  idle -Ask-> pre -AdminProbe-> snap -AdminSnap-> done | push
    label  idle -Ask-> pre -LabelStart-> push
    push   EOS, NX-OS: -PushTakes-> post
           IOS:        -PushTakes-> save -SaveIos-> post
           Junos:      -Load-> commit -Commit-> post
    post   -FlipPost, LabelPost-> done
           -AdminReprobe-> postsnap -AdminPost-> done | undo -Undo-> done

One action is one exchange with the switch, because every command runs in an SSH
session of its own.  The vendors differ in the operators: the mode that is read
(`EosMode` says "static access", and both EOS and NX-OS say "down" without a
link), how vlan lists compare (`Parsed`, `AccessVlans`: strings taken character by
character), when an interface counts as enabled (`IsEnabled`), what refuses a
flip (`MustRefuse`, `MayRefuse`), what a push does (`Edit`, `Flipped`), and
whether it is saved (`Saves`).

A vlan list is a set of tags and of names that stand for tags (`ALL`, the name
of a Junos vlan).  `Digits` models the conversion that matters: `set("22")` is
`{"2"}`, so an access vlan 22 is equal to a request for 2.

Faults: a read fails, a push breaks before or after it took effect (on Junos:
the commit is refused and the candidate stays, or its reply is lost), a switch
prints an error nobody reads, the link goes up or down, the switch reloads.

`why` of a call is its history: which of these it met (`fault`), that another call
changed the same part of the interface (`disturbed`), that a candidate was never
committed (`leftover`), and what the comparison stumbles over.

`DeviceCall` is the abstract specification: a call is asked once and answered
once, a part of the interface changes only while a call is outstanding and only
if some call that was not answered `ok` asked for it, and only such a call
saves.  `VendorDriver!Promise` is its instance under the refinement mapping
(`Abstract`: the configuration split into the parts `admin`, `label`, `flip`), and
`Promised` the claim that the drivers implement it.  "Not answered ok" rather than
"outstanding", because a failed Junos call leaves its load in the candidate for
whoever commits next.

Behaviour of this code that the model shows and the runs' properties name as a
deception or a reason:

* A label with the word `shutdown` makes an enabled interface read as disabled
  (`eos_ebay.py:568`): a disable does nothing and answers ok.
  Under the same label an enable is pushed to an interface that is up, is not
  confirmed, and is undone by a shutdown (`driver_undo`).
* An access vlan is compared digit by digit (`base_validator.py:136`): a vlan of
  two different digits can never be confirmed, 22 passes for 2.
* A trunk whose members are all names, or that has none, is not compared
  (`base_validator.py:129`).
* The pre-check of an enable or disable asks for the interface by a string where a
  list is expected (`base_validator.py:237`): NX-OS sends its characters, which the
  switch refuses, and Junos looks its characters up and finds none.  Both refuse every
  enable and disable before they push.
* Reading a Junos interface without vlan members is a `TypeError`
  (`junos_ebay.py:130`): PyEZ gives `None` for them, so every flip of it fails in the
  pre-check (`Memberless`).
* `update_interface_label` of EOS always raises in its post validation; that of IOS
  has no body.

### MacTable

`get_mac_addresses_on_interface` of EOS and IOS reads a text table, line by line;
what a line means depends on the number of its words.  `printed` are the lines
so far, `table` the entries made of them, `last` what `vlan`, `mac` and
`interface` hold (they outlive a line), `fill` the `fill_down_*` variables for lines
that continue an entry.  `NextLine` reads one line of `Lines`, `EndRead` filters by
port, `CheckMac` is `_check_mac` of the plugin on the result.  `result` is a set of
entries: the plugin looks for an address among them, never at their order (`First` is
where the IOS search ends).  NX-OS and Junos answer
in rows; NX-OS asked for a vlan returns all ports of it.  A line of seven words is read
well if they begin with an asterisk, which an indented line keeps (`Split`), and is an
error otherwise (`Shifted`).  `Misread` names the tables
of which some line had a number of words nobody wrote a case for.  The IOS
search stops at its first match, so the plugin may refuse a server that is on the
port, with "Mac address ... not found on interface" (`netforce_exceptions.py:141`).

### ChangeTicket

A request raises a ticket before its driver call, starts it, and completes or
cancels it after:

    idle -CheckAllowed-> allowed -CreateTicket-> created -MarkReady-> marked
      -Push-> pushed -Close-> closed -Retry-> idle

`tickets[n]` is the record of the external service.  `Exchanges` are the outcomes
of one POST: refused, done and heard, done with its reply lost.  `create_cr` fails on
any of the latter two or on a reply without a number; `update_cr` logs and goes on.
`Retry` is `wrap_db_retry` around `update_port`: the new attempt raises a new
ticket.  `SetStop` begins and ends a stop on changes at any time, in particular
between the check and the creation.  The plugin's calls are comments
(`netforce_plugin.py` 495, 505, 519, 526); the composition is at these places.
A ticket can be completed without having been started, when `MarkReady` was not
heard (`ticket_api_client.py:263` says both updates are needed);
`ClosedTruthfully` excuses exactly that.

### DistLock

`lock(name, blocking)` for any number of threads, each of which is its own owner
because coordinators are per thread (`local.strong_store`).  `owner` is the lease as
the service sees it, `renewed` whether a heartbeat extends it.  It ends (`Expire`)
when its holder is held up or cut off (`Pause`), when it is dead, or when nothing renews
it.  The body goes on without it (`lost`), and its release must not take the lock from
the next owner.  A `LockAcquireFailed` raised by the body itself, from another
lock, comes out as if this lock had not been acquired (`EndBody`).

The service may fail an acquire (`AcquireFails`) or a release (second part of
`Leave`), after it has done it or without.  `lockutils.py:83` catches neither.  After an
acquire that was done the thread does not know that it has the lease, and the lease
ends by itself; after a release that was not, the thread's coordinator goes on with its
heartbeat and the lock stays taken (`broken`).

## 3. Runs

`PortUpdate`.  Ports interact only through the uniqueness of labels, so
`port_flip` has two of them (two requests on the same or on different ports)
and the other configurations one.  Two or three requests: every hazard
listed in `PROJECT.json` needs at most two requests racing, and the third one,
in `port_admin`, covers a request that overtakes both.  Two labels, one of which
(`OffLabels`) contains the word `shutdown`; two known vlan lists and one unknown, where
22 of the first reads as 2 of the second, one list has a native vlan and the unknown
one two tags (`TagsOf`, `NativeOf`); rows that are fresh, in use, open, and without
vlans.  `Deployments` gives ports their drivers: any of the three in `port_admin` and
`port_live`, an EOS or IOS port beside an NX-OS one in `port_flip`, NX-OS in
`port_lostvlans`, the only driver of the three that can confirm a flip.
`MaxDeadlocks = 1`: the second retry finds what the first one left.
Deadlock checking is off: the system stops when every request is answered.

| run | checks | shows |
|---|---|---|
| `port_admin` | `TypeOK`, `AdminAgrees`, `LabelAgrees` | enable, disable and label, three requests, three drivers, every fault: the lock on the row makes in-transaction pushes consistent but for four named events, labels are not protected in the same way |
| `port_flip` | `AdminAgrees`, `LabelAgrees`, `SwitchportAgrees`, `DeadlockedFlipFails`, `OkMeansDone` | flips of every kind and what they race with, two requests, two drivers, every fault: stores that differ, and answers that are not true, have a named event behind them |
| `port_live` | `Termination` | every request is answered |
| `port_lostvlans` | `RollbackRestoresVlans`, violated | a retried rollback deletes the associations and creates none |

`LabelAgrees` needs its cause `rolledlabel`: the rollback copy is made by
`make_port_dict`, which leaves out a label that is not set (`netforce_view.py:89`),
so the rollback at `netforce_plugin.py:393` does not take back the first label a
port was given by the flip, and never takes one back from the switch.

`SubnetCreate`.  A block with its two halves and a disjoint one too small to
reserve from give every case of overlap; five vlans, one per operating system
and one that is not routable, in two routing tables.  Two requests cover every
pair of kinds under faults; every property relates at most two of them.
`MaxSubnets = 2` lets an interface with one address take one more and no
second.

| run | checks | shows |
|---|---|---|
| `subnet_pairs` | `TypeOK`, `NoOverlap`, `RowsConfigured`, `FailureExplained`, `WithinLimit` | overlapping rows and overfull interfaces need requests served at the same time; a committed subnet stays on its switch; an address without its row has a known reason: a crash, a deletion, a failure that undoes nothing |
| `subnet_small` | `SmallNeverPushed`, violated | a too small block is pushed, then refused, and stays on the switch |

`FailureExplained` holds only because it excuses the undo on NX-OS: `no ip
address X secondary` (`nxos_ebay.py:543`) does not remove a primary address, which
the first address of an interface is.  `one_subnet_only` comes from the URL as a
string and is compared with `True` (`junos_ebay.py:500`), so the count behind it
is dead code; `MayPromote` has no such guard.

`Inventory`.  Two bridge groups, one device and one vlan on each, two VPCs of
one name, one port and one VPC still to be made.  The orders make vlans equal
to a seed, in conflict with one by name or by tag, and for a VPC; give ports
vlans by each way, twice and across bridge groups; and delete everything.
Three requests: a delete in between two transactions, what races with it, and
what cleans up after.

| run | checks | shows |
|---|---|---|
| `inv_all` | `TypeOK`, `References`, `TagsDistinguish`, `VpcHasOneVlan`, `PendingExplained`, `NativesExplained` | references always resolve; vlans clash only by a race or through a VPC; a vlan left `PENDING_DELETE` has a named reason; two native vlans on a port come from one payload |

`VendorDriver`.  Two calls on one interface: every interleaving property relates
a call to one other that disturbs it, and with two calls a third state of the
candidate, left by a failed one, is reachable.  Eight switches: one per vendor as it is
meant to be driven, and those whose drivers refuse (no eAPI, no list of names and
traffic checks, vlans missing or suspended).  Five initial interfaces, two labels,
four tags (neighbours 2 and 3, 5, and 22, which reads as 2) and ten requests.

| run | checks | shows |
|---|---|---|
| `driver_all` | `TypeOK`, `OkMeansDone`, `FailureExplained`, `OkSurvivesReload`, `Promised` | a call answered ok has changed the interface but for the named deceptions; a failed one has a named reason; what is saved survives a reload; the drivers implement `DeviceCall` |
| `driver_undo` | `RollbackRestoresAdmin`, violated | on EOS an enable of an interface that is up under a label with the word shutdown shuts it |

`MacTable`.  Two addresses, two ports, two vlans; lines of one to nine words in every
layout the drivers know, some they do not, with one port and with two; tables
of up to three lines: a line that sets the variables, one that misuses them, and
one that is filled down from.

| run | checks | shows |
|---|---|---|
| `mac_all` | `TypeOK`, `NothingForeign`, `NothingMissing`, `CheckMeansPresence` | which addresses of the port a driver returns, and what the plugin's check of a server then means |

`ChangeTicket`.  Two requests with two attempts each and three numbers: a third
attempt has no number left, which is one more failure.  Every fault.

| run | checks | shows |
|---|---|---|
| `ticket_all` | `TypeOK`, `ChangeHasTicket`, `ClosedTruthfully`, `LeftOpenExplained`, `StopExplained` | every change has a ticket of its own; what a closed ticket says is true; open tickets and tickets raised during a stop have named reasons |

`DistLock`.  Two threads, a holder and a waiter; nothing bounds their calls.

| run | checks | shows |
|---|---|---|
| `lock_all` | `TypeOK`, `Exclusion`, `OwnerIsInside`, `ComesFree` | among threads that have their lease one is in the body; the lock leaks only by a call that the service failed; it is free again and again, but for a release that the service failed |

Fairness.  `FairSpec` of `PortUpdate` has weak fairness of `update_port(r)` for each request:
a worker that can take its next step takes it, because nothing in the code
waits except for the row lock, and a database grants a lock that stays free.
Nothing obliges the environment to fail, crash or deadlock.  Weak fairness is
enough here because a waiting request cannot be overtaken forever: there are
finitely many requests and each takes the lock at most `MaxDeadlocks + 2` times.

`FairSpec` of `DistLock` has weak fairness of `Expire(t)`, because the service ends
a lease that is not extended in time (nothing extends one after an acquire of which
only the answer was lost), and strong fairness of `EndBody(t)`: a body
ends if its process runs again and again, although it is held up in between.  It
has none of `Acquire`, `Resume` or `Die`: a waiter is not promised the lock, and
a process may be held up for ever, which is what the lease is for.

## 4. Theorems

Proved by TLAPS for any sets of ports, requests, labels, vlans and payloads
that satisfy `SentinelAssumption` (the marker values are not data) and
`InputAssumption` (payloads and rows are of their types, and a vlan list is determined by
its tags and its native vlan):

* `TypeCorrect`: `Spec => [](TypeOK /\ PayloadInv)`.  The type invariant is not
  inductive alone: that a pushed or committed column is a value and not
  `Absent` rests on the payload checks, so `PayloadInv` is proved with it.
* `LockCorrect`: `Spec => []LockInv`, the row is locked exactly by the request
  whose open transaction has written to it.  One lemma for the steps that
  leave locks alone (`LockKept`), one for those that end a transaction
  (`LockReleased`), and `WriteRow` itself.
* `AdminConsistent`: `Spec => []AdminAgrees`.  `AdminAgrees` speaks only of
  rows nobody holds; its inductive strengthening `AdminInv` says, for the
  request that holds the row, what the interface has at each place of its
  transaction.  `OwnPort` is the proof that a step keeps that on its own port
  unless it is one of the four events `AdminExcused` names, action by action; `OtherPort` and
  `Frame` that it changes nothing on other ports and for other requests.
* `LabelConsistent`: `Spec => []LabelAgrees`, and `SwitchportConsistent`:
  `Spec => []SwitchportAgrees`, from `StoresInv`.  Both excuse requests that
  overlap on a port, so what they claim is about requests one after the other, and
  the invariant follows one request through all its places: where no overlap was
  noted one request at a time is at work on a port (`AloneInv`); the copy it
  works with is the row up to its commit, and after it the row is the copy with the
  payload laid over (`CopyInv`); and at each place the interface is as the row, the
  copy or the payload has it (`LabelInv`, `SwitchportInv`).  The last two and
  `CopyInv` have a lemma each for the step on its own port (`OwnCopy`, `OwnLabel`,
  `OwnSwitchport`).
* `RetriedFlipFails`: `Spec => []DeadlockedFlipFails`; `AnswerIsTrue`: `Spec =>
  OkMeansDone`, the action property: `StoresInv` and `AdminInv` say of each place from
  which a request is answered `ok` what its row and its interface then have.  What the
  drivers believe enters by lemmas on what they read: `ReadsTrue`, an interface whose
  description hides nothing reads as it is; `ComparesRight`, where nothing is distorted
  a successful comparison means the vlans asked for; `Recognizes`, where nothing is
  distorted the vlans asked for compare as the same.

For `SubnetCreate`, for any sets of requests, blocks, vlans and tables, any
symmetric reflexive overlap relation and any interfaces to start with
(`CidrAssumption`, which also says that there are finitely many blocks, so that the
addresses of an interface can be counted; `TopologyAssumption`, `OrderAssumption`):

* `TypeCorrect`: `Spec => []TypeOK`.
* `OverlapOnlyIfMet`: `Spec => []NoOverlap`.  The inductive invariant adds that
  two active requests have met (`MetInv`), that a create past its overlap check
  has met the maker of every row it overlaps (`CheckedInv`) and that a row is
  the one of a request answered 200 (`RowsInv`).  `StepMoves` reduces the
  actions to the few facts the invariant depends on (`Movement`): a row is added
  only by a request past its check, and a request starts by meeting whoever is
  active.
* `CommittedStaysConfigured`: `Spec => []RowsConfigured`.  What can take the address
  of a committed subnet off its switch is the push of another request, where it
  replaces a primary address, or the undo of one, where it removes the same
  address.  `ConfiguredInv` excludes both for requests that are alone: whoever is
  at work on a block that has a row has met the row's maker (`SameCidrInv`); a driver
  that saw no primary address, and so will set one, faces no committed subnet of a
  request that was alone (`FirstInv`); and a request past its driver's check has its
  address (`PushedInv`).
* `LeftoversExplained`: `Spec => []FailureExplained`.  `Accounted` says of each create
  that a switch obeyed what its place promises: until it is answered its undo
  can still remove its address unless that was pushed as the primary one or another
  request put the same address there; answered `ok` it has its row, unless a
  deletion came since; answered `error` without a blamed step it has taken the
  address off.
* `LimitKept`: `Spec => WithinLimit`, an action property.  `RoomInv` says that what a
  driver counted still holds when it sends its command, unless another request for
  the same interface was served at the same time.

For `Inventory`, for any objects, foreign keys, vlans, orders and number of
requests, provided that the tables start with their references resolved, no
clash and associations that no request has made (`ObjectAssumption`,
`SeedAssumption`, `OrderAssumption`), and that, as in
the schema, only ports refer to devices and nothing to ports (`KeyAssumption`):

* `TypeCorrect`: `Spec => []TypeOK`.  It needs `SeenInv`, that a create past its
  check has found a VPC of the name it asked for, because the inserted row
  carries that VPC's id.
* `ClashExplained`: `Spec => []TagsDistinguish`, and `VpcVlanUnique`:
  `Spec => []VpcHasOneVlan`.  Neither is inductive: both speak of rows, and what
  keeps rows apart is what their makers read before.  `DistinctInv` adds
  that a row is one of an answered create (`RowsInv`), that requests in progress
  have met (`MetInv`), that a vlan was there when a request in progress arrived or
  its maker has met it (`EarlierInv`), and that a create past its check has met
  the maker of every vlan it would have found (`CheckedInv`).  `VlansMove`
  reduces all actions to two cases: the columns that tell vlans apart stay, or
  `InsertVlan` adds one row; `Frame` says what a step leaves other requests.
  `AddedVlan` is the heart: the new row against an old one.
* `ReferencesResolve`: `Spec => []References`, and `NativesOfOnePayload`:
  `Spec => []NativesExplained`.  `KeysInv` adds to the
  references of the tables what requests hold between their transactions
  (`LoadedInv`): the vlans an update of a port has looked up were rows then, so
  those that are rows later are the same ones, on the port's bridge groups; and a
  delete of a device has loaded ports and nothing else.
* `PendingHasReason`: `Spec => []PendingExplained`.  A `delete_vlan` has marked its vlan,
  and its second transaction fails on a row that names the vlan.  The proof has to
  say which rows it cannot know of: `ListedInv`, every association of the vlan is
  among those it has listed, or was made since by an `update_port` that was served
  at the same time.  A vlan that was `PENDING_DELETE` from the start needs no
  other reason.

For `VendorDriver`, for any requests, switches, interfaces, operations and faults
(`DriverAssumption`):

* `TypeCorrect`: `Spec => []TypeOK`, from the inductive `IInv`: `TypeOK`, `CallInv`
  (which calls can be at which place, and that a flip about to be pushed is one
  the driver can configure) and `CandInv`.
* `DriversKeepPromise`: `Spec => Promised`, the refinement of `DeviceCall`.  Each
  action maps to `Ask`, `Work`, `Reload` or a stutter of it.  The step that needs
  an invariant is a Junos commit: what it moves to the running configuration may
  have been loaded by others, so `CandInv` says that where
  the candidate differs from the running configuration, a call that is about to
  commit, or that failed, asked for that part.
* `OkIsTrue`: `Spec => []OkMeansDone`, and `OkIsLasting`: `Spec => []OkSurvivesReload`
  (`DriverAnswers_proofs`).  `OkInv` adds, for each call that has not been
  deceived or disturbed: what its answer says of the interface (`OkHolds`), what
  its probe of the interface said (`ProbeHolds`), that an enable has left the
  interface up or as it was (`EnableHolds`), and that the part it pushed is the
  same in both configurations (`SavedHolds`).  `SameAchieved` is the heart: a
  comparison that succeeds on a configuration read without misreading it shows
  that the interface is as asked.
* `FailureHasReason`: `Spec => []FailureExplained`, the converse: `FailInv` says that a
  call that met no fault and no other call has, from its push on, the interface or the
  candidate exactly as the push leaves it (`Has`), so a comparison that fails all the
  same fails for what the switch shows (a range, an interface that is down or, on Junos,
  without members, a label that reads as shut down) or because the driver can never confirm such a request
  (`Hopeless`).

For `MacTable`, for any addresses, vlans, lines and finitely many ports
(`MacAssumption`), and tables of any length: `TypeCorrect`; `ForeignExcluded`:
`Spec => []NothingForeign`; `AllReturned`: `Spec => []NothingMissing`; and
`CheckIsMeaningful`: `Spec => []CheckMeansPresence`.  The invariant `MacInv` relates the
table a driver has built so far to the lines it has read: each entry is what some
line says (`Sound`), each line that says something has its entry (`Complete`), and the
variables that outlive a line hold the address a following line of ports belongs
to (`FillInv`), unless some line was misread.  A line is one step of the
specification, so this is an invariant of steps and needs no induction over the
table.

For `ChangeTicket`, for any number of requests, numbers and retries
(`TicketAssumption`): `TypeCorrect`, `ChangesTicketed`, `TicketsTruthful`,
`OpenExplained` and `StopRespected`, one for each property of its run, from one
inductive invariant (`Inductive`): `JobInv` says what a request at each place knows
of its number, `TicketInv` what holds of each ticket.  `UpdateEffect` reduces an
exchange with the service to: the ticket is changed, or the update is in
`missed`.

For `DistLock`, for any number of threads: `TypeCorrect`; `LockExcludes`:
`Spec => []Exclusion`, whose inductive form says that a thread in the body that has
not lost its lease is the owner; `LockDoesNotLeak`: `Spec => []OwnerIsInside`, which is
inductive with the types: a release that is done, or a lease that ends, leaves no
owner, and the others are in `broken`.

TLC checked the inductive invariants before they were proved, on the constants
of the runs.

Only model-checked:

* `Termination` and `ComesFree`: liveness under fairness, like `ENABLED`, is out of
  the prover's reach.
* The three properties that are violated, whose counterexamples TLC finds.

Every other invariant and action property of the runs is stated by a theorem.

## 5. Not modelled

* Sessions and authentication: one INSERT per request into an audit table that
  nothing reads to decide anything; `update_session` and `session_end` have no
  callers; tokens are keystone's.
* The REST controller: attribute maps and dispatch without state.  What they let
  through is the payload of each modelled request.
* The running of the alembic migrations, which is manual and precedes the service
  (the constraints they create are modelled; `asset_id`, unique too, is never sent
  to a switch and is left out).
* Logging, constants, exception classes, test tools, the ping and traceroute
  subprocesses, `tools/`.
* In the drivers: the wording of commands and the parsing of show commands other
  than the mac address table, routing and ARP tables, BGP; `create_vlan`, whose
  only caller `config_vlan_on_devices` is never called.
* In the plugin: updates of names and descriptions, `_discover_ports_on_device`
  (no callers), errors other than deadlocks in `wrap_db_retry`
  (`retry_on_deadlock=True` only), the paths of the transaction manager that
  `delete_vlan`, its only user, does not take.  `enable_vlan` and `enable_subnet`
  are taken to be set.
* Ports of Junos switches in `PortUpdate` (their driver is in `VendorDriver`).
* The tenant by which a request's queries of subnets are scoped.
* That httplib2 may itself send a POST a second time on a connection that has gone
  stale, below the ticket client.
* The arithmetic of address blocks and allocation ranges, abstracted to which
  blocks overlap and which are too small.

## 6. Plan

Done, in this order: `PortUpdate`, `Inventory`, `SubnetCreate`, `VendorDriver` over
`DeviceCall`, `MacTable`, `ChangeTicket`, `DistLock`, with the theorems of section 4.

What could follow:

1. The arithmetic of blocks and allocation ranges as operators over small address
   widths.
2. The updates of names and descriptions of the administrative tables.
