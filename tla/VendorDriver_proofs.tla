-------------------------- MODULE VendorDriver_proofs --------------------------
(***************************************************************************)
(* Theorems about VendorDriver: it keeps its types, and it implements      *)
(* DeviceCall, for any requests, tags, switches, operations and faults.    *)
(***************************************************************************)
EXTENDS VendorDriver, TLAPS

Parts == {"admin", "label", "flip"}

-----------------------------------------------------------------------------
(* The invariant.                                                          *)

\* What is known of a call at each of its places.
CallOK(k) ==
    /\ k.pc # "done" => k.answer = "none"
    /\ k.pc = "build" => k.op.kind = "flip"
    /\ k.pc \in {"snap", "postsnap", "undo"} => k.op.kind = "admin"
    /\ k.pc = "push" /\ k.op.kind = "flip" => Shaped(k.op)
    /\ k.pc = "commit" => Junos
    /\ k.pc = "save" => ~Junos
    /\ Junos /\ k.op.kind = "admin" => k.pc \in {"idle", "pre", "done"}

CallInv == \A r \in Requests : CallOK(call[r])

\* A part of the Junos candidate that is not in force is the load of a call that
\* is about to commit, or that failed.
CandInv ==
    Junos => \A p \in Parts : Part(cand, p) # Part(running, p) =>
        \E r \in Requests :
            /\ Kind(r) = p
            /\ call[r].pc = "commit" \/ (call[r].pc = "done" /\ call[r].answer = "failed")

IInv == TypeOK /\ CallInv /\ CandInv

-----------------------------------------------------------------------------
(* Records.                                                                *)

LEMMA OpType ==
    ASSUME NEW op \in Op
    PROVE  /\ op.kind \in Parts /\ op.off \in BOOLEAN /\ op.label \in Labels
           /\ op.mode \in {"access", "trunk"}
           /\ op.vlans \subseteq Tags /\ op.native \in Tags \cup {NoVlan}
  BY DEF Op, Parts

LEMMA ConfigType ==
    ASSUME NEW c \in Config
    PROVE  /\ c.mode \in {"access", "trunk"} /\ c.access \in Tags \cup {NoVlan}
           /\ c.trunk \subseteq Tags \cup Names /\ c.native \in Tags \cup {NoVlan}
           /\ c.off \in BOOLEAN /\ c.label \in Labels
  BY DEF Config

\* Each field of a call may be replaced by one of its type.
LEMMA CallType ==
    ASSUME NEW k \in Call
    PROVE  /\ k.pc \in Places /\ k.op \in Op /\ k.seen \in Config
           /\ k.enabled \in BOOLEAN /\ k.native \in Tags \cup {NoVlan} /\ k.sent \in BOOLEAN
           /\ k.answer \in {"none", "ok", "failed"} /\ k.why \subseteq Causes
  BY DEF Call

\* A call that goes on as k leaves the others where they are.
LEMMA AdvanceEffect ==
    ASSUME TypeOK, NEW r \in Requests, NEW k \in Call, NEW c, Advance(r, k, c)
    PROVE  /\ call' \in [Requests -> Call]
           /\ call'[r] = k
           /\ \A q \in Requests \ {r} :
                /\ call'[q].pc = call[q].pc /\ call'[q].op = call[q].op
                /\ call'[q].answer = call[q].answer
<1> DEFINE new(q) == IF ~At(q, "idle") /\ Part(c, Kind(q)) # Part(running, Kind(q))
                     THEN [call[q] EXCEPT !.why = @ \cup {"disturbed"}]
                     ELSE call[q]
<1>1. ASSUME NEW q \in Requests
      PROVE  /\ new(q) \in Call
             /\ new(q).pc = call[q].pc /\ new(q).op = call[q].op
             /\ new(q).answer = call[q].answer
  <2>1. call[q] \in Call
    BY DEF TypeOK
  <2>2. [call[q] EXCEPT !.why = @ \cup {"disturbed"}] \in Call
    BY <2>1 DEF Call, Causes
  <2> QED
    BY <2>1, <2>2 DEF Call
<1>2. call' = [q \in Requests |-> IF q = r THEN k ELSE new(q)]
  BY DEF Advance
<1> HIDE DEF new
<1> QED
  BY <1>1, <1>2

-----------------------------------------------------------------------------
(* What a push does to an interface.                                       *)

\* A flip of the right shape gives an interface.
LEMMA FlippedType ==
    ASSUME NEW c \in Config, NEW op \in Op, NEW native \in Tags \cup {NoVlan}, Shaped(op)
    PROVE  /\ Flipped(c, op, native) \in Config
           /\ Flipped(c, op, native).off = c.off
           /\ Flipped(c, op, native).label = c.label
<1> DEFINE Fine(d) == d \in Config /\ d.off = c.off /\ d.label = c.label
<1>1. /\ op.mode \in {"access", "trunk"} /\ op.vlans \subseteq Tags
      /\ op.native \in Tags \cup {NoVlan} /\ c.native \in Tags \cup {NoVlan}
  BY OpType, ConfigType
<1>2. CASE op.mode = "access"
  <2>1. PICK t \in Tags : op.vlans = {t}
    BY <1>2 DEF Shaped
  <2>2. (CHOOSE v \in op.vlans : TRUE) = t
    BY <2>1
  <2>3. {AllVlans} \in SUBSET (Tags \cup Names) /\ Tags \in SUBSET (Tags \cup Names)
        /\ {} \in SUBSET (Tags \cup Names)
    BY DriverAssumption
  <2>4. EosFlipped(c, op) = [c EXCEPT !.mode = "access", !.access = t, !.trunk = {AllVlans}, !.native = NoVlan]
    BY <1>2, <2>2 DEF EosFlipped
  <2>5. Fine(EosFlipped(c, op))
    BY <2>1, <2>3, <2>4 DEF Config
  <2>6. NxosFlipped(c, op, native) = [c EXCEPT !.mode = "access", !.access = t, !.trunk = Tags, !.native = NoVlan]
    BY <1>2, <2>2 DEF NxosFlipped
  <2>7. Fine(NxosFlipped(c, op, native))
    BY <2>1, <2>3, <2>6 DEF Config
  <2>8. PICK kept \in {c.native, NoVlan} :
          JunosFlipped(c, op, native) = [c EXCEPT !.mode = "access", !.access = t, !.trunk = {}, !.native = kept]
    BY <1>2, <2>2 DEF JunosFlipped
  <2>9. Fine(JunosFlipped(c, op, native))
    BY <1>1, <2>1, <2>3, <2>8 DEF Config
  <2> QED
    BY <2>5, <2>7, <2>9 DEF Flipped
<1>3. CASE op.mode = "trunk"
  <2>1. op.vlans \in SUBSET (Tags \cup Names)
    BY <1>1
  <2>2. EosFlipped(c, op) = [c EXCEPT !.mode = "trunk", !.access = NoVlan, !.trunk = op.vlans, !.native = op.native]
    BY <1>3 DEF EosFlipped
  <2>3. Fine(EosFlipped(c, op))
    BY <1>1, <2>1, <2>2 DEF Config
  <2>4. PICK kept \in {c.native, op.native} :
          NxosFlipped(c, op, native) = [c EXCEPT !.mode = "trunk", !.access = NoVlan, !.trunk = op.vlans, !.native = kept]
    BY <1>3 DEF NxosFlipped
  <2>5. Fine(NxosFlipped(c, op, native))
    BY <1>1, <2>1, <2>4 DEF Config
  <2>6. JunosFlipped(c, op, native) = [c EXCEPT !.mode = "trunk", !.access = NoVlan, !.trunk = op.vlans, !.native = op.native]
    BY <1>3 DEF JunosFlipped
  <2>7. Fine(JunosFlipped(c, op, native))
    BY <1>1, <2>1, <2>6 DEF Config
  <2> QED
    BY <2>3, <2>5, <2>7 DEF Flipped
<1> QED
  BY <1>1, <1>2, <1>3

\* A push gives an interface, and changes only the part the call asked for.
LEMMA EditEffect ==
    ASSUME NEW c \in Config, NEW k \in Call, k.op.kind = "flip" => Shaped(k.op)
    PROVE  /\ Edit(c, k) \in Config
           /\ \A p \in Parts : Part(Edit(c, k), p) # Part(c, p) => k.op.kind = p
<1>1. k.op \in Op /\ k.native \in Tags \cup {NoVlan}
  BY CallType
<1>2. k.op.kind \in Parts /\ k.op.off \in BOOLEAN /\ k.op.label \in Labels
  BY <1>1, OpType
<1>3. CASE k.op.kind = "admin"
  <2>1. Edit(c, k) = [c EXCEPT !.off = k.op.off]
    BY <1>3 DEF Edit
  <2> QED
    BY <1>2, <1>3, <2>1 DEF Config, Part, Parts
<1>4. CASE k.op.kind = "label"
  <2>1. Edit(c, k) = [c EXCEPT !.label = k.op.label]
    BY <1>4 DEF Edit
  <2> QED
    BY <1>2, <1>4, <2>1 DEF Config, Part, Parts
<1>5. CASE k.op.kind = "flip"
  <2>1. Edit(c, k) = Flipped(c, k.op, k.native)
    BY <1>5 DEF Edit
  <2> QED
    BY <1>1, <1>5, <2>1, FlippedType DEF Part, Parts
<1> QED
  BY <1>2, <1>3, <1>4, <1>5 DEF Parts

-----------------------------------------------------------------------------
(* The abstract view.                                                      *)

LEMMA AbstractType ==
    ASSUME NEW c \in Config
    PROVE  Abstract(c) \in Interface
<1>1. /\ c.mode \in {"access", "trunk"} /\ c.access \in Tags \cup {NoVlan}
      /\ c.trunk \subseteq Tags \cup Names /\ c.native \in Tags \cup {NoVlan}
      /\ c.off \in BOOLEAN /\ c.label \in Labels
  BY ConfigType
<1> QED
  BY <1>1 DEF Abstract, Interface, Part

\* A step of one call maps to a step of that call: what must be shown of it.
LEMMA WorkMaps ==
    ASSUME IInv, TypeOK', NEW r \in Requests, call[r].pc \notin {"idle", "done"},
           \A q \in Requests :
               /\ call'[q].op = call[q].op
               /\ call'[q].pc = "idle" <=> call[q].pc = "idle"
               /\ q # r => call'[q].answer = call[q].answer,
           \A p \in Parts : Part(running', p) # Part(running, p) =>
               \E q \in Requests : Kind(q) = p /\ call[q].pc # "idle" /\ call[q].answer # "ok",
           startup' \in {startup, running'}
    PROVE  Promise!Next
<1> DEFINE asked == [q \in Requests |-> IF At(q, "idle") THEN "none" ELSE Kind(q)]
           answer == [q \in Requests |-> call[q].answer]
<1>1. asked[r] # "none" /\ answer[r] = "none"
  <2>1. call[r] \in Call /\ CallOK(call[r])
    BY DEF IInv, TypeOK, CallInv
  <2>2. Kind(r) \in Parts
    BY <2>1, CallType, OpType DEF Kind
  <2> QED
    BY <2>1, <2>2 DEF At, CallOK, Parts
<1>2. Abstract(running') \in Interface
  BY AbstractType DEF TypeOK
<1>3. ASSUME NEW p \in Parts, Abstract(running')[p] # Abstract(running)[p]
      PROVE  p \in { asked[q] : q \in { x \in Requests : answer[x] # "ok" } }
  <2>1. Part(running', p) # Part(running, p)
    BY <1>3 DEF Abstract, Parts
  <2>2. PICK q \in Requests : Kind(q) = p /\ call[q].pc # "idle" /\ call[q].answer # "ok"
    BY <2>1
  <2> QED
    BY <2>2 DEF At
<1>4. Abstract(startup') \in {Abstract(startup), Abstract(running')}
  OBVIOUS
<1>5. answer' = [answer EXCEPT ![r] = call'[r].answer] /\ call'[r].answer \in {"none", "ok", "failed"}
  BY CallType DEF TypeOK
<1>6. asked' = asked
  BY DEF At, Kind
<1>7. Promise!Work(r)
  BY <1>1, <1>2, <1>3, <1>4, <1>5, <1>6
     DEF Promise!Work, Promise!Outstanding, Promise!Open, Abstract, Parts
<1> QED
  BY <1>7 DEF Promise!Next

-----------------------------------------------------------------------------
(* Steps that leave the switch alone.                                      *)

\* A call that only reads, or ends.
LEMMA QuietStep ==
    ASSUME IInv, NEW r \in Requests, NEW k \in Call, CallOK(k), k.op = call[r].op, k.pc # "idle",
           call[r].pc \notin {"idle", "done", "commit"},
           Advance(r, k, running), Untouched
    PROVE  IInv' /\ Promise!Next
<1>1. UNCHANGED <<switch, link, running, startup, cand>>
  BY DEF Untouched
<1>2. /\ call' \in [Requests -> Call] /\ call'[r] = k
      /\ \A q \in Requests \ {r} :
            /\ call'[q].pc = call[q].pc /\ call'[q].op = call[q].op
            /\ call'[q].answer = call[q].answer
  BY AdvanceEffect DEF IInv
<1>3. TypeOK'
  BY <1>1, <1>2 DEF IInv, TypeOK
<1>4. CallInv'
  BY <1>1, <1>2 DEF IInv, CallInv, CallOK, Junos
<1>5. CandInv'
  <2> SUFFICES ASSUME Junos, NEW p \in Parts, Part(cand, p) # Part(running, p)
               PROVE  \E q \in Requests :
                        /\ call'[q].op.kind = p
                        /\ \/ call'[q].pc = "commit"
                           \/ call'[q].pc = "done" /\ call'[q].answer = "failed"
    BY <1>1 DEF CandInv, Junos, Kind, Part
  <2>1. PICK q \in Requests : /\ call[q].op.kind = p
                              /\ \/ call[q].pc = "commit"
                                 \/ call[q].pc = "done" /\ call[q].answer = "failed"
    BY DEF IInv, CandInv, Kind
  <2> QED
    BY <1>2, <2>1
<1>6. Promise!Next
  <2>1. \A p \in Parts : Part(running', p) = Part(running, p)
    BY <1>1
  <2> QED
    BY <1>1, <1>2, <1>3, <2>1, WorkMaps
<1> QED
  BY <1>3, <1>4, <1>5, <1>6 DEF IInv

\* What a read leaves behind in the call.
LEMMA ReadType ==
    ASSUME TypeOK, NEW k \in Call
    PROVE  /\ Read(k) \in Call /\ Read(k).pc = k.pc /\ Read(k).op = k.op
           /\ Read(k).answer = k.answer
<1>1. Shown \in Config
  BY DEF TypeOK, Shown
<1> DEFINE why == k.why \cup Met("leftover", Shown # running)
                        \cup Met("name", Nameless(Shown))
                        \cup Met("digits", Misread(Shown))
                        \cup Met("range", Unparsable(Shown) /\ ~Memberless(Shown))
                        \cup Met("memberless", Memberless(Shown))
                        \cup Met("down", Mode(Shown) = "down")
<1>2. why \subseteq Causes
  BY CallType DEF Met, Causes
<1>3. Read(k) = [k EXCEPT !.seen = Shown, !.why = why]
  BY DEF Read
<1> HIDE DEF why
<1> QED
  BY <1>1, <1>2, <1>3 DEF Call

\* A call that ends.
LEMMA DoneType ==
    ASSUME NEW k \in Call, NEW answer \in {"ok", "failed"}, NEW why \in SUBSET Causes
    PROVE  /\ Done(k, answer) \in Call
           /\ Done(k, answer).op = k.op /\ Done(k, answer).pc = "done"
           /\ Done(k, answer).answer = answer
           /\ [Done(k, answer) EXCEPT !.why = @ \cup why] \in Call
           /\ [Done(k, answer) EXCEPT !.why = @ \cup why].op = k.op
           /\ [Done(k, answer) EXCEPT !.why = @ \cup why].pc = "done"
           /\ [Done(k, answer) EXCEPT !.why = @ \cup why].answer = answer
<1>1. Done(k, answer) = [k EXCEPT !.pc = "done", !.answer = answer]
  BY DEF Done
<1>2. Done(k, answer) \in Call
  BY <1>1 DEF Call, Places
<1>3. [Done(k, answer) EXCEPT !.why = @ \cup why] \in Call
  BY <1>2 DEF Call
<1> QED
  BY <1>1, <1>2, <1>3 DEF Call

\* A call may always end.
LEMMA DoneOK ==
    ASSUME NEW k \in Call, k.pc = "done"
    PROVE  CallOK(k)
  BY DEF CallOK

LEMMA MetType ==
    ASSUME NEW cause \in Causes, NEW condition
    PROVE  Met(cause, condition) \in SUBSET Causes
  BY DEF Met

LEMMA ReadFailsMaps ==
    ASSUME IInv, NEW r \in Requests, ReadFails(r)
    PROVE  IInv' /\ Promise!Next
<1> DEFINE k == [Done(call[r], "failed") EXCEPT !.why = @ \cup {"fault"}]
<1>1. /\ call[r].pc \notin {"idle", "done", "commit"}
      /\ Advance(r, k, running) /\ Untouched
  BY DEF ReadFails
<1>2. call[r] \in Call
  BY DEF IInv, TypeOK
<1>3. k \in Call /\ k.op = call[r].op /\ k.pc = "done"
  <2>1. {"fault"} \in SUBSET Causes
    BY DEF Causes
  <2> QED
    BY <1>2, <2>1, DoneType
<1> HIDE DEF k
<1> QED
  BY <1>1, <1>3, DoneOK, QuietStep

LEMMA FlipMaps ==
    ASSUME IInv, NEW r \in Requests, Flip(r)
    PROVE  IInv' /\ Promise!Next
<1>1. call[r] \in Call /\ CallOK(call[r])
  BY DEF IInv, TypeOK, CallInv
<1>2. /\ Read(call[r]) \in Call /\ Read(call[r]).pc = call[r].pc /\ Read(call[r]).op = call[r].op
      /\ Read(call[r]).answer = call[r].answer
  BY <1>1, ReadType DEF IInv
<1>3. ASSUME NEW answer \in {"ok", "failed"}, call[r].pc \in {"pre", "post"},
             Advance(r, Done(Read(call[r]), answer), running), Untouched
      PROVE  IInv' /\ Promise!Next
  <2>1. Done(Read(call[r]), answer) \in Call /\ Done(Read(call[r]), answer).op = call[r].op
        /\ Done(Read(call[r]), answer).pc = "done"
    BY <1>2, DoneType
  <2> QED
    BY <1>3, <2>1, DoneOK, QuietStep
<1>4. CASE FlipRefused(r)
  BY <1>3, <1>4 DEF FlipRefused, At
<1>5. CASE FlipSame(r)
  BY <1>3, <1>5 DEF FlipSame, At
<1>6. CASE FlipPost(r)
  <2>1. PICK answer \in {"ok", "failed"} : Advance(r, Done(Read(call[r]), answer), running)
    BY <1>6 DEF FlipPost
  <2> QED
    BY <1>3, <1>6, <2>1 DEF FlipPost, At
<1>7. CASE FlipDiffers(r)
  <2> DEFINE k == [Read(call[r]) EXCEPT !.pc = "build"]
  <2>1. call[r].pc = "pre" /\ Kind(r) = "flip" /\ Advance(r, k, running) /\ Untouched
    BY <1>7 DEF FlipDiffers, At
  <2>2. k \in Call /\ k.op = call[r].op /\ k.pc = "build" /\ k.answer = call[r].answer
    BY <1>2 DEF Call, Places
  <2> HIDE DEF k
  <2>3. CallOK(k)
    BY <1>1, <2>1, <2>2 DEF CallOK, Kind
  <2> QED
    BY <2>1, <2>2, <2>3, QuietStep
<1>8. CASE FlipMalformed(r)
  <2>1. call[r].pc = "build" /\ Advance(r, Done(call[r], "failed"), running) /\ Untouched
    BY <1>8 DEF FlipMalformed, At, Finish
  <2>2. Done(call[r], "failed") \in Call /\ Done(call[r], "failed").op = call[r].op
        /\ Done(call[r], "failed").pc = "done"
    BY <1>1, DoneType
  <2> QED
    BY <2>1, <2>2, DoneOK, QuietStep
<1>9. CASE FlipBuild(r)
  <2> DEFINE k == [call[r] EXCEPT !.pc = "push", !.native = Shown.native]
  <2>1. call[r].pc = "build" /\ Shaped(call[r].op) /\ Advance(r, k, running) /\ Untouched
    BY <1>9 DEF FlipBuild, At
  <2>2. Shown.native \in Tags \cup {NoVlan}
    BY ConfigType DEF IInv, TypeOK, Shown
  <2>3. k \in Call /\ k.op = call[r].op /\ k.pc = "push" /\ k.answer = call[r].answer
    BY <1>1, <2>2 DEF Call, Places
  <2> HIDE DEF k
  <2>4. CallOK(k)
    BY <1>1, <2>1, <2>3 DEF CallOK
  <2> QED
    BY <2>1, <2>3, <2>4, QuietStep
<1> QED
  BY <1>4, <1>5, <1>6, <1>7, <1>8, <1>9 DEF Flip

LEMMA LabelMaps ==
    ASSUME IInv, NEW r \in Requests, LabelStart(r) \/ LabelPost(r)
    PROVE  IInv' /\ Promise!Next
<1>1. call[r] \in Call /\ CallOK(call[r])
  BY DEF IInv, TypeOK, CallInv
<1>2. Done(call[r], "ok") \in Call /\ Done(call[r], "ok").op = call[r].op
      /\ Done(call[r], "ok").pc = "done"
  BY <1>1, DoneType
<1>3. CASE LabelStart(r) /\ switch.os = "ios"
  <2>1. call[r].pc = "pre" /\ Advance(r, Done(call[r], "ok"), running) /\ Untouched
    BY <1>3 DEF LabelStart, Finish, At
  <2> QED
    BY <1>2, <2>1, DoneOK, QuietStep
<1>4. CASE LabelStart(r) /\ switch.os # "ios"
  <2> DEFINE k == [call[r] EXCEPT !.pc = "push"]
  <2>1. call[r].pc = "pre" /\ Kind(r) = "label" /\ Advance(r, k, running) /\ Untouched
    BY <1>4 DEF LabelStart, Goto, At
  <2>2. k \in Call /\ k.op = call[r].op /\ k.pc = "push" /\ k.answer = call[r].answer
    BY <1>1 DEF Call, Places
  <2> HIDE DEF k
  <2>3. CallOK(k)
    BY <1>1, <2>1, <2>2 DEF CallOK, Kind
  <2> QED
    BY <2>1, <2>2, <2>3, QuietStep
<1>5. CASE LabelPost(r)
  <2> DEFINE met == Met("leftover", Shown # running)
             k(answer) == [Done(call[r], answer) EXCEPT !.why = @ \cup met]
  <2>1. PICK answer \in {"ok", "failed"} : Advance(r, k(answer), running)
    BY <1>5 DEF LabelPost
  <2>2. call[r].pc = "post" /\ Untouched
    BY <1>5 DEF LabelPost, At
  <2>3. met \in SUBSET Causes
    BY MetType DEF Causes
  <2> HIDE DEF met
  <2>4. k(answer) \in Call /\ k(answer).op = call[r].op /\ k(answer).pc = "done"
    BY <1>1, <2>3, DoneType
  <2> QED
    BY <2>1, <2>2, <2>4, DoneOK, QuietStep
<1> QED
  BY <1>3, <1>4, <1>5

LEMMA AdminMaps ==
    ASSUME IInv, NEW r \in Requests,
           AdminUnknown(r) \/ AdminProbe(r) \/ AdminSnap(r) \/ AdminReprobe(r) \/ AdminPost(r)
    PROVE  IInv' /\ Promise!Next
<1>1. call[r] \in Call /\ CallOK(call[r])
  BY DEF IInv, TypeOK, CallInv
<1>2. running \in Config
  BY DEF IInv, TypeOK
<1>3. ASSUME NEW answer \in {"ok", "failed"}
      PROVE  /\ Done(call[r], answer) \in Call /\ Done(call[r], answer).op = call[r].op
             /\ Done(call[r], answer).pc = "done"
  BY <1>1, DoneType
<1>4. CASE AdminUnknown(r)
  <2>1. call[r].pc = "pre" /\ Advance(r, Done(call[r], "failed"), running) /\ Untouched
    BY <1>4 DEF AdminUnknown, Finish, At
  <2> QED
    BY <1>3, <2>1, DoneOK, QuietStep
<1>5. ASSUME NEW pc \in {"snap", "postsnap"}, call[r].pc \in {"pre", "post"}, Kind(r) = "admin", Found,
             Untouched,
             Advance(r, [call[r] EXCEPT !.pc = pc, !.enabled = IsEnabled(running),
                                        !.why = @ \cup Met("offlabel", running.label \in OffLabels)],
                     running)
      PROVE  IInv' /\ Promise!Next
  <2> DEFINE met == Met("offlabel", running.label \in OffLabels)
             enabled == IsEnabled(running)
             k == [call[r] EXCEPT !.pc = pc, !.enabled = enabled, !.why = @ \cup met]
  <2>1. met \in SUBSET Causes
    BY MetType DEF Causes
  <2>2. enabled \in BOOLEAN
    BY <1>2, ConfigType DEF IsEnabled, ShowsOff
  <2>3. Advance(r, k, running)
    BY <1>5
  <2> HIDE DEF met, enabled
  <2>4. k \in Call /\ k.op = call[r].op /\ k.pc = pc /\ k.answer = call[r].answer
    BY <1>1, <2>1, <2>2 DEF Call, Places
  <2>5. ~Junos
    BY <1>5 DEF Found, Junos
  <2> HIDE DEF k
  <2>6. CallOK(k)
    BY <1>1, <1>5, <2>4, <2>5 DEF CallOK, Kind
  <2> QED
    BY <1>5, <2>3, <2>4, <2>6, QuietStep
<1>6. CASE AdminProbe(r)
  BY <1>5, <1>6 DEF AdminProbe, At
<1>7. CASE AdminReprobe(r)
  BY <1>5, <1>7 DEF AdminReprobe, At
<1>8. CASE AdminSnap(r) /\ Already(call[r])
  <2>1. call[r].pc = "snap" /\ Advance(r, Done(call[r], "ok"), running) /\ Untouched
    BY <1>8 DEF AdminSnap, At
  <2> QED
    BY <1>3, <2>1, DoneOK, QuietStep
<1>9. CASE AdminSnap(r) /\ ~Already(call[r])
  <2> DEFINE k == [call[r] EXCEPT !.pc = "push", !.seen = running]
  <2>1. call[r].pc = "snap" /\ Advance(r, k, running) /\ Untouched
    BY <1>9 DEF AdminSnap, At
  <2>2. k \in Call /\ k.op = call[r].op /\ k.pc = "push" /\ k.answer = call[r].answer
    BY <1>1, <1>2 DEF Call, Places
  <2> HIDE DEF k
  <2>3. CallOK(k)
    BY <1>1, <2>1, <2>2 DEF CallOK
  <2> QED
    BY <2>1, <2>2, <2>3, QuietStep
<1>10. CASE AdminPost(r)
  <2> DEFINE met == Met("masked", running # [call[r].seen EXCEPT !.off = running.off])
             next == IF Unconfirmed(call[r]) THEN [call[r] EXCEPT !.pc = "undo"] ELSE Done(call[r], "ok")
             k == [next EXCEPT !.why = @ \cup met]
  <2>1. call[r].pc = "postsnap" /\ Advance(r, k, running) /\ Untouched
    BY <1>10 DEF AdminPost, At
  <2>2. met \in SUBSET Causes
    BY MetType DEF Causes
  <2>3. [call[r] EXCEPT !.pc = "undo"] \in Call
    BY <1>1 DEF Call, Places
  <2>4. /\ next \in Call /\ next.op = call[r].op
        /\ next.pc = "done" \/ (next.pc = "undo" /\ next.answer = call[r].answer)
    BY <1>1, <1>3, <2>3 DEF Call
  <2> HIDE DEF next, met
  <2>5. k \in Call /\ k.op = next.op /\ k.pc = next.pc /\ k.answer = next.answer
    BY <2>2, <2>4 DEF Call
  <2> HIDE DEF k
  <2>6. CallOK(k)
    BY <1>1, <2>1, <2>4, <2>5 DEF CallOK
  <2> QED
    BY <2>1, <2>4, <2>5, <2>6, QuietStep
<1> QED
  BY <1>4, <1>6, <1>7, <1>8, <1>9, <1>10

-----------------------------------------------------------------------------
(* Steps that change the switch.                                           *)

\* A call that changes the running configuration, or saves it.
LEMMA SwitchStep ==
    ASSUME IInv, NEW r \in Requests, NEW k \in Call, CallOK(k), k.op = call[r].op, k.pc # "idle",
           call[r].pc \notin {"idle", "done"},
           running' \in Config, startup' \in {startup, running'}, UNCHANGED <<switch, link, cand>>,
           Advance(r, k, running'),
           \A p \in Parts : Part(running', p) # Part(running, p) =>
               \E q \in Requests : Kind(q) = p /\ call[q].pc # "idle" /\ call[q].answer # "ok",
           CandInv'
    PROVE  IInv' /\ Promise!Next
<1>1. /\ call' \in [Requests -> Call] /\ call'[r] = k
      /\ \A q \in Requests \ {r} :
            /\ call'[q].pc = call[q].pc /\ call'[q].op = call[q].op
            /\ call'[q].answer = call[q].answer
  BY AdvanceEffect DEF IInv
<1>2. TypeOK'
  BY <1>1 DEF IInv, TypeOK
<1>3. CallInv'
  BY <1>1 DEF IInv, CallInv, CallOK, Junos
<1>4. Promise!Next
  BY <1>1, <1>2, WorkMaps
<1> QED
  BY <1>2, <1>3, <1>4 DEF IInv

LEMMA PushMaps ==
    ASSUME IInv, NEW r \in Requests,
           PushTakes(r) \/ PushIgnored(r) \/ PushBreaks(r) \/ SaveIos(r) \/ Undo(r)
    PROVE  IInv' /\ Promise!Next
<1>1. call[r] \in Call /\ CallOK(call[r]) /\ running \in Config /\ {"fault"} \in SUBSET Causes
  BY DEF IInv, TypeOK, CallInv, Causes
<1>2. NextPlace(r) \in {"save", "post"} /\ (NextPlace(r) = "save" => ~Junos)
  BY DEF NextPlace, Junos
<1>3. CASE PushTakes(r)
  <2> DEFINE k == [call[r] EXCEPT !.pc = NextPlace(r), !.sent = TRUE]
  <2>1. /\ call[r].pc = "push" /\ ~Junos /\ running' = Edit(running, call[r])
        /\ startup' \in {startup, running'} /\ UNCHANGED <<switch, link, cand>>
        /\ Advance(r, k, running')
    BY <1>3 DEF PushTakes, At
  <2>2. /\ running' \in Config
        /\ \A p \in Parts : Part(running', p) # Part(running, p) => call[r].op.kind = p
    BY <1>1, <2>1, EditEffect DEF CallOK
  <2>3. k \in Call /\ k.op = call[r].op /\ k.pc = NextPlace(r) /\ k.answer = call[r].answer
    BY <1>1, <1>2 DEF Call, Places
  <2> HIDE DEF k
  <2>4. CallOK(k)
    BY <1>1, <1>2, <2>1, <2>3 DEF CallOK
  <2>5. CandInv'
    BY <2>1 DEF CandInv, Junos
  <2> QED
    BY <1>1, <1>2, <2>1, <2>2, <2>3, <2>4, <2>5, SwitchStep DEF CallOK, Kind
<1>4. CASE PushIgnored(r)
  <2> DEFINE k == [call[r] EXCEPT !.pc = NextPlace(r), !.sent = TRUE, !.why = @ \cup {"fault"}]
  <2>1. call[r].pc = "push" /\ ~Junos /\ Advance(r, k, running) /\ Untouched
    BY <1>4 DEF PushIgnored, At
  <2>2. k \in Call /\ k.op = call[r].op /\ k.pc = NextPlace(r) /\ k.answer = call[r].answer
    BY <1>1, <1>2 DEF Call, Places
  <2> HIDE DEF k
  <2>3. CallOK(k)
    BY <1>1, <1>2, <2>1, <2>2 DEF CallOK
  <2> QED
    BY <1>2, <2>1, <2>2, <2>3, QuietStep
<1>5. CASE PushBreaks(r)
  <2> DEFINE k == [Done(call[r], "failed") EXCEPT !.sent = TRUE, !.why = @ \cup {"fault"}]
  <2>1. /\ call[r].pc = "push" /\ ~Junos /\ running' \in {running, Edit(running, call[r])}
        /\ UNCHANGED <<switch, link, startup, cand>>
        /\ Advance(r, k, running')
    BY <1>5 DEF PushBreaks, At
  <2>2. /\ running' \in Config
        /\ \A p \in Parts : Part(running', p) # Part(running, p) => call[r].op.kind = p
    BY <1>1, <2>1, EditEffect DEF CallOK
  <2>3. k \in Call /\ k.op = call[r].op /\ k.pc = "done"
    BY <1>1 DEF Call, Places, Done
  <2> HIDE DEF k
  <2>4. CandInv'
    BY <2>1 DEF CandInv, Junos
  <2> QED
    BY <1>1, <2>1, <2>2, <2>3, <2>4, DoneOK, SwitchStep DEF CallOK, Kind
<1>6. CASE SaveIos(r)
  <2> DEFINE k == [call[r] EXCEPT !.pc = "post"]
  <2>1. /\ call[r].pc = "save" /\ running' = running
        /\ startup' \in {startup, running'} /\ UNCHANGED <<switch, link, cand>>
        /\ Advance(r, k, running')
    BY <1>6 DEF SaveIos, Goto, At
  <2>2. k \in Call /\ k.op = call[r].op /\ k.pc = "post" /\ k.answer = call[r].answer
    BY <1>1 DEF Call, Places
  <2> HIDE DEF k
  <2>3. CallOK(k) /\ ~Junos
    BY <1>1, <2>1, <2>2 DEF CallOK
  <2>4. CandInv'
    BY <2>1, <2>3 DEF CandInv, Junos
  <2> QED
    BY <1>1, <2>1, <2>2, <2>3, <2>4, SwitchStep
<1>7. CASE Undo(r)
  <2> DEFINE k == Done(call[r], "failed")
  <2>1. /\ call[r].pc = "undo" /\ running' \in {running, [running EXCEPT !.off = ~call[r].op.off]}
        /\ startup' \in {startup, running'} /\ UNCHANGED <<switch, link, cand>>
        /\ Advance(r, k, running')
    BY <1>7 DEF Undo, At
  <2>2. call[r].op.kind = "admin" /\ ~Junos /\ call[r].answer = "none"
    BY <1>1, <2>1 DEF CallOK
  <2>3. call[r].op.off \in BOOLEAN
    BY <1>1, CallType, OpType
  <2>4. /\ running' \in Config
        /\ \A p \in Parts : Part(running', p) # Part(running, p) => p = "admin"
    BY <1>1, <2>1, <2>3 DEF Config, Part, Parts
  <2>5. k \in Call /\ k.op = call[r].op /\ k.pc = "done"
    BY <1>1, DoneType
  <2> HIDE DEF k
  <2>6. CandInv'
    BY <2>1, <2>2 DEF CandInv, Junos
  <2> QED
    BY <2>1, <2>2, <2>4, <2>5, <2>6, DoneOK, SwitchStep DEF Kind
<1> QED
  BY <1>3, <1>4, <1>5, <1>6, <1>7

\* Junos: what a commit moves has been asked for by a call that is not answered
\* "ok".
LEMMA CommitMaps ==
    ASSUME IInv, NEW r \in Requests, Commit(r) \/ CommitFails(r)
    PROVE  IInv' /\ Promise!Next
<1>1. call[r] \in Call /\ CallOK(call[r]) /\ cand \in Config /\ running \in Config
  BY DEF IInv, TypeOK, CallInv
<1>2. call[r].pc = "commit" /\ Junos
  BY <1>1 DEF Commit, CommitFails, At, CallOK
<1>3. \A p \in Parts : Part(cand, p) # Part(running, p) =>
        \E q \in Requests : Kind(q) = p /\ call[q].pc # "idle" /\ call[q].answer # "ok"
  <2>1. \A q \in Requests : call[q].pc = "commit" => call[q].answer = "none"
    BY DEF IInv, CallInv, CallOK
  <2> QED
    BY <1>2, <2>1 DEF IInv, CandInv
<1>4. CASE Commit(r)
  <2> DEFINE k == [call[r] EXCEPT !.pc = "post", !.sent = TRUE]
  <2>1. /\ running' = cand /\ startup' = running' /\ UNCHANGED <<switch, link, cand>>
        /\ Advance(r, k, running')
    BY <1>4 DEF Commit
  <2>2. k \in Call /\ k.op = call[r].op /\ k.pc = "post" /\ k.answer = call[r].answer
    BY <1>1 DEF Call, Places
  <2> HIDE DEF k
  <2>3. CallOK(k)
    BY <1>1, <1>2, <2>2 DEF CallOK
  <2>4. CandInv'
    BY <2>1 DEF CandInv
  <2> QED
    BY <1>1, <1>2, <1>3, <2>1, <2>2, <2>3, <2>4, SwitchStep
<1>5. CASE CommitFails(r)
  <2> DEFINE k == [Done(call[r], "failed") EXCEPT !.sent = TRUE, !.why = @ \cup {"fault"}]
  <2>1. /\ \/ running' = running /\ startup' = startup
           \/ running' = cand /\ startup' = running'
        /\ UNCHANGED <<switch, link, cand>>
        /\ Advance(r, k, running')
    BY <1>5 DEF CommitFails
  <2>2. k \in Call /\ k.op = call[r].op /\ k.pc = "done" /\ k.answer = "failed"
    BY <1>1 DEF Call, Places, Done, Causes
  <2> HIDE DEF k
  <2>3. CandInv'
    <3>1. CASE running' = cand
      BY <2>1, <3>1 DEF CandInv
    <3>2. CASE running' = running
      <4>1. /\ call'[r] = k
            /\ \A q \in Requests \ {r} :
                /\ call'[q].pc = call[q].pc /\ call'[q].op = call[q].op
                /\ call'[q].answer = call[q].answer
        BY <2>1, <2>2, AdvanceEffect DEF IInv
      <4> SUFFICES ASSUME NEW p \in Parts, Part(cand, p) # Part(running, p)
                   PROVE  \E q \in Requests :
                            /\ call'[q].op.kind = p
                            /\ \/ call'[q].pc = "commit"
                               \/ call'[q].pc = "done" /\ call'[q].answer = "failed"
        BY <2>1, <3>2 DEF CandInv, Junos, Kind, Part
      <4>2. PICK q \in Requests : /\ call[q].op.kind = p
                                  /\ \/ call[q].pc = "commit"
                                     \/ call[q].pc = "done" /\ call[q].answer = "failed"
        BY <1>2 DEF IInv, CandInv, Kind
      <4> QED
        BY <2>2, <4>1, <4>2
    <3> QED
      BY <2>1, <3>1, <3>2
  <2> QED
    BY <1>1, <1>2, <1>3, <2>1, <2>2, <2>3, DoneOK, SwitchStep
<1> QED
  BY <1>4, <1>5

\* A load changes the candidate that the calls share, and nothing in force.
LEMMA LoadMaps ==
    ASSUME IInv, NEW r \in Requests, Load(r)
    PROVE  IInv' /\ Promise!Next
<1>1. call[r] \in Call /\ CallOK(call[r]) /\ cand \in Config
  BY DEF IInv, TypeOK, CallInv
<1>2. /\ call[r].pc = "push" /\ Junos /\ cand' = Edit(cand, call[r])
      /\ UNCHANGED <<switch, link, running, startup>>
  BY DEF Load, At
<1>3. /\ cand' \in Config
      /\ \A p \in Parts : Part(cand', p) # Part(cand, p) => call[r].op.kind = p
  BY <1>1, <1>2, EditEffect DEF CallOK
<1> DEFINE new(q) == IF q = r THEN [call[q] EXCEPT !.pc = "commit"]
                     ELSE IF At(q, "commit") /\ Part(cand', Kind(q)) # Part(cand, Kind(q))
                     THEN [call[q] EXCEPT !.why = @ \cup {"disturbed"}]
                     ELSE call[q]
<1>4. ASSUME NEW q \in Requests
      PROVE  /\ new(q) \in Call /\ new(q).op = call[q].op /\ new(q).answer = call[q].answer
             /\ new(q).pc = IF q = r THEN "commit" ELSE call[q].pc
  <2>1. call[q] \in Call
    BY DEF IInv, TypeOK
  <2>2. [call[q] EXCEPT !.pc = "commit"] \in Call /\ [call[q] EXCEPT !.why = @ \cup {"disturbed"}] \in Call
    BY <2>1 DEF Call, Places, Causes
  <2> QED
    BY <2>1, <2>2 DEF Call
<1>5. call' = [q \in Requests |-> new(q)]
  BY DEF Load
<1> HIDE DEF new
<1>6. /\ call' \in [Requests -> Call]
      /\ \A q \in Requests : /\ call'[q].op = call[q].op /\ call'[q].answer = call[q].answer
                             /\ call'[q].pc = IF q = r THEN "commit" ELSE call[q].pc
  BY <1>4, <1>5
<1>7. TypeOK'
  BY <1>2, <1>3, <1>6 DEF IInv, TypeOK
<1>8. call[r].op.kind # "admin" /\ call[r].answer = "none"
  BY <1>1, <1>2 DEF CallOK
<1>9. CallInv'
  BY <1>2, <1>6, <1>8 DEF IInv, CallInv, CallOK, Junos
<1>10. CandInv'
  <2> SUFFICES ASSUME NEW p \in Parts, Part(cand', p) # Part(running, p)
               PROVE  \E q \in Requests :
                        /\ call'[q].op.kind = p
                        /\ \/ call'[q].pc = "commit"
                           \/ call'[q].pc = "done" /\ call'[q].answer = "failed"
    BY <1>2 DEF CandInv, Junos, Kind, Part
  <2>1. CASE call[r].op.kind = p
    BY <1>6, <2>1
  <2>2. CASE call[r].op.kind # p
    <3>1. Part(cand, p) # Part(running, p)
      BY <1>3, <2>2
    <3>2. PICK q \in Requests : /\ call[q].op.kind = p
                                /\ \/ call[q].pc = "commit"
                                   \/ call[q].pc = "done" /\ call[q].answer = "failed"
      BY <1>2, <3>1 DEF IInv, CandInv, Kind
    <3> QED
      BY <1>6, <2>2, <3>2
  <2> QED
    BY <2>1, <2>2
<1>11. Promise!Next
  <2>1. \A p \in Parts : Part(running', p) = Part(running, p)
    BY <1>2
  <2> QED
    BY <1>2, <1>6, <1>7, <2>1, WorkMaps
<1> QED
  BY <1>7, <1>9, <1>10, <1>11 DEF IInv

-----------------------------------------------------------------------------
(* Requests and the environment.                                           *)

LEMMA AskMaps ==
    ASSUME IInv, NEW r \in Requests, Ask(r)
    PROVE  IInv' /\ Promise!Next
<1>1. call[r] \in Call /\ CallOK(call[r]) /\ call[r].pc = "idle"
  BY DEF IInv, TypeOK, CallInv, Ask, At
<1>2. UNCHANGED <<switch, link, running, startup, cand>>
  BY DEF Ask, Untouched
<1>3. PICK op \in Ops : Advance(r, [call[r] EXCEPT !.pc = "pre", !.op = op], running)
  BY DEF Ask
<1> DEFINE k == [call[r] EXCEPT !.pc = "pre", !.op = op]
<1>4. op \in Op /\ op.kind \in Parts
  BY DriverAssumption, OpType
<1>5. k \in Call /\ k.op = op /\ k.pc = "pre" /\ k.answer = "none"
  BY <1>1, <1>4 DEF Call, Places, CallOK
<1> HIDE DEF k
<1>6. /\ call' \in [Requests -> Call] /\ call'[r] = k
      /\ \A q \in Requests \ {r} :
            /\ call'[q].pc = call[q].pc /\ call'[q].op = call[q].op
            /\ call'[q].answer = call[q].answer
  BY <1>3, <1>5, AdvanceEffect DEF IInv, k
<1>7. TypeOK'
  BY <1>2, <1>6 DEF IInv, TypeOK
<1>8. CallInv'
  BY <1>2, <1>5, <1>6 DEF IInv, CallInv, CallOK, Junos
<1>9. CandInv'
  <2> SUFFICES ASSUME Junos, NEW p \in Parts, Part(cand, p) # Part(running, p)
               PROVE  \E q \in Requests :
                        /\ call'[q].op.kind = p
                        /\ \/ call'[q].pc = "commit"
                           \/ call'[q].pc = "done" /\ call'[q].answer = "failed"
    BY <1>2 DEF CandInv, Junos, Kind, Part
  <2>1. PICK q \in Requests : /\ call[q].op.kind = p
                              /\ \/ call[q].pc = "commit"
                                 \/ call[q].pc = "done" /\ call[q].answer = "failed"
    BY DEF IInv, CandInv, Kind
  <2> QED
    BY <1>1, <1>6, <2>1
<1> DEFINE asked == [q \in Requests |-> IF At(q, "idle") THEN "none" ELSE Kind(q)]
           answer == [q \in Requests |-> call[q].answer]
<1>10. asked[r] = "none" /\ asked' = [asked EXCEPT ![r] = op.kind]
  BY <1>1, <1>5, <1>6 DEF At, Kind
<1>11. answer' = answer
  BY <1>1, <1>5, <1>6 DEF CallOK
<1>12. Promise!Ask(r)
  BY <1>2, <1>4, <1>10, <1>11 DEF Promise!Ask, Abstract, Parts
<1> QED
  BY <1>7, <1>8, <1>9, <1>12 DEF IInv, Promise!Next

LEMMA ReloadMaps ==
    ASSUME IInv, Reload
    PROVE  IInv' /\ Promise!Next
<1>1. /\ running' = startup /\ cand' = startup /\ UNCHANGED <<switch, link, startup>>
  BY DEF Reload
<1> DEFINE new(q) == IF At(q, "commit")
                     THEN [Done(call[q], "failed") EXCEPT !.why = @ \cup {"fault"}]
                     ELSE IF ~At(q, "idle") /\ Part(startup, Kind(q)) # Part(running, Kind(q))
                     THEN [call[q] EXCEPT !.why = @ \cup {"disturbed"}]
                     ELSE call[q]
<1>2. ASSUME NEW q \in Requests
      PROVE  /\ new(q) \in Call /\ new(q).op = call[q].op
             /\ new(q).pc = (IF At(q, "commit") THEN "done" ELSE call[q].pc)
             /\ new(q).answer = (IF At(q, "commit") THEN "failed" ELSE call[q].answer)
  <2>1. call[q] \in Call
    BY DEF IInv, TypeOK
  <2>2. CASE At(q, "commit")
    <3>1. new(q) = [call[q] EXCEPT !.pc = "done", !.answer = "failed", !.why = @ \cup {"fault"}]
      BY <2>1, <2>2 DEF Done, Call
    <3> HIDE DEF new
    <3>2. new(q) \in Call
      BY <2>1, <3>1 DEF Call, Places, Causes
    <3>3. new(q).op = call[q].op /\ new(q).pc = "done" /\ new(q).answer = "failed"
      BY <2>1, <3>1 DEF Call
    <3> QED
      BY <2>2, <3>2, <3>3
  <2>3. CASE ~At(q, "commit")
    BY <2>1, <2>3 DEF Call, Causes
  <2> QED
    BY <2>2, <2>3
<1>3. call' = [q \in Requests |-> new(q)]
  BY DEF Reload
<1> HIDE DEF new
<1>4. /\ call' \in [Requests -> Call]
      /\ \A q \in Requests :
            /\ call'[q].op = call[q].op
            /\ call'[q].pc = (IF call[q].pc = "commit" THEN "done" ELSE call[q].pc)
            /\ call'[q].answer = (IF call[q].pc = "commit" THEN "failed" ELSE call[q].answer)
  BY <1>2, <1>3 DEF At
<1>5. TypeOK'
  BY <1>1, <1>4 DEF IInv, TypeOK
<1>6. CallInv'
  BY <1>1, <1>4 DEF IInv, CallInv, CallOK, Junos
<1>7. CandInv'
  BY <1>1 DEF CandInv, Part
<1> DEFINE asked == [q \in Requests |-> IF At(q, "idle") THEN "none" ELSE Kind(q)]
           answer == [q \in Requests |-> call[q].answer]
           lost == { q \in Requests : call[q].pc = "commit" }
<1>8. asked' = asked
  BY <1>4 DEF At, Kind
<1>9. \A q \in lost : asked[q] # "none" /\ answer[q] = "none"
  <2> SUFFICES ASSUME NEW q \in Requests, call[q].pc = "commit"
               PROVE  asked[q] # "none" /\ answer[q] = "none"
    OBVIOUS
  <2>1. call[q] \in Call /\ CallOK(call[q])
    BY DEF IInv, TypeOK, CallInv
  <2>2. Kind(q) \in Parts
    BY <2>1, CallType, OpType DEF Kind
  <2> QED
    BY <2>1, <2>2 DEF At, CallOK, Parts
<1>10. answer' = [q \in Requests |-> IF q \in lost THEN "failed" ELSE answer[q]]
  BY <1>4
<1>11. Abstract(running') = Abstract(startup) /\ Abstract(startup') = Abstract(startup)
  BY <1>1
<1>12. Promise!Reload
  <2>1. lost \in SUBSET { q \in Requests : asked[q] # "none" /\ answer[q] = "none" }
    BY <1>9
  <2> HIDE DEF lost
  <2> QED
    BY <1>8, <1>10, <1>11, <2>1 DEF Promise!Reload, Promise!Outstanding
<1> QED
  BY <1>5, <1>6, <1>7, <1>12 DEF IInv, Promise!Next

\* Each step keeps the invariant, and is a step of DeviceCall or none.
LEMMA StepMaps == IInv /\ [Next]_vars => IInv' /\ [Promise!Next]_(Promise!vars)
<1> SUFFICES ASSUME IInv, [Next]_vars PROVE IInv' /\ [Promise!Next]_(Promise!vars)
  OBVIOUS
<1>1. ASSUME NEW r \in Requests,
             Ask(r) \/ ReadFails(r) \/ LabelStart(r) \/ LabelPost(r) \/ Flip(r) \/ Admin(r) \/ Push(r)
      PROVE  IInv' /\ Promise!Next
  BY <1>1, AskMaps, ReadFailsMaps, LabelMaps, FlipMaps, AdminMaps, PushMaps, LoadMaps, CommitMaps
     DEF Admin, Push
<1>2. CASE Reload
  BY <1>2, ReloadMaps
<1>3. CASE LinkChange \/ UNCHANGED vars
  <2>1. UNCHANGED <<switch, running, startup, cand, call>> /\ link' \in BOOLEAN
    BY <1>3 DEF LinkChange, vars, IInv, TypeOK
  <2>2. IInv'
    BY <2>1 DEF IInv, TypeOK, CallInv, CallOK, CandInv, Junos, Kind, Part
  <2>3. UNCHANGED Promise!vars
    BY <2>1 DEF Promise!vars, Abstract, Part, At, Kind
  <2> QED
    BY <2>2, <2>3
<1> QED
  BY <1>1, <1>2, <1>3 DEF Next

LEMMA InitMaps == Init => IInv /\ Promise!Init
<1> SUFFICES ASSUME Init PROVE IInv /\ Promise!Init
  OBVIOUS
<1> DEFINE first == CHOOSE op \in Ops : TRUE
           k == [pc |-> "idle", op |-> first, enabled |-> FALSE, seen |-> running,
                 native |-> NoVlan, sent |-> FALSE, answer |-> "none", why |-> {}]
<1>1. first \in Op
  BY DriverAssumption
<1>2. running \in Config /\ startup = running /\ cand = running /\ link \in BOOLEAN /\ switch \in Switch
  BY DriverAssumption DEF Init
<1>3. call = [q \in Requests |-> k]
  BY DEF Init
<1> HIDE DEF first
<1>4. k \in Call /\ k.pc = "idle" /\ k.answer = "none"
  BY <1>1, <1>2 DEF Call, Places
<1> HIDE DEF k
<1>5. TypeOK
  BY <1>2, <1>3, <1>4 DEF TypeOK
<1>6. CallInv
  BY <1>3, <1>4 DEF CallInv, CallOK
<1>7. CandInv
  BY <1>2 DEF CandInv
<1>8. Promise!Init
  <2>1. Abstract(running) \in Interface
    BY <1>2, AbstractType
  <2> QED
    BY <1>2, <1>3, <1>4, <2>1 DEF Promise!Init, At, Kind
<1> QED
  BY <1>5, <1>6, <1>7, <1>8 DEF IInv

-----------------------------------------------------------------------------
(* The theorems.                                                           *)

THEOREM Inductive == Spec => []IInv
<1>1. Init => IInv
  BY InitMaps
<1>2. IInv /\ [Next]_vars => IInv'
  BY StepMaps
<1> QED
  BY <1>1, <1>2, PTL DEF Spec

\* The interface, the candidate and the calls keep their types, whatever is
\* pushed (update_switch_port_vlans_on_device and the templates around it).
THEOREM TypeCorrect == Spec => []TypeOK
<1>1. IInv => TypeOK
  BY DEF IInv
<1> QED
  BY Inductive, <1>1, PTL

\* The four drivers keep the promise the plugin relies on: a part of the
\* interface changes only while a call is outstanding, and only if a call that
\* was not answered "ok" asked for it; a reload falls back to what was saved.
THEOREM DriversKeepPromise == Spec => Promised
<1>1. Init => Promise!Init
  BY InitMaps
<1>2. IInv /\ [Next]_vars => [Promise!Next]_(Promise!vars)
  BY StepMaps
<1> QED
  BY Inductive, <1>1, <1>2, PTL DEF Spec, Promised, Promise!Spec
=============================================================================
