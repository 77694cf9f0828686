-------------------------- MODULE DriverAnswers_proofs --------------------------
(***************************************************************************)
(* What the answer of a driver call says, for any requests, tags, switches, *)
(* operations and faults: after "ok" the interface is as asked, and would   *)
(* be so after a reload; a call that failed had a reason to.                *)
(***************************************************************************)
EXTENDS VendorDriver_proofs

-----------------------------------------------------------------------------
(* The invariant, of one call k, when c is in force and s is saved.        *)

\* Nothing that makes "ok" wrong has been met.
Trusted(k) ==
    ~Idles(k.op) /\ k.why \cap (Deceptions(k.op) \cup {"disturbed"}) = {}

OkHolds(k, c) == k.answer = "ok" /\ Trusted(k) => Achieved(c, k.op)

\* "Port is already enabled", "already disabled".
ProbeHolds(k, c) ==
    k.pc \in {"snap", "postsnap"} /\ Trusted(k) /\ Already(k) => c.off = k.op.off

\* After an enable the interface is up, or as it was.
EnableHolds(k, c) ==
    k.pc \in {"push", "save", "post", "postsnap"} /\ k.op.kind = "admin" /\ ~k.op.off /\ Trusted(k) =>
        c.off = FALSE \/ c.off = k.seen.off

\* Once a push has been made, and saved, a reload does not change the part.
SavedHolds(k, c, s) ==
    /\ k.sent
    /\ k.pc \in {"post", "postsnap", "done"}
    /\ k.answer # "failed"
    /\ k.why \cap {"fault", "disturbed"} = {}
    /\ ~Unsaved(k.op)
    => Part(s, k.op.kind) = Part(c, k.op.kind)

\* Nothing is pushed before the push, and only enable and disable are on IOS.
SentHolds(k) ==
    /\ k.sent => k.pc \in {"save", "post", "postsnap", "undo", "done"}
    /\ switch.os = "ios" /\ k.op.kind # "admin" => ~k.sent /\ k.pc \in {"idle", "pre", "done"}

Holds(k, c, s) ==
    OkHolds(k, c) /\ ProbeHolds(k, c) /\ EnableHolds(k, c) /\ SavedHolds(k, c, s) /\ SentHolds(k)

OkInv == \A r \in Requests : Holds(call[r], running, startup)

-----------------------------------------------------------------------------
(* What a step of one call does to the others.                             *)

LEMMA AchievedPart ==
    ASSUME NEW op \in Op, NEW c, NEW d, Part(c, op.kind) = Part(d, op.kind), Achieved(c, op)
    PROVE  Achieved(d, op)
<1>1. op.kind \in Parts
  BY OpType
<1>2. CASE op.kind = "admin"
  <2>1. c.off = d.off
    BY <1>2 DEF Part
  <2> QED
    BY <1>2, <2>1 DEF Achieved
<1>3. CASE op.kind = "label"
  <2>1. c.label = d.label
    BY <1>3 DEF Part
  <2> QED
    BY <1>3, <2>1 DEF Achieved
<1>4. CASE op.kind = "flip"
  <2>1. c.mode = d.mode /\ c.access = d.access /\ c.trunk = d.trunk /\ c.native = d.native
    BY <1>4 DEF Part
  <2> QED
    BY <1>4, <2>1 DEF Achieved
<1> QED
  BY <1>1, <1>2, <1>3, <1>4 DEF Parts

\* The part of the call stays.
LEMMA HoldsKept ==
    ASSUME NEW k \in Call, CallOK(k), NEW c, NEW d, NEW s, NEW t, Holds(k, c, s), t \in {s, d},
           Part(c, k.op.kind) = Part(d, k.op.kind)
    PROVE  Holds(k, d, t)
<1>1. k.op \in Op
  BY CallType
<1>2. OkHolds(k, d)
  BY <1>1, AchievedPart DEF Holds, OkHolds
<1>3. k.op.kind = "admin" => c.off = d.off
  BY DEF Part
<1>4. ProbeHolds(k, d)
  BY <1>3 DEF Holds, ProbeHolds, CallOK
<1>5. EnableHolds(k, d)
  BY <1>3 DEF Holds, EnableHolds
<1>6. SavedHolds(k, d, t)
  BY DEF Holds, SavedHolds
<1> QED
  BY <1>2, <1>4, <1>5, <1>6 DEF Holds

\* The part of the call changes under it.
LEMMA HoldsDisturbed ==
    ASSUME NEW k \in Call, NEW c, NEW d, NEW s, NEW t, Holds(k, c, s),
           NEW j, j = [k EXCEPT !.why = @ \cup {"disturbed"}]
    PROVE  Holds(j, d, t)
<1>1. /\ j.pc = k.pc /\ j.op = k.op /\ j.sent = k.sent /\ j.answer = k.answer
      /\ "disturbed" \in j.why
  BY DEF Call
<1>2. SentHolds(j)
  BY <1>1 DEF Holds, SentHolds
<1> QED
  BY <1>1, <1>2 DEF Holds, OkHolds, ProbeHolds, EnableHolds, SavedHolds, Trusted

\* A call that has not begun.
LEMMA HoldsIdle ==
    ASSUME NEW k, NEW c, NEW s, k.pc = "idle", k.answer = "none", k.sent = FALSE
    PROVE  Holds(k, c, s)
  BY DEF Holds, OkHolds, ProbeHolds, EnableHolds, SavedHolds, SentHolds

LEMMA OthersHold ==
    ASSUME IInv, OkInv, NEW r \in Requests, NEW k, NEW c, NEW t, t \in {startup, c},
           Advance(r, k, c), NEW q \in Requests \ {r}
    PROVE  Holds(call'[q], c, t)
<1>1. call[q] \in Call /\ CallOK(call[q]) /\ Holds(call[q], running, startup)
  BY DEF IInv, TypeOK, CallInv, OkInv
<1>2. call'[q] = IF ~At(q, "idle") /\ Part(c, Kind(q)) # Part(running, Kind(q))
                 THEN [call[q] EXCEPT !.why = @ \cup {"disturbed"}]
                 ELSE call[q]
  BY DEF Advance
<1>3. CASE At(q, "idle")
  <2>1. call[q].sent \in BOOLEAN
    BY <1>1, CallType
  <2>2. call[q].pc = "idle" /\ call[q].answer = "none" /\ call[q].sent = FALSE /\ call'[q] = call[q]
    BY <1>1, <1>2, <1>3, <2>1 DEF At, CallOK, Holds, SentHolds
  <2> QED
    BY <2>2, HoldsIdle
<1>4. CASE ~At(q, "idle") /\ Part(c, Kind(q)) # Part(running, Kind(q))
  <2>1. call'[q] = [call[q] EXCEPT !.why = @ \cup {"disturbed"}]
    BY <1>2, <1>4
  <2> QED
    BY <1>1, <2>1, HoldsDisturbed
<1>5. CASE ~At(q, "idle") /\ Part(c, Kind(q)) = Part(running, Kind(q))
  BY <1>1, <1>2, <1>5, HoldsKept DEF Kind
<1> QED
  BY <1>3, <1>4, <1>5

\* The invariant does not change with the switch, which does not change.
LEMMA HoldsNext ==
    ASSUME switch' = switch, \A q \in Requests : Holds(call'[q], running', startup')
    PROVE  OkInv'
  BY DEF OkInv, Holds, OkHolds, ProbeHolds, EnableHolds, SavedHolds, SentHolds, Trusted, Idles,
         Unsaved, Already, Achieved, Carried, Deceptions, Junos, Part

\* A call goes on as k: what must be shown of k.
LEMMA StepHolds ==
    ASSUME IInv, OkInv, NEW r \in Requests, NEW k \in Call, Advance(r, k, running'),
           startup' \in {startup, running'}, switch' = switch,
           Holds(k, running', startup')
    PROVE  OkInv'
<1>1. call'[r] = k
  BY AdvanceEffect DEF IInv
<1>2. \A q \in Requests : Holds(call'[q], running', startup')
  BY <1>1, OthersHold
<1> QED
  BY <1>2, HoldsNext

\* The same when the switch is left alone.
LEMMA QuietHolds ==
    ASSUME IInv, OkInv, NEW r \in Requests, NEW k \in Call, Advance(r, k, running), Untouched,
           Holds(k, running, startup)
    PROVE  OkInv'
  BY StepHolds DEF Untouched

\* A call that fails says nothing.
LEMMA HoldsFailed ==
    ASSUME NEW k, k.pc = "done", k.answer = "failed", NEW c, NEW s,
           switch.os = "ios" /\ k.op.kind # "admin" => ~k.sent
    PROVE  Holds(k, c, s)
  BY DEF Holds, OkHolds, ProbeHolds, EnableHolds, SavedHolds, SentHolds

-----------------------------------------------------------------------------
(* Steps that leave the switch alone.                                      *)

\* A flip that compares equal is done, if the comparison saw the vlans.
LEMMA SameAchieved ==
    ASSUME NEW c \in Config, NEW op \in Op, op.kind = "flip", Same(c, op), ~Nameless(c), ~Misread(c)
    PROVE  Achieved(c, op)
<1>1. /\ op.mode \in {"access", "trunk"} /\ c.trunk \subseteq Tags \cup Names
      /\ c.mode \in {"access", "trunk"}
  BY OpType, ConfigType
<1>2. Mode(c) = op.mode
  BY DEF Same
<1>3. c.mode = op.mode
  BY <1>1, <1>2 DEF Mode, EosMode, NxosMode, JunosMode
<1>4. CASE op.mode = "access"
  <2>1. AccessVlans(c) = {c.access} /\ AccessVlans(c) = op.vlans
    BY <1>2, <1>4 DEF Misread, Same
  <2> QED
    BY <1>3, <1>4, <2>1 DEF Achieved
<1>5. CASE op.mode = "trunk"
  <2>1. c.trunk \cap Names = {} /\ c.trunk # {}
    BY <1>3, <1>5 DEF Nameless
  <2>2. c.trunk \cap Tags = c.trunk
    BY <1>1, <2>1
  <2>3. Parsed(c) = c.trunk
    BY <1>2, <1>5, <2>2 DEF Misread
  <2>4. op.vlans = c.trunk /\ c.native = op.native
    BY <1>5, <2>1, <2>3 DEF Same
  <2>5. Carried(c.trunk) = c.trunk
    BY <2>1, <2>2 DEF Carried
  <2> QED
    BY <1>3, <1>5, <2>4, <2>5 DEF Achieved
<1> QED
  BY <1>1, <1>4, <1>5

\* What a read that says nothing of it has not met.
LEMMA ReadClean ==
    ASSUME NEW k \in Call
    PROVE  /\ Read(k).sent = k.sent
           /\ k.why \subseteq Read(k).why
           /\ "leftover" \notin Read(k).why => Shown = running
           /\ "name" \notin Read(k).why => ~Nameless(Shown)
           /\ "digits" \notin Read(k).why => ~Misread(Shown)
<1> DEFINE why == k.why \cup Met("leftover", Shown # running)
                        \cup Met("name", Nameless(Shown))
                        \cup Met("digits", Misread(Shown))
                        \cup Met("range", Unparsable(Shown) /\ ~Memberless(Shown))
                        \cup Met("memberless", Memberless(Shown))
                        \cup Met("down", Mode(Shown) = "down")
<1>1. Read(k).why = why /\ Read(k).sent = k.sent
  BY DEF Read, Call
<1>2. /\ "leftover" \notin why => Shown = running
      /\ "name" \notin why => ~Nameless(Shown)
      /\ "digits" \notin why => ~Misread(Shown)
  BY DEF Met
<1> QED
  BY <1>1, <1>2

\* What is known of a call before its step.
LEMMA CallFacts ==
    ASSUME IInv, OkInv, NEW r \in Requests
    PROVE  /\ call[r] \in Call /\ CallOK(call[r]) /\ Holds(call[r], running, startup)
           /\ call[r].op \in Op /\ Kind(r) \in Parts /\ call[r].sent \in BOOLEAN
           /\ running \in Config /\ switch \in Switch
<1>1. call[r] \in Call /\ CallOK(call[r]) /\ Holds(call[r], running, startup)
  BY DEF IInv, TypeOK, CallInv, OkInv
<1>2. call[r].op \in Op /\ call[r].sent \in BOOLEAN
  BY <1>1, CallType
<1>3. Kind(r) \in Parts
  BY <1>2, OpType DEF Kind
<1> QED
  BY <1>1, <1>2, <1>3 DEF IInv, TypeOK

\* A call that fails before or after its push.
LEMMA FailedHolds ==
    ASSUME IInv, OkInv, NEW r \in Requests, NEW k \in Call,
           k.pc = "done", k.answer = "failed", k.op = call[r].op, k.sent = call[r].sent
    PROVE  Holds(k, running, startup)
<1>1. switch.os = "ios" /\ k.op.kind # "admin" => ~k.sent
  BY CallFacts DEF Holds, SentHolds
<1> QED
  BY <1>1, HoldsFailed

LEMMA DoneFields ==
    ASSUME NEW k \in Call, NEW answer
    PROVE  Done(k, answer).sent = k.sent /\ Done(k, answer).why = k.why
  BY DEF Done, Call

LEMMA ReadFailsHolds ==
    ASSUME IInv, OkInv, NEW r \in Requests, ReadFails(r)
    PROVE  OkInv'
<1> DEFINE k == [Done(call[r], "failed") EXCEPT !.why = @ \cup {"fault"}]
<1>1. Advance(r, k, running) /\ Untouched
  BY DEF ReadFails
<1>2. /\ k \in Call /\ k.op = call[r].op /\ k.pc = "done" /\ k.answer = "failed"
      /\ k.sent = call[r].sent
  BY CallFacts DEF Call, Done, Places, Causes
<1> HIDE DEF k
<1> QED
  BY <1>1, <1>2, FailedHolds, QuietHolds

LEMMA FlipHolds ==
    ASSUME IInv, OkInv, NEW r \in Requests, Flip(r)
    PROVE  OkInv'
<1>1. call[r] \in Call /\ CallOK(call[r]) /\ Holds(call[r], running, startup)
  BY CallFacts
<1>2. /\ Read(call[r]) \in Call /\ Read(call[r]).pc = call[r].pc /\ Read(call[r]).op = call[r].op
      /\ Read(call[r]).answer = call[r].answer /\ Read(call[r]).sent = call[r].sent
  BY <1>1, ReadType, ReadClean DEF IInv
<1>3. CASE \/ FlipRefused(r)
           \/ FlipPost(r) /\ Advance(r, Done(Read(call[r]), "failed"), running)
  <2> DEFINE k == Done(Read(call[r]), "failed")
  <2>1. Advance(r, k, running) /\ Untouched
    BY <1>3 DEF FlipRefused, FlipPost
  <2>2. /\ k \in Call /\ k.op = call[r].op /\ k.pc = "done" /\ k.answer = "failed"
        /\ k.sent = call[r].sent
    BY <1>2, DoneType, DoneFields
  <2> HIDE DEF k
  <2> QED
    BY <2>1, <2>2, FailedHolds, QuietHolds
<1>4. CASE \/ FlipSame(r)
           \/ FlipPost(r) /\ Same(Shown, call[r].op) /\ Advance(r, Done(Read(call[r]), "ok"), running)
  <2> DEFINE k == Done(Read(call[r]), "ok")
  <2>1. /\ Advance(r, k, running) /\ Untouched /\ Same(Shown, call[r].op)
        /\ Kind(r) = "flip" /\ call[r].pc \in {"pre", "post"}
    BY <1>4 DEF FlipSame, FlipPost, At
  <2>2. /\ k \in Call /\ k.op = call[r].op /\ k.pc = "done" /\ k.answer = "ok"
        /\ k.sent = call[r].sent /\ k.why = Read(call[r]).why
    <3>1. k.sent = call[r].sent /\ k.why = Read(call[r]).why
      BY <1>2, DoneFields
    <3>2. k \in Call /\ k.op = call[r].op /\ k.pc = "done" /\ k.answer = "ok"
      BY <1>2, DoneType
    <3> QED
      BY <3>1, <3>2
  <2> HIDE DEF k
  <2>3. call[r].why \subseteq k.why
    BY <1>1, <2>2, ReadClean
  <2>4. Trusted(k) => Achieved(running, k.op)
    <3> SUFFICES ASSUME Trusted(k) PROVE Achieved(running, k.op)
      OBVIOUS
    <3>1. "name" \notin k.why /\ "leftover" \notin k.why /\ "digits" \notin k.why
      BY <2>1, <2>2 DEF Trusted, Deceptions, Kind
    <3>2. Shown = running /\ ~Nameless(Shown) /\ ~Misread(Shown)
      BY <1>1, <2>2, <3>1, ReadClean
    <3> QED
      BY <2>1, <2>2, <3>2, SameAchieved, CallFacts DEF Kind
  <2>5. SavedHolds(k, running, startup)
    BY <1>1, <2>1, <2>2, <2>3 DEF Holds, SavedHolds, SentHolds, CallOK
  <2>6. SentHolds(k)
    BY <1>1, <2>2 DEF Holds, SentHolds
  <2>7. Holds(k, running, startup)
    BY <2>2, <2>4, <2>5, <2>6 DEF Holds, OkHolds, ProbeHolds, EnableHolds
  <2> QED
    BY <2>1, <2>2, <2>7, QuietHolds
<1>5. CASE FlipDiffers(r)
  <2> DEFINE k == [Read(call[r]) EXCEPT !.pc = "build"]
  <2>1. /\ call[r].pc = "pre" /\ Kind(r) = "flip" /\ ~MustRefuse(call[r].op)
        /\ Advance(r, k, running) /\ Untouched
    BY <1>5 DEF FlipDiffers, At
  <2>2. /\ k \in Call /\ k.op = call[r].op /\ k.pc = "build" /\ k.answer = call[r].answer
        /\ k.sent = call[r].sent
    BY <1>2 DEF Call, Places
  <2> HIDE DEF k
  <2>3. switch.os # "ios"
    BY <2>1 DEF MustRefuse
  <2>4. k.answer = "none" /\ ~k.sent
    BY <1>1, <2>1, <2>2 DEF CallOK, Holds, SentHolds
  <2>5. Holds(k, running, startup)
    BY <2>2, <2>3, <2>4 DEF Holds, OkHolds, ProbeHolds, EnableHolds, SavedHolds, SentHolds
  <2> QED
    BY <2>1, <2>2, <2>5, QuietHolds
<1>6. CASE FlipMalformed(r)
  <2> DEFINE k == Done(call[r], "failed")
  <2>1. Advance(r, k, running) /\ Untouched
    BY <1>6 DEF FlipMalformed, Finish
  <2>2. /\ k \in Call /\ k.op = call[r].op /\ k.pc = "done" /\ k.answer = "failed"
        /\ k.sent = call[r].sent
    BY <1>1, DoneType, DoneFields
  <2> HIDE DEF k
  <2> QED
    BY <2>1, <2>2, FailedHolds, QuietHolds
<1>7. CASE FlipBuild(r)
  <2> DEFINE k == [call[r] EXCEPT !.pc = "push", !.native = Shown.native]
  <2>1. call[r].pc = "build" /\ Advance(r, k, running) /\ Untouched
    BY <1>7 DEF FlipBuild, At
  <2>2. Shown.native \in Tags \cup {NoVlan}
    BY ConfigType DEF IInv, TypeOK, Shown
  <2>3. /\ k \in Call /\ k.op = call[r].op /\ k.pc = "push" /\ k.answer = call[r].answer
        /\ k.sent = call[r].sent
    BY <1>1, <2>2 DEF Call, Places
  <2> HIDE DEF k
  <2>4. k.answer = "none" /\ ~k.sent /\ k.op.kind = "flip" /\ switch.os # "ios"
    BY <1>1, <2>1, <2>3 DEF CallOK, Holds, SentHolds
  <2>5. Holds(k, running, startup)
    BY <2>3, <2>4 DEF Holds, OkHolds, ProbeHolds, EnableHolds, SavedHolds, SentHolds
  <2> QED
    BY <2>1, <2>3, <2>5, QuietHolds
<1>8. FlipPost(r) => \/ Advance(r, Done(Read(call[r]), "failed"), running)
                     \/ Same(Shown, call[r].op) /\ Advance(r, Done(Read(call[r]), "ok"), running)
  BY DEF FlipPost
<1> QED
  BY <1>3, <1>4, <1>5, <1>6, <1>7, <1>8 DEF Flip

LEMMA LabelHolds ==
    ASSUME IInv, OkInv, NEW r \in Requests, LabelStart(r) \/ LabelPost(r)
    PROVE  OkInv'
<1>1. call[r] \in Call /\ CallOK(call[r]) /\ Holds(call[r], running, startup)
  BY CallFacts
<1>2. CASE LabelStart(r) /\ switch.os = "ios"
  <2> DEFINE k == Done(call[r], "ok")
  <2>1. call[r].pc = "pre" /\ Kind(r) = "label" /\ Advance(r, k, running) /\ Untouched
    BY <1>2 DEF LabelStart, Finish, At
  <2>2. k \in Call /\ k.op = call[r].op /\ k.pc = "done"
    BY <1>1, DoneType
  <2>3. k.sent = call[r].sent
    BY <1>1, DoneFields
  <2> HIDE DEF k
  <2>4. ~k.sent /\ Idles(k.op)
    BY <1>1, <1>2, <2>1, <2>2, <2>3 DEF Holds, SentHolds, Idles, Kind
  <2>5. Holds(k, running, startup)
    BY <2>2, <2>4 DEF Holds, OkHolds, ProbeHolds, EnableHolds, SavedHolds, SentHolds, Trusted
  <2> QED
    BY <2>1, <2>2, <2>5, QuietHolds
<1>3. CASE LabelStart(r) /\ switch.os # "ios"
  <2> DEFINE k == [call[r] EXCEPT !.pc = "push"]
  <2>1. call[r].pc = "pre" /\ Kind(r) = "label" /\ Advance(r, k, running) /\ Untouched
    BY <1>3 DEF LabelStart, Goto, At
  <2>2. k \in Call /\ k.op = call[r].op /\ k.pc = "push" /\ k.answer = call[r].answer
        /\ k.sent = call[r].sent
    BY <1>1 DEF Call, Places
  <2> HIDE DEF k
  <2>3. ~k.sent /\ k.answer = "none" /\ k.op.kind = "label"
    BY <1>1, <2>1, <2>2 DEF CallOK, Holds, SentHolds, Kind
  <2>4. Holds(k, running, startup)
    BY <1>3, <2>2, <2>3 DEF Holds, OkHolds, ProbeHolds, EnableHolds, SavedHolds, SentHolds
  <2> QED
    BY <2>1, <2>2, <2>4, QuietHolds
<1>4. CASE LabelPost(r)
  <2> DEFINE met == Met("leftover", Shown # running)
             k(answer) == [Done(call[r], answer) EXCEPT !.why = @ \cup met]
  <2>1. met \in SUBSET Causes
    BY MetType DEF Causes
  <2>2. ASSUME NEW answer \in {"ok", "failed"}
        PROVE  /\ k(answer) \in Call /\ k(answer).op = call[r].op /\ k(answer).pc = "done"
               /\ k(answer).answer = answer /\ k(answer).sent = call[r].sent
               /\ k(answer).why = call[r].why \cup met
    <3> HIDE DEF met
    <3>1. /\ k(answer) \in Call /\ k(answer).op = call[r].op /\ k(answer).pc = "done"
          /\ k(answer).answer = answer
      BY <1>1, <2>1, DoneType
    <3>2. k(answer).sent = call[r].sent /\ k(answer).why = call[r].why \cup met
      BY <1>1 DEF Done, Call
    <3> QED
      BY <3>1, <3>2
  <2> HIDE DEF k
  <2>3. CASE ~Labelled(call[r].op)
    <3>1. Advance(r, k("failed"), running) /\ Untouched
      BY <1>4, <2>3 DEF LabelPost, k
    <3> QED
      BY <2>2, <3>1, FailedHolds, QuietHolds
  <2>4. CASE Labelled(call[r].op)
    <3>1. /\ Advance(r, k("ok"), running) /\ Untouched
          /\ call[r].pc = "post" /\ Kind(r) = "label"
      BY <1>4, <2>4 DEF LabelPost, At, k
    <3>2. /\ k("ok") \in Call /\ k("ok").op = call[r].op /\ k("ok").pc = "done"
          /\ k("ok").answer = "ok" /\ k("ok").sent = call[r].sent
          /\ k("ok").why = call[r].why \cup met
      BY <2>2
    <3>3. Shown.label = call[r].op.label
      BY <2>4 DEF Labelled, EosLabelled, NxosLabelled, JunosLabelled
    <3>4. Trusted(k("ok")) => Shown = running
      BY <3>1, <3>2 DEF Trusted, Deceptions, Met, Kind
    <3>5. OkHolds(k("ok"), running)
      BY <3>1, <3>2, <3>3, <3>4 DEF OkHolds, Achieved, Kind
    <3>6. SavedHolds(k("ok"), running, startup)
      BY <1>1, <3>1, <3>2 DEF Holds, SavedHolds, CallOK
    <3>7. Holds(k("ok"), running, startup)
      BY <1>1, <3>2, <3>5, <3>6 DEF Holds, ProbeHolds, EnableHolds, SentHolds
    <3> QED
      BY <3>1, <3>2, <3>7, QuietHolds
  <2> QED
    BY <2>3, <2>4
<1> QED
  BY <1>2, <1>3, <1>4

\* What is_interface_enabled says of an interface whose label is no trap.
LEMMA ProbeTrue ==
    ASSUME running \in Config, NEW k \in Call, k.op.kind = "admin", k.enabled = IsEnabled(running),
           running.label \in OffLabels => "offlabel" \in k.why, Trusted(k), Already(k)
    PROVE  running.off = k.op.off
<1>1. k.op.off \in BOOLEAN /\ running.off \in BOOLEAN
  BY CallType, OpType, ConfigType
<1>2. CASE k.op.off = TRUE
  <2>1. running.label \notin OffLabels
    BY <1>2 DEF Trusted, Deceptions
  <2>2. IsEnabled(running) = FALSE \/ IsEnabled(running) # TRUE
    BY <1>2 DEF Already
  <2>3. ShowsOff(running)
    BY <2>2 DEF IsEnabled
  <2> QED
    BY <1>1, <1>2, <2>1, <2>3 DEF ShowsOff
<1>3. CASE k.op.off = FALSE
  <2>1. IsEnabled(running) # FALSE
    BY <1>3 DEF Already
  <2>2. ~ShowsOff(running)
    BY <2>1 DEF IsEnabled
  <2> QED
    BY <1>1, <1>3, <2>2 DEF ShowsOff
<1> QED
  BY <1>1, <1>2, <1>3

LEMMA AdminHolds ==
    ASSUME IInv, OkInv, NEW r \in Requests,
           AdminUnknown(r) \/ AdminProbe(r) \/ AdminSnap(r) \/ AdminReprobe(r) \/ AdminPost(r)
    PROVE  OkInv'
<1>1. call[r] \in Call /\ CallOK(call[r]) /\ Holds(call[r], running, startup) /\ running \in Config
  BY CallFacts
<1>2. CASE AdminUnknown(r)
  <2> DEFINE k == Done(call[r], "failed")
  <2>1. Advance(r, k, running) /\ Untouched
    BY <1>2 DEF AdminUnknown, Finish
  <2>2. k \in Call /\ k.op = call[r].op /\ k.pc = "done" /\ k.answer = "failed"
    BY <1>1, DoneType
  <2>3. k.sent = call[r].sent
    BY <1>1, DoneFields
  <2> HIDE DEF k
  <2> QED
    BY <2>1, <2>2, <2>3, FailedHolds, QuietHolds
<1>3. ASSUME NEW pc \in {"snap", "postsnap"},
             \/ call[r].pc = "pre" /\ pc = "snap"
             \/ call[r].pc = "post" /\ pc = "postsnap",
             Kind(r) = "admin", Untouched,
             Advance(r, [call[r] EXCEPT !.pc = pc, !.enabled = IsEnabled(running),
                                        !.why = @ \cup Met("offlabel", running.label \in OffLabels)],
                     running)
      PROVE  OkInv'
  <2> DEFINE met == Met("offlabel", running.label \in OffLabels)
             enabled == IsEnabled(running)
             k == [call[r] EXCEPT !.pc = pc, !.enabled = enabled, !.why = @ \cup met]
  <2>1. met \in SUBSET Causes
    BY MetType DEF Causes
  <2>2. enabled \in BOOLEAN
    BY <1>1, ConfigType DEF IsEnabled, ShowsOff
  <2>3. Advance(r, k, running)
    BY <1>3
  <2>4. running.label \in OffLabels => "offlabel" \in met
    BY DEF Met
  <2> HIDE DEF met, enabled
  <2>5. /\ k \in Call /\ k.op = call[r].op /\ k.pc = pc /\ k.answer = call[r].answer
        /\ k.sent = call[r].sent /\ k.enabled = enabled /\ k.seen = call[r].seen
        /\ k.why = call[r].why \cup met
    BY <1>1, <2>1, <2>2 DEF Call, Places
  <2> HIDE DEF k
  <2>6. ProbeHolds(k, running)
    BY <1>1, <1>3, <2>4, <2>5, ProbeTrue DEF ProbeHolds, Kind, enabled
  <2>7. Trusted(k) => Trusted(call[r])
    BY <2>5 DEF Trusted
  <2>8. EnableHolds(k, running)
    BY <1>1, <1>3, <2>5, <2>7 DEF Holds, EnableHolds
  <2>9. SavedHolds(k, running, startup)
    BY <1>1, <1>3, <2>5 DEF Holds, SavedHolds, CallOK
  <2>10. SentHolds(k) /\ k.answer = "none"
    BY <1>1, <1>3, <2>5 DEF Holds, SentHolds, CallOK, Kind
  <2>11. Holds(k, running, startup)
    BY <2>6, <2>8, <2>9, <2>10 DEF Holds, OkHolds
  <2> QED
    BY <1>3, <2>3, <2>5, <2>11, QuietHolds
<1>4. CASE AdminProbe(r)
  BY <1>3, <1>4 DEF AdminProbe, At
<1>5. CASE AdminReprobe(r)
  BY <1>3, <1>5 DEF AdminReprobe, At
<1>6. CASE AdminSnap(r) /\ Already(call[r])
  <2> DEFINE k == Done(call[r], "ok")
  <2>1. call[r].pc = "snap" /\ Advance(r, k, running) /\ Untouched
    BY <1>6 DEF AdminSnap, At
  <2>2. k \in Call /\ k.op = call[r].op /\ k.pc = "done" /\ k.answer = "ok"
    BY <1>1, DoneType
  <2>3. k.sent = call[r].sent /\ k.why = call[r].why
    BY <1>1, DoneFields
  <2> HIDE DEF k
  <2>4. call[r].op.kind = "admin" /\ ~k.sent
    BY <1>1, <2>1, <2>3 DEF CallOK, Holds, SentHolds
  <2>5. Trusted(k) => running.off = k.op.off
    BY <1>1, <1>6, <2>1, <2>2, <2>3 DEF Trusted, Holds, ProbeHolds
  <2>6. OkHolds(k, running)
    BY <2>2, <2>4, <2>5 DEF OkHolds, Achieved
  <2>7. Holds(k, running, startup)
    BY <2>2, <2>4, <2>6 DEF Holds, ProbeHolds, EnableHolds, SavedHolds, SentHolds
  <2> QED
    BY <2>1, <2>2, <2>7, QuietHolds
<1>7. CASE AdminSnap(r) /\ ~Already(call[r])
  <2> DEFINE k == [call[r] EXCEPT !.pc = "push", !.seen = running]
  <2>1. call[r].pc = "snap" /\ Advance(r, k, running) /\ Untouched
    BY <1>7 DEF AdminSnap, At
  <2>2. k \in Call /\ k.op = call[r].op /\ k.pc = "push" /\ k.answer = call[r].answer
        /\ k.sent = call[r].sent /\ k.seen = running
    BY <1>1 DEF Call, Places
  <2> HIDE DEF k
  <2>3. call[r].op.kind = "admin" /\ ~k.sent /\ k.answer = "none"
    BY <1>1, <2>1, <2>2 DEF CallOK, Holds, SentHolds
  <2>4. Holds(k, running, startup)
    BY <2>2, <2>3 DEF Holds, OkHolds, ProbeHolds, EnableHolds, SavedHolds, SentHolds
  <2> QED
    BY <2>1, <2>2, <2>4, QuietHolds
<1>8. CASE AdminPost(r)
  <2> DEFINE met == Met("masked", running # [call[r].seen EXCEPT !.off = running.off])
             next == IF Unconfirmed(call[r]) THEN [call[r] EXCEPT !.pc = "undo"] ELSE Done(call[r], "ok")
             k == [next EXCEPT !.why = @ \cup met]
  <2>1. call[r].pc = "postsnap" /\ Advance(r, k, running) /\ Untouched
    BY <1>8 DEF AdminPost, At
  <2>2. met \in SUBSET Causes
    BY MetType DEF Causes
  <2>3. "masked" \notin met => running = [call[r].seen EXCEPT !.off = running.off]
    BY DEF Met
  <2> HIDE DEF met
  <2>4. call[r].op.kind = "admin" /\ call[r].answer = "none"
    BY <1>1, <2>1 DEF CallOK
  <2>5. CASE Unconfirmed(call[r])
    <3>1. k = [[call[r] EXCEPT !.pc = "undo"] EXCEPT !.why = @ \cup met]
      BY <2>5
    <3> HIDE DEF k
    <3>2. k \in Call /\ k.op = call[r].op /\ k.pc = "undo" /\ k.answer = call[r].answer
          /\ k.sent = call[r].sent
      BY <1>1, <2>2, <3>1 DEF Call, Places
    <3>3. Holds(k, running, startup)
      BY <2>4, <3>2 DEF Holds, OkHolds, ProbeHolds, EnableHolds, SavedHolds, SentHolds
    <3> QED
      BY <2>1, <3>2, <3>3, QuietHolds
  <2>6. CASE ~Unconfirmed(call[r])
    <3>1. k = [Done(call[r], "ok") EXCEPT !.why = @ \cup met]
      BY <2>6
    <3> HIDE DEF k
    <3>2. /\ k \in Call /\ k.op = call[r].op /\ k.pc = "done" /\ k.answer = "ok"
          /\ k.sent = call[r].sent /\ k.why = call[r].why \cup met
      BY <1>1, <2>2, <3>1 DEF Call, Places, Done
    <3>3. Trusted(k) => Trusted(call[r])
      BY <3>2 DEF Trusted
    <3>4. Trusted(k) => running.off = k.op.off
      <4> SUFFICES ASSUME Trusted(k) PROVE running.off = k.op.off
        OBVIOUS
      <4>1. k.op.off \in BOOLEAN /\ call[r].enabled \in BOOLEAN /\ call[r].seen \in Config
        BY <1>1, <3>2, CallType, OpType
      <4>2. CASE Already(call[r])
        BY <1>1, <2>1, <3>2, <3>3, <4>2 DEF Holds, ProbeHolds
      <4>3. CASE ~Already(call[r])
        <5>1. k.op.off = FALSE /\ call[r].seen # running
          BY <2>6, <3>2, <4>1, <4>3 DEF Unconfirmed, Already
        <5>2. running = [call[r].seen EXCEPT !.off = running.off]
          BY <2>3, <2>4, <3>2, <5>1 DEF Trusted, Deceptions
        <5>3. running.off # call[r].seen.off
          BY <4>1, <5>1, <5>2 DEF Config
        <5> QED
          BY <1>1, <2>1, <2>4, <3>2, <3>3, <5>1, <5>3 DEF Holds, EnableHolds
      <4> QED
        BY <4>2, <4>3
    <3>5. OkHolds(k, running)
      BY <2>4, <3>2, <3>4 DEF OkHolds, Achieved
    <3>6. SavedHolds(k, running, startup)
      BY <1>1, <2>1, <2>4, <3>2 DEF Holds, SavedHolds
    <3>7. Holds(k, running, startup)
      BY <2>4, <3>2, <3>5, <3>6 DEF Holds, ProbeHolds, EnableHolds, SentHolds
    <3> QED
      BY <2>1, <3>2, <3>7, QuietHolds
  <2> QED
    BY <2>5, <2>6
<1> QED
  BY <1>2, <1>4, <1>5, <1>6, <1>7, <1>8

-----------------------------------------------------------------------------
(* Steps that change the switch.                                           *)

LEMMA PushHolds ==
    ASSUME IInv, OkInv, NEW r \in Requests,
           PushTakes(r) \/ PushIgnored(r) \/ PushBreaks(r) \/ SaveIos(r) \/ Undo(r)
    PROVE  OkInv'
<1>1. /\ call[r] \in Call /\ CallOK(call[r]) /\ Holds(call[r], running, startup)
      /\ Kind(r) \in Parts /\ running \in Config /\ switch \in Switch
  BY CallFacts
<1>2. /\ NextPlace(r) \in {"save", "post"}
      /\ NextPlace(r) = "save" <=> switch.os = "ios"
  BY DEF NextPlace
<1>3. call[r].op.off \in BOOLEAN /\ call[r].op \in Op
  BY <1>1, CallType, OpType
<1>4. ASSUME NEW k \in Call, k.pc = "done", k.answer = "failed", k.op = call[r].op,
             call[r].pc \notin {"idle", "pre", "done"},
             Advance(r, k, running'), startup' \in {startup, running'}, switch' = switch
      PROVE  OkInv'
  <2>1. switch.os = "ios" => k.op.kind = "admin"
    BY <1>1, <1>4 DEF Holds, SentHolds
  <2> QED
    BY <1>4, <2>1, HoldsFailed, StepHolds
<1>5. CASE PushTakes(r)
  <2> DEFINE k == [call[r] EXCEPT !.pc = NextPlace(r), !.sent = TRUE]
  <2>1. /\ call[r].pc = "push" /\ ~Junos /\ running' = Edit(running, call[r])
        /\ Advance(r, k, running') /\ UNCHANGED <<switch, link, cand>>
    BY <1>5 DEF PushTakes, At
  <2>2. PICK saves \in Saves(call[r].op) :
          startup' = IF saves /\ switch.os # "ios" THEN running' ELSE startup
    BY <1>5 DEF PushTakes
  <2>3. /\ k \in Call /\ k.op = call[r].op /\ k.pc = NextPlace(r) /\ k.answer = call[r].answer
        /\ k.sent = TRUE /\ k.why = call[r].why
    BY <1>1, <1>2 DEF Call, Places
  <2> HIDE DEF k
  <2>4. SavedHolds(k, running', startup')
    <3> SUFFICES ASSUME k.pc = "post", ~Unsaved(k.op) PROVE startup' = running'
      BY <1>2, <2>3 DEF SavedHolds
    <3>1. switch.os # "ios" /\ switch.os # "junos"
      BY <1>2, <2>1, <2>3 DEF Junos
    <3>2. switch.os = "eos" => saves = TRUE
      BY <1>1, <2>1, <2>2, <2>3 DEF Saves, EosSaves, Unsaved, Kind, Parts
    <3>3. switch.os = "nxos" => saves = TRUE
      BY <2>1, <2>2, <2>3 DEF Saves, NxosSaves, Unsaved
    <3>4. switch.os \in {"eos", "nxos"}
      BY <1>1, <3>1 DEF Switch
    <3> QED
      BY <2>2, <3>1, <3>2, <3>3, <3>4
  <2>5. EnableHolds(k, running')
    <3> SUFFICES ASSUME k.op.kind = "admin", ~k.op.off PROVE running'.off = FALSE
      BY DEF EnableHolds
    <3>1. running' = [running EXCEPT !.off = call[r].op.off]
      BY <2>1, <2>3 DEF Edit
    <3> QED
      BY <1>1, <1>3, <2>3, <3>1 DEF Config
  <2>6. k.answer = "none" /\ SentHolds(k)
    BY <1>1, <1>2, <2>1, <2>3 DEF CallOK, Holds, SentHolds
  <2>7. Holds(k, running', startup')
    BY <1>2, <2>3, <2>4, <2>5, <2>6 DEF Holds, OkHolds, ProbeHolds
  <2> QED
    BY <2>1, <2>2, <2>3, <2>7, StepHolds
<1>6. CASE PushIgnored(r)
  <2> DEFINE k == [call[r] EXCEPT !.pc = NextPlace(r), !.sent = TRUE, !.why = @ \cup {"fault"}]
  <2>1. call[r].pc = "push" /\ Advance(r, k, running) /\ Untouched
    BY <1>6 DEF PushIgnored, At
  <2>2. /\ k \in Call /\ k.op = call[r].op /\ k.pc = NextPlace(r) /\ k.answer = call[r].answer
        /\ k.seen = call[r].seen /\ k.why = call[r].why \cup {"fault"}
    BY <1>1, <1>2 DEF Call, Places, Causes
  <2> HIDE DEF k
  <2>3. Trusted(k) => Trusted(call[r])
    BY <2>2 DEF Trusted
  <2>4. EnableHolds(k, running)
    BY <1>1, <2>1, <2>2, <2>3 DEF Holds, EnableHolds
  <2>5. k.answer = "none" /\ SentHolds(k)
    BY <1>1, <1>2, <2>1, <2>2 DEF CallOK, Holds, SentHolds
  <2>6. Holds(k, running, startup)
    BY <1>2, <2>2, <2>4, <2>5 DEF Holds, OkHolds, ProbeHolds, SavedHolds
  <2> QED
    BY <2>1, <2>2, <2>6, QuietHolds
<1>7. CASE PushBreaks(r)
  <2> DEFINE k == [Done(call[r], "failed") EXCEPT !.sent = TRUE, !.why = @ \cup {"fault"}]
  <2>1. call[r].pc = "push" /\ Advance(r, k, running') /\ UNCHANGED <<switch, startup>>
    BY <1>7 DEF PushBreaks, At
  <2>2. k \in Call /\ k.op = call[r].op /\ k.pc = "done" /\ k.answer = "failed"
    BY <1>1 DEF Call, Places, Done, Causes
  <2> HIDE DEF k
  <2> QED
    BY <1>4, <2>1, <2>2
<1>8. CASE SaveIos(r)
  <2> DEFINE k == [call[r] EXCEPT !.pc = "post"]
  <2>1. /\ call[r].pc = "save" /\ Advance(r, k, running)
        /\ UNCHANGED <<switch, link, running, cand>>
    BY <1>8 DEF SaveIos, Goto, At
  <2>2. PICK saves \in Saves(call[r].op) : startup' = IF saves THEN running ELSE startup
    BY <1>8 DEF SaveIos
  <2>3. /\ k \in Call /\ k.op = call[r].op /\ k.pc = "post" /\ k.answer = call[r].answer
        /\ k.sent = call[r].sent /\ k.seen = call[r].seen /\ k.why = call[r].why
    BY <1>1 DEF Call, Places
  <2> HIDE DEF k
  <2>4. SavedHolds(k, running, startup')
    <3> SUFFICES ASSUME ~Unsaved(k.op) PROVE startup' = running
      BY DEF SavedHolds
    <3>1. ~Junos
      BY <1>1, <2>1 DEF CallOK
    <3>2. switch.os \in {"eos", "nxos", "ios"}
      BY <1>1, <3>1 DEF Switch, Junos
    <3>3. switch.os = "eos" => saves = TRUE
      BY <1>1, <2>2, <2>3, <3>1 DEF Saves, EosSaves, Unsaved, Kind, Parts
    <3>4. switch.os = "nxos" => saves = TRUE
      BY <2>2, <2>3, <3>1 DEF Saves, NxosSaves, Unsaved
    <3>5. switch.os = "ios" => saves = TRUE
      BY <1>1, <2>1, <2>2, <2>3 DEF Saves, IosSaves, Unsaved, Holds, SentHolds
    <3> QED
      BY <2>2, <3>2, <3>3, <3>4, <3>5
  <2>5. Trusted(k) => Trusted(call[r])
    BY <2>3 DEF Trusted
  <2>6. EnableHolds(k, running)
    BY <1>1, <2>1, <2>3, <2>5 DEF Holds, EnableHolds
  <2>7. k.answer = "none" /\ SentHolds(k)
    BY <1>1, <2>1, <2>3 DEF CallOK, Holds, SentHolds
  <2>8. Holds(k, running, startup')
    BY <2>3, <2>4, <2>6, <2>7 DEF Holds, OkHolds, ProbeHolds
  <2> QED
    BY <2>1, <2>2, <2>3, <2>8, StepHolds
<1>9. CASE Undo(r)
  <2> DEFINE k == Done(call[r], "failed")
  <2>1. /\ call[r].pc = "undo" /\ Advance(r, k, running') /\ startup' \in {startup, running'}
        /\ switch' = switch
    BY <1>9 DEF Undo, At
  <2>2. k \in Call /\ k.op = call[r].op /\ k.pc = "done" /\ k.answer = "failed"
    BY <1>1, DoneType
  <2> HIDE DEF k
  <2> QED
    BY <1>4, <2>1, <2>2
<1> QED
  BY <1>5, <1>6, <1>7, <1>8, <1>9

LEMMA CommitHolds ==
    ASSUME IInv, OkInv, NEW r \in Requests, Commit(r) \/ CommitFails(r)
    PROVE  OkInv'
<1>1. call[r] \in Call /\ CallOK(call[r]) /\ Holds(call[r], running, startup)
  BY CallFacts
<1>2. /\ call[r].pc = "commit" /\ Junos /\ switch.os # "ios"
      /\ call[r].op.kind # "admin" /\ call[r].answer = "none"
  BY <1>1 DEF Commit, CommitFails, At, CallOK, Junos
<1>3. CASE Commit(r)
  <2> DEFINE k == [call[r] EXCEPT !.pc = "post", !.sent = TRUE]
  <2>1. startup' = running' /\ UNCHANGED <<switch, link, cand>> /\ Advance(r, k, running')
    BY <1>3 DEF Commit
  <2>2. k \in Call /\ k.op = call[r].op /\ k.pc = "post" /\ k.answer = call[r].answer
    BY <1>1 DEF Call, Places
  <2> HIDE DEF k
  <2>3. Holds(k, running', startup')
    BY <1>2, <2>1, <2>2 DEF Holds, OkHolds, ProbeHolds, EnableHolds, SavedHolds, SentHolds
  <2> QED
    BY <2>1, <2>2, <2>3, StepHolds
<1>4. CASE CommitFails(r)
  <2> DEFINE k == [Done(call[r], "failed") EXCEPT !.sent = TRUE, !.why = @ \cup {"fault"}]
  <2>1. /\ startup' \in {startup, running'} /\ UNCHANGED <<switch, link, cand>>
        /\ Advance(r, k, running')
    BY <1>4 DEF CommitFails
  <2>2. k \in Call /\ k.op = call[r].op /\ k.pc = "done" /\ k.answer = "failed"
    BY <1>1 DEF Call, Places, Done, Causes
  <2> HIDE DEF k
  <2> QED
    BY <1>2, <2>1, <2>2, HoldsFailed, StepHolds
<1> QED
  BY <1>3, <1>4

LEMMA LoadHolds ==
    ASSUME IInv, OkInv, NEW r \in Requests, Load(r)
    PROVE  OkInv'
<1>1. UNCHANGED <<switch, link, running, startup>> /\ call[r].pc = "push" /\ Junos
  BY DEF Load, At
<1>2. call' = [q \in Requests |->
                 IF q = r THEN [call[q] EXCEPT !.pc = "commit"]
                 ELSE IF At(q, "commit") /\ Part(cand', Kind(q)) # Part(cand, Kind(q))
                 THEN [call[q] EXCEPT !.why = @ \cup {"disturbed"}]
                 ELSE call[q]]
  BY DEF Load
<1>3. ASSUME NEW q \in Requests PROVE Holds(call'[q], running, startup)
  <2>1. call[q] \in Call /\ CallOK(call[q]) /\ Holds(call[q], running, startup)
    BY CallFacts
  <2>2. CASE q = r
    <3>1. call'[q] = [call[q] EXCEPT !.pc = "commit"]
      BY <1>2, <2>2
    <3>2. /\ call'[q].pc = "commit" /\ call'[q].answer = "none" /\ call'[q].sent = call[q].sent
          /\ ~call[q].sent /\ switch.os # "ios"
      BY <1>1, <2>1, <2>2, <3>1 DEF Call, CallOK, Holds, SentHolds, Junos
    <3> QED
      BY <3>2 DEF Holds, OkHolds, ProbeHolds, EnableHolds, SavedHolds, SentHolds
  <2>3. CASE call'[q] = [call[q] EXCEPT !.why = @ \cup {"disturbed"}]
    BY <2>1, <2>3, HoldsDisturbed
  <2>4. CASE call'[q] = call[q]
    BY <2>1, <2>4
  <2> QED
    BY <1>2, <2>2, <2>3, <2>4
<1> QED
  BY <1>1, <1>3, HoldsNext

LEMMA AskHolds ==
    ASSUME IInv, OkInv, NEW r \in Requests, Ask(r)
    PROVE  OkInv'
<1>1. call[r] \in Call /\ CallOK(call[r]) /\ Holds(call[r], running, startup) /\ call[r].sent \in BOOLEAN
  BY CallFacts
<1>2. PICK op \in Ops : Advance(r, [call[r] EXCEPT !.pc = "pre", !.op = op], running)
  BY DEF Ask
<1> DEFINE k == [call[r] EXCEPT !.pc = "pre", !.op = op]
<1>3. call[r].pc = "idle" /\ Untouched /\ op \in Op
  BY DriverAssumption DEF Ask, At
<1>4. k \in Call /\ k.pc = "pre" /\ k.answer = call[r].answer /\ k.sent = call[r].sent
  BY <1>1, <1>3 DEF Call, Places
<1>5. Advance(r, k, running)
  BY <1>2
<1> HIDE DEF k
<1>6. k.answer = "none" /\ ~k.sent
  BY <1>1, <1>3, <1>4 DEF CallOK, Holds, SentHolds
<1>7. Holds(k, running, startup)
  BY <1>4, <1>6 DEF Holds, OkHolds, ProbeHolds, EnableHolds, SavedHolds, SentHolds
<1> QED
  BY <1>3, <1>4, <1>5, <1>7, QuietHolds

LEMMA ReloadHolds ==
    ASSUME IInv, OkInv, Reload
    PROVE  OkInv'
<1>1. running' = startup /\ UNCHANGED <<switch, link, startup>>
  BY DEF Reload
<1>2. call' = [q \in Requests |->
                 IF At(q, "commit")
                 THEN [Done(call[q], "failed") EXCEPT !.why = @ \cup {"fault"}]
                 ELSE IF ~At(q, "idle") /\ Part(startup, Kind(q)) # Part(running, Kind(q))
                 THEN [call[q] EXCEPT !.why = @ \cup {"disturbed"}]
                 ELSE call[q]]
  BY DEF Reload
<1>3. ASSUME NEW q \in Requests PROVE Holds(call'[q], running', startup')
  <2>1. call[q] \in Call /\ CallOK(call[q]) /\ Holds(call[q], running, startup) /\ call[q].sent \in BOOLEAN
    BY CallFacts
  <2>2. CASE At(q, "commit")
    <3>1. call'[q] = [Done(call[q], "failed") EXCEPT !.why = @ \cup {"fault"}]
      BY <1>2, <2>2
    <3>2. call'[q].pc = "done" /\ call'[q].answer = "failed" /\ switch.os # "ios"
      BY <2>1, <2>2, <3>1 DEF Done, Call, CallOK, Junos, At
    <3> QED
      BY <3>2, HoldsFailed
  <2>3. CASE At(q, "idle")
    <3>1. call[q].pc = "idle" /\ call[q].answer = "none" /\ call[q].sent = FALSE /\ call'[q] = call[q]
      BY <1>2, <2>1, <2>3 DEF At, CallOK, Holds, SentHolds
    <3> QED
      BY <3>1, HoldsIdle
  <2>4. CASE ~At(q, "commit") /\ ~At(q, "idle") /\ Part(startup, Kind(q)) # Part(running, Kind(q))
    <3>1. call'[q] = [call[q] EXCEPT !.why = @ \cup {"disturbed"}]
      BY <1>2, <2>4
    <3> QED
      BY <2>1, <3>1, HoldsDisturbed
  <2>5. CASE ~At(q, "commit") /\ ~At(q, "idle") /\ Part(startup, Kind(q)) = Part(running, Kind(q))
    <3>1. call'[q] = call[q]
      BY <1>2, <2>5
    <3> QED
      BY <1>1, <2>1, <2>5, <3>1, HoldsKept DEF Kind
  <2> QED
    BY <2>2, <2>3, <2>4, <2>5
<1> QED
  BY <1>1, <1>3, HoldsNext

LEMMA OkStep == IInv /\ OkInv /\ [Next]_vars => OkInv'
<1> SUFFICES ASSUME IInv, OkInv, [Next]_vars PROVE OkInv'
  OBVIOUS
<1>1. ASSUME NEW r \in Requests,
             Ask(r) \/ ReadFails(r) \/ LabelStart(r) \/ LabelPost(r) \/ Flip(r) \/ Admin(r) \/ Push(r)
      PROVE  OkInv'
  BY <1>1, AskHolds, ReadFailsHolds, LabelHolds, FlipHolds, AdminHolds, PushHolds, LoadHolds, CommitHolds
     DEF Admin, Push
<1>2. CASE Reload
  BY <1>2, ReloadHolds
<1>3. CASE LinkChange \/ UNCHANGED vars
  <2>1. UNCHANGED <<switch, running, startup, call>>
    BY <1>3 DEF LinkChange, vars
  <2>2. \A q \in Requests : Holds(call'[q], running', startup')
    BY <2>1 DEF OkInv
  <2> QED
    BY <2>1, <2>2, HoldsNext
<1> QED
  BY <1>1, <1>2, <1>3 DEF Next

LEMMA OkInit == Init => OkInv
<1> SUFFICES ASSUME Init, NEW r \in Requests PROVE Holds(call[r], running, startup)
  BY DEF OkInv
<1>1. call[r].pc = "idle" /\ call[r].answer = "none" /\ call[r].sent = FALSE
  BY DEF Init
<1> QED
  BY <1>1, HoldsIdle

THEOREM OkInductive == Spec => [](IInv /\ OkInv)
<1>1. Init => OkInv
  BY OkInit
<1>2. IInv /\ OkInv /\ [Next]_vars => OkInv'
  BY OkStep
<1> QED
  BY Inductive, <1>1, <1>2, PTL DEF Spec

-----------------------------------------------------------------------------
(* What "ok" says.                                                         *)

\* On every vendor, "ok" means that the interface is as asked until somebody
\* else changes it, but for the deceptions that are named (the pre- and
\* post-checks of base_validator and the drivers).
THEOREM OkIsTrue == Spec => []OkMeansDone
<1>1. ASSUME OkInv PROVE OkMeansDone
  BY <1>1 DEF OkInv, Holds, OkHolds, Trusted, OkMeansDone
<1> QED
  BY OkInductive, <1>1, PTL

\* What is saved survives a reload: every change answered "ok", except labels, EOS
\* flips and IOS enables.
THEOREM OkIsLasting == Spec => []OkSurvivesReload
<1>1. ASSUME IInv, OkInv PROVE OkSurvivesReload
  <2> SUFFICES ASSUME NEW r \in Requests, call[r].answer = "ok", call[r].sent,
                      call[r].why \cap {"fault", "disturbed"} = {}, ~Unsaved(call[r].op),
                      Achieved(running, call[r].op)
               PROVE  Achieved(startup, call[r].op)
    BY DEF OkSurvivesReload
  <2>1. call[r].op \in Op /\ CallOK(call[r]) /\ Holds(call[r], running, startup)
    BY <1>1, CallFacts
  <2>2. call[r].pc = "done"
    BY <2>1 DEF CallOK
  <2>3. Part(startup, call[r].op.kind) = Part(running, call[r].op.kind)
    BY <2>1, <2>2 DEF Holds, SavedHolds
  <2> QED
    BY <2>1, <2>3, AchievedPart
<1> QED
  BY OkInductive, <1>1, PTL

-----------------------------------------------------------------------------
(* Why a call fails: the invariant, of one call k, when c is in force and d *)
(* is the Junos candidate.                                                 *)

Clean(k) == k.why \cap {"fault", "disturbed"} = {}

\* The reasons that FailureExplained accepts.
Explained(k) ==
    \/ k.why \cap {"fault", "disturbed", "leftover"} # {}
    \/ k.op.kind = "flip" /\ k.why \cap {"range", "down", "memberless"} # {}
    \/ k.op.kind = "admin" /\ ~k.op.off /\ "offlabel" \in k.why
    \/ Hopeless(k.op)

\* An interface as the push of op leaves it.
Has(c, op) ==
    /\ op.kind = "admin" => c.off = op.off
    /\ op.kind = "label" => c.label = op.label
    /\ op.kind = "flip" => c.mode = op.mode
    /\ op.kind = "flip" /\ op.mode = "access" => {c.access} = op.vlans
    /\ op.kind = "flip" /\ op.mode = "trunk" => c.trunk = op.vlans /\ c.native = op.native

Fails(k, c, d) ==
    /\ k.answer = "failed" \/ k.pc = "undo" => Explained(k)
    /\ k.pc = "postsnap" /\ ~Explained(k) => Already(k)
    /\ k.pc \in {"save", "post"} /\ Clean(k) => Has(c, k.op)
    /\ k.pc = "commit" /\ Clean(k) => Has(d, k.op)
    /\ k.pc = "push" /\ k.op.kind = "flip" /\ ~Junos /\ Clean(k) => k.native = c.native

FailInv == \A r \in Requests : Fails(call[r], running, cand)

-----------------------------------------------------------------------------
(* What a step does to the calls that do not take it.                      *)

LEMMA HasPart ==
    ASSUME NEW op \in Op, NEW c, NEW d, Part(c, op.kind) = Part(d, op.kind), Has(c, op)
    PROVE  Has(d, op)
<1>1. op.kind \in Parts
  BY OpType
<1>2. CASE op.kind = "admin"
  BY <1>2 DEF Part, Has
<1>3. CASE op.kind = "label"
  BY <1>3 DEF Part, Has
<1>4. CASE op.kind = "flip"
  <2>1. c.mode = d.mode /\ c.access = d.access /\ c.trunk = d.trunk /\ c.native = d.native
    BY <1>4 DEF Part
  <2> QED
    BY <1>4, <2>1 DEF Has
<1> QED
  BY <1>1, <1>2, <1>3, <1>4 DEF Parts

\* The part of the call stays, in force and in the candidate it will commit.
LEMMA FailsKept ==
    ASSUME NEW k \in Call, NEW c, NEW d, NEW b, NEW e, Fails(k, c, d),
           Part(c, k.op.kind) = Part(b, k.op.kind),
           k.pc = "commit" => Part(d, k.op.kind) = Part(e, k.op.kind)
    PROVE  Fails(k, b, e)
<1>1. k.op \in Op
  BY CallType
<1>2. k.op.kind = "flip" => c.native = b.native
  BY DEF Part
<1> QED
  BY <1>1, <1>2, HasPart DEF Fails

\* Whatever happens to it, a disturbed or faulted call may fail.
LEMMA FailsExcused ==
    ASSUME NEW k, ~Clean(k), NEW c, NEW d
    PROVE  Fails(k, c, d)
BY DEF Fails, Explained, Clean

\* Places that promise nothing.
LEMMA FailsFree ==
    ASSUME NEW k, NEW c, NEW d, k.answer # "failed",
           \/ k.pc \in {"idle", "pre", "snap", "build", "done"}
           \/ k.pc = "push" /\ k.op.kind # "flip"
    PROVE  Fails(k, c, d)
BY DEF Fails

\* A call that fails for a reason.
LEMMA FailsDone ==
    ASSUME NEW k, NEW c, NEW d, k.pc = "done", Explained(k)
    PROVE  Fails(k, c, d)
BY DEF Fails

LEMMA DisturbedUnclean ==
    ASSUME NEW k \in Call, NEW cause \in {"fault", "disturbed"}
    PROVE  ~Clean([k EXCEPT !.why = @ \cup {cause}])
BY DEF Clean, Call

\* The invariant does not change with the switch, which does not change.
LEMMA FailsNext ==
    ASSUME switch' = switch, \A q \in Requests : Fails(call'[q], running', cand')
    PROVE  FailInv'
<1> SUFFICES ASSUME NEW q \in Requests PROVE Fails(call[q], running, cand)'
  BY DEF FailInv
<1>1. Hopeless(call'[q].op) => Hopeless(call[q].op)'
  BY DEF Hopeless, Found, MustRefuse, MayRefuse, TrafficRefuses, EosRefuses,
         EosMayRefuse, NxosRefuses, JunosRefuses, VlanStatus, Shaped, HasRange, Junos
<1>2. Hopeless(call[q].op)' => Hopeless(call'[q].op)
  BY DEF Hopeless, Found, MustRefuse, MayRefuse, TrafficRefuses, EosRefuses,
         EosMayRefuse, NxosRefuses, JunosRefuses, VlanStatus, Shaped, HasRange, Junos
<1>3. Explained(call'[q]) <=> Explained(call[q])'
  BY <1>1, <1>2 DEF Explained
<1> QED
  BY <1>3 DEF Fails, Clean, Already, Has, Junos

LEMMA FailFacts ==
    ASSUME IInv, FailInv, NEW r \in Requests
    PROVE  /\ call[r] \in Call /\ CallOK(call[r]) /\ Fails(call[r], running, cand)
           /\ call[r].op \in Op /\ Kind(r) \in Parts
           /\ running \in Config /\ cand \in Config /\ switch \in Switch
<1>1. call[r] \in Call /\ CallOK(call[r]) /\ Fails(call[r], running, cand)
  BY DEF IInv, TypeOK, CallInv, FailInv
<1>2. call[r].op \in Op
  BY <1>1, CallType
<1>3. Kind(r) \in Parts
  BY <1>2, OpType DEF Kind
<1> QED
  BY <1>1, <1>2, <1>3 DEF IInv, TypeOK

\* A call goes on as k: what must be shown of k.
LEMMA StepFails ==
    ASSUME IInv, FailInv, NEW r \in Requests, NEW k \in Call, Advance(r, k, running'),
           switch' = switch, cand' = cand, Fails(k, running', cand)
    PROVE  FailInv'
<1>1. call'[r] = k
  BY AdvanceEffect DEF IInv
<1>2. ASSUME NEW q \in Requests \ {r} PROVE Fails(call'[q], running', cand)
  <2>1. call[q] \in Call /\ CallOK(call[q]) /\ Fails(call[q], running, cand)
    BY FailFacts
  <2>2. call'[q] = IF ~At(q, "idle") /\ Part(running', Kind(q)) # Part(running, Kind(q))
                   THEN [call[q] EXCEPT !.why = @ \cup {"disturbed"}]
                   ELSE call[q]
    BY DEF IInv, TypeOK, Advance
  <2>3. CASE At(q, "idle")
    BY <2>1, <2>2, <2>3, FailsFree DEF At, CallOK
  <2>4. CASE ~At(q, "idle") /\ Part(running', Kind(q)) # Part(running, Kind(q))
    BY <2>1, <2>2, <2>4, DisturbedUnclean, FailsExcused
  <2>5. CASE Part(running', Kind(q)) = Part(running, Kind(q))
    BY <2>1, <2>2, <2>5, FailsKept DEF Kind
  <2> QED
    BY <2>3, <2>4, <2>5
<1> QED
  BY <1>1, <1>2, FailsNext

\* The same when the switch is left alone.
LEMMA QuietFails ==
    ASSUME IInv, FailInv, NEW r \in Requests, NEW k \in Call, Advance(r, k, running), Untouched,
           Fails(k, running, cand)
    PROVE  FailInv'
BY StepFails DEF Untouched

-----------------------------------------------------------------------------
(* What was pushed compares equal.                                         *)

LEMMA OneDigit ==
    ASSUME NEW t \in Nat, t < 10
    PROVE  Digits(t) = {t}
<1>1. {1} \cup { x \in {10, 100, 1000} : x <= t } = {1}
  OBVIOUS
<1>2. (t \div 1) % 10 = t
  OBVIOUS
<1> QED
  BY <1>1, <1>2 DEF Digits

LEMMA EditHas ==
    ASSUME NEW c \in Config, NEW k \in Call,
           k.op.kind = "flip" => Shaped(k.op) /\ (~Junos => k.native = c.native)
    PROVE  Has(Edit(c, k), k.op)
<1>1. k.op \in Op /\ k.op.kind \in Parts /\ k.op.mode \in {"access", "trunk"}
  BY CallType, OpType
<1>2. CASE k.op.kind = "admin"
  <2>1. Edit(c, k) = [c EXCEPT !.off = k.op.off]
    BY <1>2 DEF Edit
  <2> QED
    BY <1>2, <2>1 DEF Has, Config
<1>3. CASE k.op.kind = "label"
  <2>1. Edit(c, k) = [c EXCEPT !.label = k.op.label]
    BY <1>3 DEF Edit
  <2> QED
    BY <1>3, <2>1 DEF Has, Config
<1>4. CASE k.op.kind = "flip"
  <2> DEFINE d == Edit(c, k)
  <2>1. d = Flipped(c, k.op, k.native)
    BY <1>4 DEF Edit
  <2>2. CASE k.op.mode = "access"
    <3>1. PICK t \in Tags : k.op.vlans = {t}
      BY <1>4, <2>2 DEF Shaped
    <3>2. (CHOOSE v \in k.op.vlans : TRUE) = t
      BY <3>1
    <3>3. d.mode = "access" /\ d.access = t
      <4>1. EosFlipped(c, k.op).mode = "access" /\ EosFlipped(c, k.op).access = t
        BY <2>2, <3>2 DEF EosFlipped, Config
      <4>2. /\ NxosFlipped(c, k.op, k.native).mode = "access"
            /\ NxosFlipped(c, k.op, k.native).access = t
        BY <2>2, <3>2 DEF NxosFlipped, Config
      <4>3. /\ JunosFlipped(c, k.op, k.native).mode = "access"
            /\ JunosFlipped(c, k.op, k.native).access = t
        BY <2>2, <3>2 DEF JunosFlipped, Config
      <4> QED
        BY <2>1, <4>1, <4>2, <4>3 DEF Flipped
    <3> QED
      BY <1>4, <2>2, <3>1, <3>3 DEF Has
  <2>3. CASE k.op.mode = "trunk"
    <3> DEFINE Good(e) == e.mode = "trunk" /\ e.trunk = k.op.vlans /\ e.native = k.op.native
    <3>1. Good(EosFlipped(c, k.op))
      BY <2>3 DEF EosFlipped, Config
    <3>2. switch.os = "nxos" => Good(NxosFlipped(c, k.op, k.native))
      BY <1>4, <2>3 DEF NxosFlipped, Config, Junos
    <3>3. Good(JunosFlipped(c, k.op, k.native))
      BY <2>3 DEF JunosFlipped, Config
    <3>4. Good(d)
      BY <2>1, <3>1, <3>2, <3>3 DEF Flipped
    <3> QED
      BY <1>4, <2>3, <3>4 DEF Has
  <2> QED
    BY <1>1, <2>2, <2>3
<1> QED
  BY <1>1, <1>2, <1>3, <1>4 DEF Parts

\* compare_vlan_config finds what it looks for on an interface with link, on the
\* switches and for the vlans whose drivers can read it.
LEMMA HasSame ==
    ASSUME NEW c \in Config, NEW op \in Op, op.kind = "flip", switch \in Switch,
           Has(c, op), ~Hopeless(op), Mode(c) # "down"
    PROVE  Same(c, op) /\ ~Unparsable(c)
<1>1. /\ op.mode \in {"access", "trunk"} /\ op.vlans \subseteq Tags
      /\ c.mode = op.mode /\ Shaped(op) /\ ~MustRefuse(op)
  BY OpType DEF Has, Hopeless
<1>2. switch.os \in {"eos", "nxos", "junos"}
  BY <1>1 DEF MustRefuse, Switch
<1>3. /\ Tags \subseteq Nat /\ NoVlan \notin Tags /\ Names \cap Tags = {} /\ Hyphened \subseteq Names
  BY DriverAssumption
<1>4. CASE op.mode = "access"
  <2>1. switch.os # "eos" /\ {c.access} = op.vlans
    BY <1>4 DEF Hopeless, Has
  <2>2. Mode(c) = "access"
    BY <1>1, <1>2, <1>4, <2>1 DEF Mode, NxosMode, JunosMode
  <2>3. ~Junos => Digits(c.access) = {c.access}
    <3> SUFFICES ASSUME ~Junos PROVE Digits(c.access) = {c.access}
      OBVIOUS
    <3>1. c.access \in Nat /\ c.access \in op.vlans
      BY <1>1, <1>3, <2>1
    <3>2. ~(c.access >= 10)
      BY <1>4, <3>1 DEF Hopeless
    <3> QED
      BY <3>1, <3>2, OneDigit
  <2>4. AccessVlans(c) = op.vlans
    BY <2>1, <2>3 DEF AccessVlans
  <2> QED
    BY <1>1, <1>3, <1>4, <2>1, <2>2, <2>4 DEF Same, Unparsable, Memberless
<1>5. CASE op.mode = "trunk"
  <2>1. c.trunk = op.vlans /\ c.native = op.native /\ op.native \in Tags
    BY <1>1, <1>5 DEF Has, Shaped
  <2>2. Mode(c) = "trunk"
    BY <1>1, <1>2, <1>5 DEF Mode, EosMode, NxosMode, JunosMode
  <2>3. c.trunk \cap Tags = op.vlans /\ c.trunk \cap Hyphened = {}
    BY <1>1, <1>3, <2>1
  <2>4. switch.os = "eos" => UNION { Digits(t) : t \in op.vlans } = op.vlans
    <3> SUFFICES ASSUME switch.os = "eos" PROVE UNION { Digits(t) : t \in op.vlans } = op.vlans
      OBVIOUS
    <3>1. \A t \in op.vlans : Digits(t) = {t}
      <4> TAKE t \in op.vlans
      <4>1. t \in Nat
        BY <1>1, <1>3
      <4>2. ~(t >= 10)
        BY DEF Hopeless, Junos
      <4> QED
        BY <4>1, <4>2, OneDigit
    <3> QED
      BY <3>1
  <2>5. Parsed(c) = op.vlans
    BY <2>3, <2>4 DEF Parsed
  <2>6. switch.os = "eos" => ~HasRange(c.trunk \cap Tags)
    BY <2>3 DEF Hopeless
  <2>7. ~Memberless(c)
    BY <1>1, <1>5, <2>1 DEF Memberless, Shaped
  <2> QED
    BY <1>3, <1>5, <2>1, <2>2, <2>3, <2>5, <2>6, <2>7 DEF Same, Unparsable
<1> QED
  BY <1>1, <1>4, <1>5

\* What a read notes.
LEMMA ReadNotes ==
    ASSUME NEW k \in Call
    PROVE  /\ k.why \subseteq Read(k).why
           /\ Shown # running => "leftover" \in Read(k).why
           /\ Unparsable(Shown) => Read(k).why \cap {"range", "memberless"} # {}
           /\ Mode(Shown) = "down" => "down" \in Read(k).why
<1> DEFINE why == k.why \cup Met("leftover", Shown # running)
                        \cup Met("name", Nameless(Shown))
                        \cup Met("digits", Misread(Shown))
                        \cup Met("range", Unparsable(Shown) /\ ~Memberless(Shown))
                        \cup Met("memberless", Memberless(Shown))
                        \cup Met("down", Mode(Shown) = "down")
<1>1. Read(k).why = why
  BY DEF Read, Call
<1>2. /\ k.why \subseteq why
      /\ Shown # running => "leftover" \in why
      /\ Unparsable(Shown) => why \cap {"range", "memberless"} # {}
      /\ Mode(Shown) = "down" => "down" \in why
  BY DEF Met
<1> QED
  BY <1>1, <1>2

-----------------------------------------------------------------------------
(* The steps.                                                              *)

LEMMA FlipFails ==
    ASSUME IInv, FailInv, NEW r \in Requests, Flip(r)
    PROVE  FailInv'
<1>1. /\ call[r] \in Call /\ CallOK(call[r]) /\ Fails(call[r], running, cand)
      /\ call[r].op \in Op /\ running \in Config /\ switch \in Switch
  BY FailFacts
<1>2. /\ Read(call[r]) \in Call /\ Read(call[r]).pc = call[r].pc /\ Read(call[r]).op = call[r].op
      /\ Read(call[r]).answer = call[r].answer
  BY <1>1, ReadType DEF IInv
<1> DEFINE k(answer) == Done(Read(call[r]), answer)
<1>3. ASSUME NEW answer \in {"ok", "failed"}
      PROVE  /\ k(answer) \in Call /\ k(answer).op = call[r].op /\ k(answer).pc = "done"
             /\ k(answer).answer = answer /\ k(answer).why = Read(call[r]).why
  <2>1. k(answer).why = Read(call[r]).why
    BY <1>2, DoneFields
  <2>2. /\ k(answer) \in Call /\ k(answer).op = Read(call[r]).op /\ k(answer).pc = "done"
        /\ k(answer).answer = answer
    BY <1>2, DoneType
  <2> QED
    BY <1>2, <2>1, <2>2
<1>4. CASE FlipRefused(r)
  <2>1. /\ Advance(r, k("failed"), running) /\ Untouched /\ Kind(r) = "flip"
        /\ MustRefuse(call[r].op) \/ MayRefuse(call[r].op) \/ Unparsable(Shown)
    BY <1>4 DEF FlipRefused
  <2> HIDE DEF k
  <2>2. Unparsable(Shown) => k("failed").why \cap {"range", "memberless"} # {}
    BY <1>1, <1>3, ReadNotes
  <2>3. Explained(k("failed"))
    BY <1>3, <2>1, <2>2 DEF Explained, Hopeless, Kind
  <2> QED
    BY <1>3, <2>1, <2>3, FailsDone, QuietFails
<1>5. CASE FlipSame(r) \/ (FlipPost(r) /\ ~Unparsable(Shown) /\ Same(Shown, call[r].op))
  <2>1. Advance(r, k("ok"), running) /\ Untouched
    BY <1>5 DEF FlipSame, FlipPost
  <2> HIDE DEF k
  <2> QED
    BY <1>3, <2>1, FailsFree, QuietFails
<1>6. CASE FlipPost(r) /\ ~(~Unparsable(Shown) /\ Same(Shown, call[r].op))
  <2>1. /\ Advance(r, k("failed"), running) /\ Untouched
        /\ call[r].pc = "post" /\ call[r].op.kind = "flip"
    BY <1>6 DEF FlipPost, At, Kind
  <2> HIDE DEF k
  <2>2. Explained(k("failed"))
    <3> SUFFICES ASSUME ~Explained(k("failed")) PROVE FALSE
      OBVIOUS
    <3>1. /\ k("failed").why \cap {"fault", "disturbed", "leftover", "range", "down", "memberless"} = {}
          /\ ~Hopeless(call[r].op)
      BY <1>3, <2>1 DEF Explained
    <3>2. Clean(call[r]) /\ Shown = running /\ Mode(Shown) # "down"
      BY <1>1, <1>3, <3>1, ReadNotes DEF Clean
    <3>3. Has(running, call[r].op)
      BY <1>1, <2>1, <3>2 DEF Fails
    <3> QED
      BY <1>1, <1>6, <2>1, <3>1, <3>2, <3>3, HasSame
  <2> QED
    BY <1>3, <2>1, <2>2, FailsDone, QuietFails
<1>7. CASE FlipDiffers(r)
  <2> DEFINE j == [Read(call[r]) EXCEPT !.pc = "build"]
  <2>1. call[r].pc = "pre" /\ Advance(r, j, running) /\ Untouched
    BY <1>7 DEF FlipDiffers, At
  <2>2. j \in Call /\ j.pc = "build" /\ j.answer = call[r].answer
    BY <1>2 DEF Call, Places
  <2> HIDE DEF j
  <2>3. j.answer = "none"
    BY <1>1, <2>1, <2>2 DEF CallOK
  <2> QED
    BY <2>1, <2>2, <2>3, FailsFree, QuietFails
<1>8. CASE FlipMalformed(r)
  <2> DEFINE j == Done(call[r], "failed")
  <2>1. call[r].pc = "build" /\ ~Shaped(call[r].op) /\ Advance(r, j, running) /\ Untouched
    BY <1>8 DEF FlipMalformed, Finish, At
  <2>2. j \in Call /\ j.op = call[r].op /\ j.pc = "done"
    BY <1>1, DoneType
  <2> HIDE DEF j
  <2>3. Explained(j)
    BY <1>1, <2>1, <2>2 DEF Explained, Hopeless, CallOK
  <2> QED
    BY <2>1, <2>2, <2>3, FailsDone, QuietFails
<1>9. CASE FlipBuild(r)
  <2> DEFINE j == [call[r] EXCEPT !.pc = "push", !.native = Shown.native]
  <2>1. call[r].pc = "build" /\ Advance(r, j, running) /\ Untouched
    BY <1>9 DEF FlipBuild, At
  <2>2. Shown.native \in Tags \cup {NoVlan}
    BY ConfigType DEF IInv, TypeOK, Shown
  <2>3. j \in Call /\ j.pc = "push" /\ j.answer = call[r].answer /\ j.native = Shown.native
    BY <1>1, <2>2 DEF Call, Places
  <2> HIDE DEF j
  <2>4. j.answer = "none"
    BY <1>1, <2>1, <2>3 DEF CallOK
  <2>5. Fails(j, running, cand)
    BY <2>3, <2>4 DEF Fails, Shown
  <2> QED
    BY <2>1, <2>3, <2>5, QuietFails
<1> QED
  BY <1>4, <1>5, <1>6, <1>7, <1>8, <1>9 DEF Flip

LEMMA LabelFails ==
    ASSUME IInv, FailInv, NEW r \in Requests, LabelStart(r) \/ LabelPost(r)
    PROVE  FailInv'
<1>1. /\ call[r] \in Call /\ CallOK(call[r]) /\ Fails(call[r], running, cand)
      /\ call[r].op \in Op /\ switch \in Switch
  BY FailFacts
<1>2. CASE LabelStart(r) /\ switch.os = "ios"
  <2> DEFINE k == Done(call[r], "ok")
  <2>1. Advance(r, k, running) /\ Untouched
    BY <1>2 DEF LabelStart, Finish
  <2>2. k \in Call /\ k.pc = "done" /\ k.answer = "ok"
    BY <1>1, DoneType
  <2> HIDE DEF k
  <2> QED
    BY <2>1, <2>2, FailsFree, QuietFails
<1>3. CASE LabelStart(r) /\ switch.os # "ios"
  <2> DEFINE k == [call[r] EXCEPT !.pc = "push"]
  <2>1. call[r].pc = "pre" /\ Kind(r) = "label" /\ Advance(r, k, running) /\ Untouched
    BY <1>3 DEF LabelStart, Goto, At
  <2>2. k \in Call /\ k.op = call[r].op /\ k.pc = "push" /\ k.answer = call[r].answer
    BY <1>1 DEF Call, Places
  <2> HIDE DEF k
  <2>3. k.answer = "none" /\ k.op.kind = "label"
    BY <1>1, <2>1, <2>2 DEF CallOK, Kind
  <2> QED
    BY <2>1, <2>2, <2>3, FailsFree, QuietFails
<1>4. CASE LabelPost(r)
  <2> DEFINE met == Met("leftover", Shown # running)
             k(answer) == [Done(call[r], answer) EXCEPT !.why = @ \cup met]
  <2>1. met \in SUBSET Causes
    BY MetType DEF Causes
  <2>6. Shown # running => "leftover" \in met
    BY DEF Met
  <2>2. ASSUME NEW answer \in {"ok", "failed"}
        PROVE  /\ k(answer) \in Call /\ k(answer).op = call[r].op /\ k(answer).pc = "done"
               /\ k(answer).answer = answer /\ k(answer).why = call[r].why \cup met
    <3> HIDE DEF met
    <3>1. /\ k(answer) \in Call /\ k(answer).op = call[r].op /\ k(answer).pc = "done"
          /\ k(answer).answer = answer
      BY <1>1, <2>1, DoneType
    <3>2. k(answer).why = call[r].why \cup met
      BY <1>1 DEF Done, Call
    <3> QED
      BY <3>1, <3>2
  <2>3. /\ call[r].pc = "post" /\ call[r].op.kind = "label" /\ Untouched
        /\ Advance(r, k(IF Labelled(call[r].op) THEN "ok" ELSE "failed"), running)
    BY <1>4 DEF LabelPost, At, Kind
  <2> HIDE DEF k, met
  <2>4. CASE Labelled(call[r].op)
    BY <2>2, <2>3, <2>4, FailsFree, QuietFails
  <2>5. CASE ~Labelled(call[r].op)
    <3>1. Explained(k("failed"))
      <4> SUFFICES ASSUME ~Explained(k("failed")) PROVE FALSE
        OBVIOUS
      <4>1. /\ k("failed").op = call[r].op /\ k("failed").why = call[r].why \cup met
        BY <2>2
      <4>2. Clean(call[r]) /\ Shown = running /\ switch.os # "eos"
        BY <2>3, <2>6, <4>1 DEF Explained, Clean, Hopeless
      <4>3. running.label = call[r].op.label
        BY <1>1, <2>3, <4>2 DEF Fails, Has
      <4> QED
        BY <2>5, <4>2, <4>3 DEF Labelled, NxosLabelled, JunosLabelled
    <3> QED
      BY <2>2, <2>3, <2>5, <3>1, FailsDone, QuietFails
  <2> QED
    BY <2>4, <2>5
<1> QED
  BY <1>2, <1>3, <1>4

LEMMA AdminFails ==
    ASSUME IInv, FailInv, NEW r \in Requests,
           \/ AdminUnknown(r) \/ AdminProbe(r) \/ AdminSnap(r)
           \/ AdminReprobe(r) \/ AdminPost(r)
    PROVE  FailInv'
<1>1. /\ call[r] \in Call /\ CallOK(call[r]) /\ Fails(call[r], running, cand)
      /\ call[r].op \in Op /\ running \in Config /\ switch \in Switch
      /\ call[r].op.off \in BOOLEAN
  BY FailFacts, OpType
<1>2. CASE AdminUnknown(r)
  <2> DEFINE k == Done(call[r], "failed")
  <2>1. /\ Advance(r, k, running) /\ Untouched
        /\ call[r].op.kind = "admin" /\ ~Found
    BY <1>2 DEF AdminUnknown, Finish, Kind
  <2>2. k \in Call /\ k.op = call[r].op /\ k.pc = "done"
    BY <1>1, DoneType
  <2> HIDE DEF k
  <2>3. Explained(k)
    BY <2>1, <2>2 DEF Explained, Hopeless
  <2> QED
    BY <2>1, <2>2, <2>3, FailsDone, QuietFails
<1>3. ASSUME NEW pc \in {"snap", "postsnap"},
             \/ call[r].pc = "pre" /\ pc = "snap"
             \/ call[r].pc = "post" /\ pc = "postsnap",
             Kind(r) = "admin", Untouched,
             Advance(r, [call[r] EXCEPT !.pc = pc, !.enabled = IsEnabled(running),
                                        !.why = @ \cup Met("offlabel", running.label \in OffLabels)],
                     running)
      PROVE  FailInv'
  <2> DEFINE met == Met("offlabel", running.label \in OffLabels)
             enabled == IsEnabled(running)
             k == [call[r] EXCEPT !.pc = pc, !.enabled = enabled, !.why = @ \cup met]
  <2>1. met \in SUBSET Causes
    BY MetType DEF Causes
  <2>2. enabled \in BOOLEAN
    BY <1>1, ConfigType DEF IsEnabled, ShowsOff
  <2>3. Advance(r, k, running)
    BY <1>3
  <2>4. running.label \in OffLabels => "offlabel" \in met
    BY DEF Met
  <2> HIDE DEF met, enabled
  <2>5. /\ k \in Call /\ k.op = call[r].op /\ k.pc = pc /\ k.answer = call[r].answer
        /\ k.enabled = enabled /\ k.why = call[r].why \cup met
    BY <1>1, <2>1, <2>2 DEF Call, Places
  <2> HIDE DEF k
  <2>6. k.answer = "none"
    BY <1>1, <1>3, <2>5 DEF CallOK
  <2>7. pc = "postsnap" /\ ~Explained(k) => Already(k)
    <3> SUFFICES ASSUME pc = "postsnap", ~Explained(k) PROVE Already(k)
      OBVIOUS
    <3>1. Clean(call[r]) /\ k.op.kind = "admin"
      BY <1>3, <2>5 DEF Explained, Clean, Kind
    <3>2. running.off = k.op.off
      BY <1>1, <1>3, <2>5, <3>1 DEF Fails, Has
    <3>3. CASE k.op.off = TRUE
      <4>1. enabled = FALSE
        BY <3>2, <3>3 DEF enabled, IsEnabled, ShowsOff
      <4> QED
        BY <2>5, <3>3, <4>1 DEF Already
    <3>4. CASE k.op.off = FALSE
      <4>1. running.label \notin OffLabels
        BY <2>4, <2>5, <3>1, <3>4 DEF Explained
      <4>2. enabled = TRUE
        BY <3>2, <3>4, <4>1 DEF enabled, IsEnabled, ShowsOff
      <4> QED
        BY <2>5, <3>4, <4>2 DEF Already
    <3> QED
      BY <1>1, <2>5, <3>3, <3>4
  <2>8. Fails(k, running, cand)
    BY <2>5, <2>6, <2>7 DEF Fails
  <2> QED
    BY <1>3, <2>3, <2>5, <2>8, QuietFails
<1>4. CASE AdminProbe(r)
  BY <1>3, <1>4 DEF AdminProbe, At
<1>5. CASE AdminReprobe(r)
  BY <1>3, <1>5 DEF AdminReprobe, At
<1>6. CASE AdminSnap(r) /\ Already(call[r])
  <2> DEFINE k == Done(call[r], "ok")
  <2>1. Advance(r, k, running) /\ Untouched
    BY <1>6 DEF AdminSnap
  <2>2. k \in Call /\ k.pc = "done" /\ k.answer = "ok"
    BY <1>1, DoneType
  <2> HIDE DEF k
  <2> QED
    BY <2>1, <2>2, FailsFree, QuietFails
<1>7. CASE AdminSnap(r) /\ ~Already(call[r])
  <2> DEFINE k == [call[r] EXCEPT !.pc = "push", !.seen = running]
  <2>1. call[r].pc = "snap" /\ Advance(r, k, running) /\ Untouched
    BY <1>7 DEF AdminSnap, At
  <2>2. k \in Call /\ k.op = call[r].op /\ k.pc = "push" /\ k.answer = call[r].answer
    BY <1>1 DEF Call, Places
  <2> HIDE DEF k
  <2>3. k.op.kind = "admin" /\ k.answer = "none"
    BY <1>1, <2>1, <2>2 DEF CallOK
  <2> QED
    BY <2>1, <2>2, <2>3, FailsFree, QuietFails
<1>8. CASE AdminPost(r)
  <2> DEFINE met == Met("masked", running # [call[r].seen EXCEPT !.off = running.off])
             next == IF Unconfirmed(call[r]) THEN [call[r] EXCEPT !.pc = "undo"]
                     ELSE Done(call[r], "ok")
             k == [next EXCEPT !.why = @ \cup met]
  <2>1. call[r].pc = "postsnap" /\ Advance(r, k, running) /\ Untouched
    BY <1>8 DEF AdminPost, At
  <2>2. met \in SUBSET Causes
    BY MetType DEF Causes
  <2> HIDE DEF met
  <2>3. CASE Unconfirmed(call[r])
    <3>1. k = [[call[r] EXCEPT !.pc = "undo"] EXCEPT !.why = @ \cup met]
      BY <2>3
    <3> HIDE DEF k
    <3>2. /\ k \in Call /\ k.op = call[r].op /\ k.pc = "undo"
          /\ k.why = call[r].why \cup met
      BY <1>1, <2>2, <3>1 DEF Call, Places
    <3>3. Explained(call[r])
      <4>1. call[r].enabled \in BOOLEAN
        BY <1>1, CallType
      <4>2. ~Already(call[r])
        BY <1>1, <2>3, <4>1 DEF Unconfirmed, Already
      <4> QED
        BY <1>1, <2>1, <4>2 DEF Fails
    <3>4. Explained(k)
      BY <3>2, <3>3 DEF Explained
    <3>5. Fails(k, running, cand)
      BY <3>2, <3>4 DEF Fails
    <3> QED
      BY <2>1, <3>2, <3>5, QuietFails
  <2>4. CASE ~Unconfirmed(call[r])
    <3>1. k = [Done(call[r], "ok") EXCEPT !.why = @ \cup met]
      BY <2>4
    <3> HIDE DEF k
    <3>2. k \in Call /\ k.pc = "done" /\ k.answer = "ok"
      BY <1>1, <2>2, <3>1, DoneType
    <3> QED
      BY <2>1, <3>2, FailsFree, QuietFails
  <2> QED
    BY <2>3, <2>4
<1> QED
  BY <1>2, <1>4, <1>5, <1>6, <1>7, <1>8

LEMMA PushFails ==
    ASSUME IInv, FailInv, NEW r \in Requests,
           PushTakes(r) \/ PushIgnored(r) \/ PushBreaks(r) \/ SaveIos(r) \/ Undo(r)
    PROVE  FailInv'
<1>1. /\ call[r] \in Call /\ CallOK(call[r]) /\ Fails(call[r], running, cand)
      /\ call[r].op \in Op /\ running \in Config
  BY FailFacts
<1>2. NextPlace(r) \in {"save", "post"}
  BY DEF NextPlace
<1>3. CASE PushTakes(r)
  <2> DEFINE k == [call[r] EXCEPT !.pc = NextPlace(r), !.sent = TRUE]
  <2>1. /\ call[r].pc = "push" /\ ~Junos /\ running' = Edit(running, call[r])
        /\ Advance(r, k, running') /\ UNCHANGED <<switch, cand>>
    BY <1>3 DEF PushTakes, At
  <2>2. /\ k \in Call /\ k.op = call[r].op /\ k.pc = NextPlace(r) /\ k.answer = call[r].answer
        /\ k.why = call[r].why
    BY <1>1, <1>2 DEF Call, Places
  <2> HIDE DEF k
  <2>3. k.answer = "none"
    BY <1>1, <2>1, <2>2 DEF CallOK
  <2>4. Clean(k) => Has(running', k.op)
    <3> SUFFICES ASSUME Clean(k) PROVE Has(running', k.op)
      OBVIOUS
    <3>1. call[r].op.kind = "flip" => Shaped(call[r].op) /\ call[r].native = running.native
      BY <1>1, <2>1, <2>2 DEF CallOK, Fails, Clean
    <3> QED
      BY <1>1, <2>1, <2>2, <3>1, EditHas
  <2>5. Fails(k, running', cand)
    BY <1>2, <2>2, <2>3, <2>4 DEF Fails
  <2> QED
    BY <2>1, <2>2, <2>5, StepFails
<1>4. CASE PushIgnored(r)
  <2> DEFINE k == [call[r] EXCEPT !.pc = NextPlace(r), !.sent = TRUE, !.why = @ \cup {"fault"}]
  <2>1. Advance(r, k, running) /\ Untouched
    BY <1>4 DEF PushIgnored
  <2>2. k \in Call /\ ~Clean(k)
    BY <1>1, <1>2 DEF Call, Places, Causes, Clean
  <2> HIDE DEF k
  <2> QED
    BY <2>1, <2>2, FailsExcused, QuietFails
<1>5. CASE PushBreaks(r)
  <2> DEFINE k == [Done(call[r], "failed") EXCEPT !.sent = TRUE, !.why = @ \cup {"fault"}]
  <2>1. Advance(r, k, running') /\ UNCHANGED <<switch, cand>>
    BY <1>5 DEF PushBreaks
  <2>2. k \in Call /\ ~Clean(k)
    BY <1>1 DEF Call, Places, Done, Causes, Clean
  <2> HIDE DEF k
  <2> QED
    BY <2>1, <2>2, FailsExcused, StepFails
<1>6. CASE SaveIos(r)
  <2> DEFINE k == [call[r] EXCEPT !.pc = "post"]
  <2>1. call[r].pc = "save" /\ Advance(r, k, running) /\ UNCHANGED <<switch, running, cand>>
    BY <1>6 DEF SaveIos, Goto, At
  <2>2. /\ k \in Call /\ k.op = call[r].op /\ k.pc = "post" /\ k.answer = call[r].answer
        /\ k.why = call[r].why
    BY <1>1 DEF Call, Places
  <2> HIDE DEF k
  <2>3. k.answer = "none"
    BY <1>1, <2>1, <2>2 DEF CallOK
  <2>4. Fails(k, running, cand)
    BY <1>1, <2>1, <2>2, <2>3 DEF Fails, Clean
  <2> QED
    BY <2>1, <2>2, <2>4, StepFails
<1>7. CASE Undo(r)
  <2> DEFINE k == Done(call[r], "failed")
  <2>1. call[r].pc = "undo" /\ Advance(r, k, running') /\ UNCHANGED <<switch, cand>>
    BY <1>7 DEF Undo, At
  <2>2. k \in Call /\ k.op = call[r].op /\ k.pc = "done"
    BY <1>1, DoneType
  <2>3. k.why = call[r].why
    BY <1>1, DoneFields
  <2> HIDE DEF k
  <2>4. Explained(k)
    BY <1>1, <2>1, <2>2, <2>3 DEF Fails, Explained
  <2> QED
    BY <2>1, <2>2, <2>4, FailsDone, StepFails
<1> QED
  BY <1>3, <1>4, <1>5, <1>6, <1>7

\* cu.load: the candidate has what the call asked, and every other call that is
\* about to commit has been disturbed unless its part stays.
LEMMA LoadFails ==
    ASSUME IInv, FailInv, NEW r \in Requests, Load(r)
    PROVE  FailInv'
<1>1. /\ UNCHANGED <<switch, running>> /\ call[r].pc = "push" /\ Junos
      /\ cand' = Edit(cand, call[r])
      /\ call' = [q \in Requests |->
                    IF q = r THEN [call[q] EXCEPT !.pc = "commit"]
                    ELSE IF At(q, "commit") /\ Part(cand', Kind(q)) # Part(cand, Kind(q))
                    THEN [call[q] EXCEPT !.why = @ \cup {"disturbed"}]
                    ELSE call[q]]
  BY DEF Load, At
<1>2. ASSUME NEW q \in Requests PROVE Fails(call'[q], running, cand')
  <2>1. /\ call[q] \in Call /\ CallOK(call[q]) /\ Fails(call[q], running, cand)
        /\ cand \in Config
    BY FailFacts
  <2>2. CASE q = r
    <3>1. call'[q] = [call[q] EXCEPT !.pc = "commit"]
      BY <1>1, <2>2
    <3>2. call'[q].pc = "commit" /\ call'[q].answer = "none" /\ call'[q].op = call[q].op
      BY <1>1, <2>1, <2>2, <3>1 DEF Call, CallOK
    <3>3. Has(cand', call[q].op)
      BY <1>1, <2>1, <2>2, EditHas DEF CallOK
    <3> QED
      BY <3>2, <3>3 DEF Fails
  <2>3. CASE call'[q] = [call[q] EXCEPT !.why = @ \cup {"disturbed"}]
    BY <2>1, <2>3, DisturbedUnclean, FailsExcused
  <2>4. CASE call'[q] = call[q] /\ (At(q, "commit") => Part(cand', Kind(q)) = Part(cand, Kind(q)))
    BY <2>1, <2>4, FailsKept DEF At, Kind
  <2> QED
    BY <1>1, <2>2, <2>3, <2>4
<1> QED
  BY <1>1, <1>2, FailsNext

LEMMA CommitFailsHolds ==
    ASSUME IInv, FailInv, NEW r \in Requests, Commit(r) \/ CommitFails(r)
    PROVE  FailInv'
<1>1. /\ call[r] \in Call /\ CallOK(call[r]) /\ Fails(call[r], running, cand)
      /\ call[r].pc = "commit"
  BY FailFacts DEF Commit, CommitFails, At
<1>2. CASE Commit(r)
  <2> DEFINE k == [call[r] EXCEPT !.pc = "post", !.sent = TRUE]
  <2>1. running' = cand /\ UNCHANGED <<switch, cand>> /\ Advance(r, k, running')
    BY <1>2 DEF Commit
  <2>2. /\ k \in Call /\ k.op = call[r].op /\ k.pc = "post" /\ k.answer = call[r].answer
        /\ k.why = call[r].why
    BY <1>1 DEF Call, Places
  <2> HIDE DEF k
  <2>3. k.answer = "none"
    BY <1>1, <2>2 DEF CallOK
  <2>4. Fails(k, running', cand)
    BY <1>1, <2>1, <2>2, <2>3 DEF Fails, Clean
  <2> QED
    BY <2>1, <2>2, <2>4, StepFails
<1>3. CASE CommitFails(r)
  <2> DEFINE k == [Done(call[r], "failed") EXCEPT !.sent = TRUE, !.why = @ \cup {"fault"}]
  <2>1. UNCHANGED <<switch, cand>> /\ Advance(r, k, running')
    BY <1>3 DEF CommitFails
  <2>2. k \in Call /\ ~Clean(k)
    BY <1>1 DEF Call, Places, Done, Causes, Clean
  <2> HIDE DEF k
  <2> QED
    BY <2>1, <2>2, FailsExcused, StepFails
<1> QED
  BY <1>2, <1>3

LEMMA AskFails ==
    ASSUME IInv, FailInv, NEW r \in Requests, Ask(r)
    PROVE  FailInv'
<1>1. call[r] \in Call /\ CallOK(call[r])
  BY FailFacts
<1>2. PICK op \in Ops : Advance(r, [call[r] EXCEPT !.pc = "pre", !.op = op], running)
  BY DEF Ask
<1> DEFINE k == [call[r] EXCEPT !.pc = "pre", !.op = op]
<1>3. call[r].pc = "idle" /\ Untouched /\ op \in Op
  BY DriverAssumption DEF Ask, At
<1>4. k \in Call /\ k.pc = "pre" /\ k.answer = call[r].answer
  BY <1>1, <1>3 DEF Call, Places
<1>5. Advance(r, k, running)
  BY <1>2
<1> HIDE DEF k
<1>6. k.answer = "none"
  BY <1>1, <1>3, <1>4 DEF CallOK
<1> QED
  BY <1>3, <1>4, <1>5, <1>6, FailsFree, QuietFails

LEMMA ReadFailsFails ==
    ASSUME IInv, FailInv, NEW r \in Requests, ReadFails(r)
    PROVE  FailInv'
<1> DEFINE k == [Done(call[r], "failed") EXCEPT !.why = @ \cup {"fault"}]
<1>1. Advance(r, k, running) /\ Untouched
  BY DEF ReadFails
<1>2. k \in Call /\ ~Clean(k)
  BY FailFacts DEF Call, Done, Places, Causes, Clean
<1> HIDE DEF k
<1> QED
  BY <1>1, <1>2, FailsExcused, QuietFails

LEMMA ReloadFails ==
    ASSUME IInv, FailInv, Reload
    PROVE  FailInv'
<1>1. /\ running' = startup /\ switch' = switch
      /\ call' = [q \in Requests |->
                    IF At(q, "commit")
                    THEN [Done(call[q], "failed") EXCEPT !.why = @ \cup {"fault"}]
                    ELSE IF ~At(q, "idle") /\ Part(startup, Kind(q)) # Part(running, Kind(q))
                    THEN [call[q] EXCEPT !.why = @ \cup {"disturbed"}]
                    ELSE call[q]]
  BY DEF Reload
<1>2. ASSUME NEW q \in Requests PROVE Fails(call'[q], running', cand')
  <2>1. call[q] \in Call /\ CallOK(call[q]) /\ Fails(call[q], running, cand)
    BY FailFacts
  <2>2. CASE At(q, "commit")
    <3>1. call'[q] = [Done(call[q], "failed") EXCEPT !.why = @ \cup {"fault"}]
      BY <1>1, <2>2
    <3>2. Done(call[q], "failed") \in Call
      BY <2>1, DoneType
    <3> QED
      BY <3>1, <3>2, DisturbedUnclean, FailsExcused
  <2>3. CASE call'[q] = [call[q] EXCEPT !.why = @ \cup {"disturbed"}]
    BY <2>1, <2>3, DisturbedUnclean, FailsExcused
  <2>4. CASE At(q, "idle") /\ call'[q] = call[q]
    BY <2>1, <2>4, FailsFree DEF At, CallOK
  <2>5. CASE /\ ~At(q, "commit") /\ call'[q] = call[q]
             /\ Part(startup, Kind(q)) = Part(running, Kind(q))
    BY <1>1, <2>1, <2>5, FailsKept DEF At, Kind
  <2> QED
    BY <1>1, <2>2, <2>3, <2>4, <2>5
<1> QED
  BY <1>1, <1>2, FailsNext

LEMMA FailStep == IInv /\ FailInv /\ [Next]_vars => FailInv'
<1> SUFFICES ASSUME IInv, FailInv, [Next]_vars PROVE FailInv'
  OBVIOUS
<1>1. ASSUME NEW r \in Requests,
             Ask(r) \/ ReadFails(r) \/ LabelStart(r) \/ LabelPost(r) \/ Flip(r) \/ Admin(r) \/ Push(r)
      PROVE  FailInv'
  BY <1>1, AskFails, ReadFailsFails, LabelFails, FlipFails, AdminFails, PushFails, LoadFails,
     CommitFailsHolds
  DEF Admin, Push
<1>2. CASE Reload
  BY <1>2, ReloadFails
<1>3. CASE LinkChange \/ UNCHANGED vars
  <2>1. UNCHANGED <<switch, running, cand, call>>
    BY <1>3 DEF LinkChange, vars
  <2>2. \A q \in Requests : Fails(call'[q], running', cand')
    BY <2>1 DEF FailInv
  <2> QED
    BY <2>1, <2>2, FailsNext
<1> QED
  BY <1>1, <1>2, <1>3 DEF Next

\* No driver call fails for nothing (the pre- and post-checks of base_validator
\* and the drivers): a fault, another call, a candidate left behind, no link, a
\* label that reads as shutdown, or a request that the driver cannot serve.
THEOREM FailureHasReason == Spec => []FailureExplained
<1>1. Init => FailInv
  <2> SUFFICES ASSUME Init, NEW r \in Requests PROVE Fails(call[r], running, cand)
    BY DEF FailInv
  <2>1. call[r].pc = "idle" /\ call[r].answer = "none"
    BY DEF Init
  <2> QED
    BY <2>1, FailsFree
<1>2. FailInv => FailureExplained
  BY DEF FailInv, Fails, Explained, FailureExplained
<1> QED
  BY <1>1, <1>2, FailStep, Inductive, PTL DEF Spec
=============================================================================
