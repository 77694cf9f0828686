-------------------------- MODULE PortUpdate_proofs --------------------------
(***************************************************************************)
(* Theorems about PortUpdate for any number of ports and requests and for  *)
(* every payload, row and fault the assumptions of the module allow.       *)
(***************************************************************************)
EXTENDS PortUpdate, TLAPS

-----------------------------------------------------------------------------
(* Rows.                                                                   *)

\* Replacing the vlans of a row by some list of vlans gives a row.
LEMMA RowVlans ==
    ASSUME NEW row \in Row, NEW v \in Vlans \cup {NoVlans}
    PROVE  [row EXCEPT !["vlans"] = v] \in Row
BY DEF Row, Value, Columns, Scalars

\* Replacing some columns of a row by those of another row gives a row.
LEMMA RowMerge ==
    ASSUME NEW row \in Row, NEW other \in Row, NEW S
    PROVE  [c \in Columns |-> IF c \in S THEN other[c] ELSE row[c]] \in Row
<1> DEFINE new == [c \in Columns |-> IF c \in S THEN other[c] ELSE row[c]]
<1>1. new \in [Columns -> Value]
  BY DEF Row
<1>2. /\ new["admin"] \in {row["admin"], other["admin"]}
      /\ new["label"] \in {row["label"], other["label"]}
      /\ new["mode"] \in {row["mode"], other["mode"]}
      /\ new["vlans"] \in {row["vlans"], other["vlans"]}
  BY DEF Columns, Scalars
<1> HIDE DEF new
<1>3. new \in Row
  BY <1>1, <1>2 DEF Row
<1> QED
  BY <1>3 DEF new

\* Laying columns the payload has over a row gives a row.
LEMMA RowOverlay ==
    ASSUME TypeOK, NEW r \in Requests, NEW row \in Row, NEW S,
           \A c \in Columns : c \in S => body[r][c] # Absent
    PROVE  Overlay(row, r, S) \in Row
<1> DEFINE new == Overlay(row, r, S)
<1>1. body[r] \in Body
  BY DEF TypeOK
<1>2. new \in [Columns -> Value]
  BY <1>1 DEF Row, Body, Overlay
<1>3. /\ new["admin"] \in AdminStates
      /\ new["label"] \in Labels \cup {NoLabel}
      /\ new["mode"] \in Modes
      /\ new["vlans"] \in Vlans \cup {NoVlans}
  BY <1>1 DEF Row, Body, Columns, Scalars, Overlay
<1> HIDE DEF new
<1>4. new \in Row
  BY <1>2, <1>3 DEF Row
<1> QED
  BY <1>4 DEF new

\* The columns a flush writes are in the payload.
LEMMA DirtyPresent ==
    ASSUME NEW r \in Requests
    PROVE  \A c \in Columns : c \in Dirty(r) => body[r][c] # Absent
BY DEF Dirty, HasVlans, Columns, Scalars

\* A driver call stores a row in the device.
LEMMA ConfigureRow ==
    ASSUME TypeOK, NEW r \in Requests, NEW S, Configure(r, S),
           \A c \in Columns : c \in S => body[r][c] # Absent
    PROVE  dev' \in [Ports -> Row]
<1>1. port[r] \in Ports /\ dev[port[r]] \in Row
  BY DEF TypeOK
<1>2. Overlay(dev[port[r]], r, S) \in Row
  BY <1>1, RowOverlay
<1> QED
  BY <1>1, <1>2 DEF Configure, TypeOK

-----------------------------------------------------------------------------
(* Types.                                                                  *)

LEMMA InitType == Init => TypeOK
<1> SUFFICES ASSUME Init PROVE TypeOK
  OBVIOUS
<1>1. db \in [Ports -> Row] /\ dev \in [Ports -> Row]
  BY InputAssumption DEF Init
<1>2. port \in [Requests -> Ports]
  BY DEF Init
<1>3. body \in [Requests -> Body] /\ mac \in [Requests -> BOOLEAN]
  <2>1. PICK sent \in [Requests -> Payloads] :
           /\ body = [r \in Requests |-> sent[r].change]
           /\ mac = [r \in Requests |-> sent[r].mac]
    BY DEF Init
  <2>2. \A r \in Requests : sent[r].change \in Body /\ sent[r].mac \in BOOLEAN
    BY <2>1, InputAssumption DEF Payload
  <2> QED
    BY <2>1, <2>2
<1>4. /\ image \in [Requests -> Row]
      /\ loaded \in [Requests -> Row]
      /\ before \in [Requests -> Row]
  BY <1>1, <1>2 DEF Init
<1>5. retries \in [Requests -> 0..MaxDeadlocks]
  BY InputAssumption DEF Init
<1>6. /\ lock \in [Ports -> Requests \cup {NoReq}]
      /\ pc \in [Requests -> Places]
      /\ causes \in [Ports -> SUBSET Causes]
  BY DEF Init, Places
<1>7. os \in [Ports -> Systems]
  BY InputAssumption DEF Init
<1> QED
  BY <1>1, <1>2, <1>3, <1>4, <1>5, <1>6, <1>7 DEF TypeOK

\* The control part of a step keeps its types.
LEMMA MoveType ==
    ASSUME TypeOK, NEW r \in Requests, NEW l \in Places, Goto(r, l)
    PROVE  pc' \in [Requests -> Places]
BY DEF TypeOK, Goto

LEMMA ReleaseType ==
    ASSUME TypeOK, NEW r \in Requests, Release(r) \/ UNCHANGED lock
    PROVE  lock' \in [Ports -> Requests \cup {NoReq}]
BY DEF TypeOK, Release

LEMMA NoteType ==
    ASSUME TypeOK, NEW r \in Requests, NEW why \in SUBSET Causes,
           Note(r, why) \/ UNCHANGED causes
    PROVE  causes' \in [Ports -> SUBSET Causes]
BY DEF TypeOK, Note

\* What a step notes of its port is one of the named causes.
LEMMA StepNotes ==
    ASSUME NEW r \in Requests, update_port(r) \/ Environment(r)
    PROVE  UNCHANGED causes \/ \E why \in SUBSET Causes : Note(r, why)
<1>t. Touched(r) \in SUBSET Causes /\ HiddenBy(r) \in SUBSET Causes
  BY DEF Touched, HiddenBy, Causes
<1>1. CASE Reject(r) \/ TakeImage(r) \/ WriteRow(r) \/ Deadlock(r) \/ AdminSkip(r)
           \/ AdminApply(r) \/ Reread(r) \/ PushVlans(r)
  BY <1>1 DEF Reject, TakeImage, WriteRow, Deadlock, AdminSkip, AdminApply, Reread, PushVlans
<1>2. CASE UnknownVlan(r) \/ LabelTaken(r) \/ AdminRefused(r) \/ AdminFail(r)
  BY <1>2, <1>t DEF UnknownVlan, LabelTaken, AdminRefused, AdminFail, Abort
<1>3. CASE LoadPort(r)
  <2>1. (IF \E q \in Requests \ {r} : port[q] = port[r] /\ Active(q)
         THEN {"overlap"} ELSE {}) \in SUBSET Causes
    BY DEF Causes
  <2> QED
    BY <1>3, <2>1 DEF LoadPort
<1>4. CASE AdminAlready(r)
  <2>1. (IF ~AdminTaken(r) THEN HiddenBy(r) ELSE {}) \in SUBSET Causes
    BY <1>t
  <2> QED
    BY <1>4, <2>1 DEF AdminAlready
<1>5. CASE AdminPostCheck(r)
  <2>1. (IF AdminTaken(r) THEN {} ELSE IF Masked(r) THEN {"masked"} ELSE HiddenBy(r))
            \in SUBSET Causes
    BY <1>t DEF Causes
  <2> QED
    BY <1>5, <2>1 DEF AdminPostCheck
<1>6. CASE AdminRevert(r)
  <2>1. (IF AdminTaken(r) THEN HiddenBy(r) ELSE {}) \in SUBSET Causes
    BY <1>t
  <2> QED
    BY <1>6, <2>1 DEF AdminRevert
<1>7. CASE LabelPush(r)
  <2>1. (IF body[r]["label"] # Absent /\ ~PushesLabel(r) THEN {"nolabel"} ELSE {})
            \in SUBSET Causes
    BY DEF Causes
  <2> QED
    BY <1>7, <2>1 DEF LabelPush
<1>8. CASE LabelFail(r)
  <2>1. (Touched(r) \cup (IF dev' # dev THEN {"halflabel"} ELSE {})) \in SUBSET Causes
    BY <1>t DEF Causes
  <2> QED
    BY <1>8, <2>1 DEF LabelFail
<1>9. CASE Commit(r)
  <2>1. (IF "mode" \in Dirty(r) /\ ~HasVlans(r) THEN {"modeonly"} ELSE {}) \in SUBSET Causes
    BY DEF Causes
  <2> QED
    BY <1>9, <2>1 DEF Commit
<1>10. CASE PreCheck(r) \/ PostCheck(r)
  <2>1. PICK up \in Links :
            LET same == up /\ SameSwitchport(r) IN
            \/ Note(r, Misread(r, same))
            \/ Note(r, Misread(r, same) \cup Unconfirmed(r, same, up))
    BY <1>10 DEF PreCheck, PostCheck
  <2> DEFINE same == up /\ SameSwitchport(r)
  <2>2. /\ Misread(r, same) \in SUBSET Causes
        /\ (Misread(r, same) \cup Unconfirmed(r, same, up)) \in SUBSET Causes
    BY DEF Misread, Unconfirmed, Causes
  <2> QED
    BY <2>1, <2>2
<1>11. CASE MacFail(r) \/ RollbackLabelTaken(r) \/ RollbackDeadlock(r)
  <2>1. \A why \in {"mac", "labeltaken", "lostvlans"} : {why} \in SUBSET Causes
    BY DEF Causes
  <2> QED
    BY <1>11, <2>1 DEF MacFail, RollbackLabelTaken, RollbackDeadlock
<1>12. CASE PushFail(r)
  <2>1. (IF dev' # dev \/ pc[r] = "applied" THEN {"halfpushed"} ELSE {}) \in SUBSET Causes
    BY DEF Causes
  <2> QED
    BY <1>12, <2>1 DEF PushFail
<1>13. CASE RollbackDb(r)
  <2>1. ((IF "admin" \in RolledBack(r) THEN {"staleadmin"} ELSE {})
            \cup (IF body[r]["label"] # Absent THEN {"rolledlabel"} ELSE {})) \in SUBSET Causes
    BY DEF Causes
  <2> QED
    BY <1>13, <2>1 DEF RollbackDb
<1>14. CASE Crash(r)
  <2>1. (Touched(r) \cup (IF pc[r] \in AfterCommit THEN {"crashed"} ELSE {})) \in SUBSET Causes
    BY <1>t DEF Causes
  <2> QED
    BY <1>14, <2>1 DEF Crash
<1> QED
  BY <1>1, <1>2, <1>3, <1>4, <1>5, <1>6, <1>7, <1>8, <1>9, <1>10, <1>11, <1>12, <1>13, <1>14
  DEF update_port, Environment

\* An abandoned transaction.
LEMMA AbortType ==
    ASSUME TypeOK, NEW r \in Requests, Abort(r, "error")
    PROVE  /\ pc' \in [Requests -> Places]
           /\ lock' \in [Ports -> Requests \cup {NoReq}]
           /\ db' = db
<1>1. "error" \in Places
  BY DEF Places, Answered
<1> QED
  BY <1>1, MoveType, ReleaseType DEF Abort

\* Every step of a request keeps the types.
LEMMA StepType ==
    ASSUME TypeOK, PayloadInv, NEW r \in Requests, update_port(r) \/ Environment(r)
    PROVE  TypeOK'
<1> USE DEF locals
<1>0. /\ port[r] \in Ports
      /\ db[port[r]] \in Row /\ dev[port[r]] \in Row /\ image[r] \in Row
      /\ body[r] \in Body
  BY DEF TypeOK
<1>p. {"loaded", "imaged", "written", "adminApplied", "adminDone", "labelDone", "committed",
       "reread", "prechecked", "applied", "rollback", "ok", "error", "crashed", "arrive"}
         \subseteq Places
  BY DEF Places, InTxn, WriteHeld, AfterCommit, Answered
<1>k. causes' \in [Ports -> SUBSET Causes]
  BY StepNotes, NoteType
<1>v. \A v \in Vlans \cup {NoVlans} : [image[r] EXCEPT !["vlans"] = v] \in Row
  BY <1>0, RowVlans
<1>x. [db[port[r]] EXCEPT !["vlans"] = NoVlans] \in Row
  BY <1>0, RowVlans
<1>b. db[port[r]]["vlans"] \in Vlans \cup {NoVlans}
  BY <1>0 DEF Row
<1>2. CASE Reject(r)
  BY <1>2, <1>p, MoveType DEF Reject, TypeOK
<1>3. CASE LoadPort(r)
  <2>1. pc' \in [Requests -> Places]
    BY <1>3, <1>p, MoveType DEF LoadPort
  <2>3. image' \in [Requests -> Row]
    BY <1>3, <1>x DEF LoadPort, TypeOK
  <2> QED
    BY <1>3, <1>k, <2>1, <2>3 DEF LoadPort, TypeOK
<1>4. CASE TakeImage(r)
  <2>1. pc' \in [Requests -> Places]
    BY <1>4, <1>p, MoveType DEF TakeImage
  <2>2. image' \in [Requests -> Row]
    BY <1>4, <1>v, <1>b DEF TakeImage, TypeOK
  <2> QED
    BY <1>4, <2>1, <2>2 DEF TakeImage, TypeOK
<1>5. CASE WriteRow(r)
  <2>1. pc' \in [Requests -> Places]
    BY <1>5, <1>p, MoveType DEF WriteRow
  <2>2. lock' \in [Ports -> Requests \cup {NoReq}]
    BY <1>5 DEF WriteRow, TypeOK
  <2> QED
    BY <1>5, <2>1, <2>2 DEF WriteRow, TypeOK
<1>6. CASE UnknownVlan(r) \/ LabelTaken(r)
  BY <1>6, <1>k, AbortType DEF UnknownVlan, LabelTaken, TypeOK
<1>7. CASE Deadlock(r)
  <2>1. pc' \in [Requests -> Places]
    BY <1>7, <1>p, MoveType DEF Deadlock
  <2>2. [body[r] EXCEPT !["vlans"] = Absent] \in Body
    BY <1>0 DEF Body, Columns, Scalars
  <2>3. body' \in [Requests -> Body]
    BY <1>7, <2>2 DEF Deadlock, TypeOK
  <2>4. mac' \in [Requests -> BOOLEAN]
    BY <1>7 DEF Deadlock, TypeOK
  <2>5. retries' \in [Requests -> 0..MaxDeadlocks]
    BY <1>7, InputAssumption DEF Deadlock, TypeOK
  <2> QED
    BY <1>7, <2>1, <2>3, <2>4, <2>5 DEF Deadlock, TypeOK
<1>8. CASE AdminSkip(r)
  BY <1>8, <1>p, MoveType DEF AdminSkip, TypeOK
<1>9. CASE AdminRefused(r)
  BY <1>9, <1>k, AbortType DEF AdminRefused, TypeOK
<1>10. CASE AdminAlready(r)
  BY <1>10, <1>k, <1>p, MoveType DEF AdminAlready, TypeOK
<1>11. CASE AdminApply(r)
  <2>1. pc' \in [Requests -> Places]
    BY <1>11, <1>p, MoveType DEF AdminApply
  <2>2. body[r]["admin"] # Absent
    BY <1>11 DEF AdminApply, AdminNeeded, Dirty, HasVlans
  <2>3. dev' \in [Ports -> Row]
    BY <1>11, <2>2, ConfigureRow DEF AdminApply, TypeOK
  <2>4. before' \in [Requests -> Row]
    BY <1>11, <1>0 DEF AdminApply, TypeOK
  <2> QED
    BY <1>11, <2>1, <2>3, <2>4 DEF AdminApply, TypeOK
<1>12. CASE AdminPostCheck(r)
  <2>1. pc' \in [Requests -> Places]
    BY <1>12, <1>p, MoveType DEF AdminPostCheck
  <2> QED
    BY <1>12, <1>k, <2>1 DEF AdminPostCheck, TypeOK
<1>13. CASE AdminRevert(r)
  <2>1. pc' \in [Requests -> Places]
    BY <1>13, <1>p, MoveType DEF AdminRevert
  <2>2. lock' \in [Ports -> Requests \cup {NoReq}]
    BY <1>13, ReleaseType DEF AdminRevert
  <2>3. [dev[port[r]] EXCEPT !["admin"] = Other(body[r]["admin"])] \in Row
    BY <1>0 DEF Row, Value, Columns, Scalars, Other, AdminStates
  <2>4. dev' \in [Ports -> Row]
    BY <1>13, <2>3 DEF AdminRevert, TypeOK
  <2> QED
    BY <1>13, <1>k, <2>1, <2>2, <2>4 DEF AdminRevert, TypeOK
<1>14. CASE AdminFail(r)
  BY <1>14, <1>k, AbortType DEF AdminFail, TypeOK
<1>15. CASE LabelPush(r)
  <2>1. pc' \in [Requests -> Places]
    BY <1>15, <1>p, MoveType DEF LabelPush
  <2>2. dev' \in [Ports -> Row]
    BY <1>15, ConfigureRow DEF LabelPush, PushesLabel, TypeOK
  <2> QED
    BY <1>15, <1>k, <2>1, <2>2 DEF LabelPush, TypeOK
<1>16. CASE LabelFail(r)
  <2>1. pc' \in [Requests -> Places]
    BY <1>16, <1>p, MoveType DEF LabelFail
  <2>2. dev' \in [Ports -> Row]
    BY <1>16, ConfigureRow DEF LabelFail, PushesLabel, TypeOK
  <2>3. lock' \in [Ports -> Requests \cup {NoReq}]
    BY <1>16, ReleaseType DEF LabelFail
  <2> QED
    BY <1>16, <1>k, <2>1, <2>2, <2>3 DEF LabelFail, TypeOK
<1>17. CASE Commit(r)
  <2>1. pc' \in [Requests -> Places]
    BY <1>17, <1>p, MoveType DEF Commit
  <2>2. Overlay(db[port[r]], r, Dirty(r)) \in Row
    BY <1>0, RowOverlay, DirtyPresent
  <2>3. db' \in [Ports -> Row]
    BY <1>17, <2>2 DEF Commit, TypeOK
  <2>4. lock' \in [Ports -> Requests \cup {NoReq}]
    BY <1>17, ReleaseType DEF Commit
  <2> QED
    BY <1>17, <1>k, <2>1, <2>3, <2>4 DEF Commit, TypeOK
<1>18. CASE Reread(r)
  <2>1. pc' \in [Requests -> Places]
    BY <1>18, <1>p, MoveType DEF Reread
  <2>2. loaded' \in [Requests -> Row]
    BY <1>18, <1>x DEF Reread, TypeOK
  <2> QED
    BY <1>18, <2>1, <2>2 DEF Reread, TypeOK
<1>19. CASE MacFail(r)
  <2>1. pc' \in [Requests -> Places]
    BY <1>19, <1>p, MoveType DEF MacFail
  <2> QED
    BY <1>19, <1>k, <2>1 DEF MacFail, TypeOK
<1>20. CASE PreCheck(r)
  BY <1>20, <1>k, <1>p, MoveType DEF PreCheck, TypeOK
<1>s. pc[r] \in AfterCommit => \A c \in Columns : c \in Switchport => body[r][c] # Absent
  BY DEF PayloadInv, Active, AfterCommit, Answered, HasVlans, ValidPayload, Switchport
<1>21. CASE PushVlans(r)
  <2>1. pc' \in [Requests -> Places]
    BY <1>21, <1>p, MoveType DEF PushVlans
  <2>2. dev' \in [Ports -> Row]
    BY <1>21, <1>s, ConfigureRow DEF PushVlans, TypeOK, AfterCommit
  <2> QED
    BY <1>21, <2>1, <2>2 DEF PushVlans, TypeOK
<1>22. CASE PostCheck(r)
  BY <1>22, <1>k, <1>p, MoveType DEF PostCheck, TypeOK
<1>23. CASE PushFail(r)
  <2>1. pc' \in [Requests -> Places]
    BY <1>23, <1>p, MoveType DEF PushFail
  <2>2. dev' \in [Ports -> Row]
    BY <1>23, <1>s, ConfigureRow DEF PushFail, TypeOK, AfterCommit
  <2> QED
    BY <1>23, <1>k, <2>1, <2>2 DEF PushFail, TypeOK
<1>24. CASE RollbackDb(r)
  <2>1. pc' \in [Requests -> Places]
    BY <1>24, <1>p, MoveType DEF RollbackDb
  <2>2. [c \in Columns |-> IF c \in RolledBack(r) THEN image[r][c] ELSE db[port[r]][c]] \in Row
    BY <1>0, RowMerge
  <2>3. db' \in [Ports -> Row]
    BY <1>24, <2>2 DEF RollbackDb, TypeOK
  <2> QED
    BY <1>24, <1>k, <2>1, <2>3 DEF RollbackDb, TypeOK
<1>27. CASE RollbackLabelTaken(r)
  <2>1. pc' \in [Requests -> Places]
    BY <1>27, <1>p, MoveType DEF RollbackLabelTaken
  <2> QED
    BY <1>27, <1>k, <2>1 DEF RollbackLabelTaken, TypeOK
<1>25. CASE RollbackDeadlock(r)
  <2>1. image' \in [Requests -> Row]
    BY <1>25, <1>v DEF RollbackDeadlock, TypeOK
  <2>2. loaded' \in [Requests -> Row]
    BY <1>25, <1>x DEF RollbackDeadlock, TypeOK
  <2>4. retries' \in [Requests -> 0..MaxDeadlocks]
    BY <1>25, InputAssumption DEF RollbackDeadlock, TypeOK
  <2> QED
    BY <1>25, <1>k, <2>1, <2>2, <2>4 DEF RollbackDeadlock, TypeOK
<1>26. CASE Crash(r)
  <2>1. pc' \in [Requests -> Places]
    BY <1>26, <1>p, MoveType DEF Crash
  <2>2. lock' \in [Ports -> Requests \cup {NoReq}]
    BY <1>26, ReleaseType DEF Crash
  <2> QED
    BY <1>26, <1>k, <2>1, <2>2 DEF Crash, TypeOK
<1> QED
  BY <1>2, <1>3, <1>4, <1>5, <1>6, <1>7, <1>8, <1>9, <1>10, <1>11, <1>12, <1>13, <1>14,
     <1>15, <1>16, <1>17, <1>18, <1>19, <1>20, <1>21, <1>22, <1>23, <1>24, <1>25, <1>26,
     <1>27
     DEF update_port, Environment

-----------------------------------------------------------------------------
(* What a step of one request leaves alone.                                *)

Untouched(q) ==
    /\ pc'[q] = pc[q] /\ body'[q] = body[q]
    /\ image'[q] = image[q] /\ loaded'[q] = loaded[q]

\* The port a request names never changes, nor does the driver of a port.
LEMMA SamePort ==
    ASSUME NEW r \in Requests, update_port(r) \/ Environment(r)
    PROVE  port' = port /\ os' = os
BY DEF update_port, Environment, Reject, LoadPort, TakeImage, WriteRow, UnknownVlan, LabelTaken,
       AdminSkip, AdminRefused, AdminAlready, AdminApply, AdminPostCheck, AdminRevert,
       AdminFail, LabelPush, LabelFail, Commit, Reread, MacFail, PreCheck, PushVlans,
       PostCheck, PushFail, RollbackDb, RollbackLabelTaken, Deadlock, RollbackDeadlock, Crash,
              locals

LEMMA Frame ==
    ASSUME TypeOK, NEW r \in Requests, update_port(r) \/ Environment(r),
           NEW q \in Requests, q # r
    PROVE  Untouched(q)
<1> USE DEF locals, Untouched, Goto, TypeOK
<1>1. CASE Reject(r) \/ LoadPort(r) \/ TakeImage(r) \/ WriteRow(r) \/ UnknownVlan(r)
           \/ LabelTaken(r)
  BY <1>1 DEF Reject, LoadPort, TakeImage, WriteRow, UnknownVlan, LabelTaken, Abort
<1>2. CASE AdminSkip(r) \/ AdminRefused(r) \/ AdminAlready(r) \/ AdminApply(r)
  BY <1>2 DEF AdminSkip, AdminRefused, AdminAlready, AdminApply, Abort
<1>3. CASE AdminPostCheck(r) \/ AdminRevert(r) \/ AdminFail(r)
  BY <1>3 DEF AdminPostCheck, AdminRevert, AdminFail, Abort
<1>4. CASE LabelPush(r) \/ LabelFail(r) \/ Commit(r)
  BY <1>4 DEF LabelPush, LabelFail, Commit
<1>5. CASE Reread(r) \/ MacFail(r) \/ PreCheck(r) \/ PushVlans(r) \/ PostCheck(r)
  BY <1>5 DEF Reread, MacFail, PreCheck, PushVlans, PostCheck
<1>6. CASE PushFail(r) \/ RollbackDb(r) \/ RollbackLabelTaken(r)
  BY <1>6 DEF PushFail, RollbackDb, RollbackLabelTaken
<1>7. CASE Environment(r)
  BY <1>7 DEF Environment, Deadlock, RollbackDeadlock, Crash
<1> QED
  BY <1>1, <1>2, <1>3, <1>4, <1>5, <1>6, <1>7 DEF update_port

\* What a request has in its payload and in its copy of the row decides what
\* it writes.
LEMMA SamePayload ==
    ASSUME NEW q \in Requests, body'[q] = body[q], image'[q] = image[q]
    PROVE  /\ Dirty(q)' = Dirty(q)
           /\ AdminNeeded(q)' = AdminNeeded(q)
           /\ HasVlans(q)' = HasVlans(q)
           /\ ValidPayload(q)' = ValidPayload(q)
           /\ Shaped(q)' = Shaped(q)
BY DEF Dirty, AdminNeeded, HasVlans, ValidPayload, Shaped

-----------------------------------------------------------------------------
(* The payload invariant.                                                  *)

LEMMA InitPayload == Init => PayloadInv
BY DEF Init, PayloadInv, Active, AfterCommit

LEMMA StepPayload ==
    ASSUME TypeOK, PayloadInv, NEW r \in Requests, update_port(r) \/ Environment(r)
    PROVE  PayloadInv'
<1> DEFINE P(q) == /\ Active(q) => ValidPayload(q)
                   /\ pc[q] \in AfterCommit => HasVlans(q)
                   /\ pc[q] = "adminApplied" => AdminNeeded(q)
                   /\ pc[q] = "applied" => Shaped(q)
<1>1. ASSUME NEW q \in Requests, q # r PROVE P(q)'
  <2>1. Untouched(q)
    BY <1>1, Frame
  <2> QED
    BY <2>1, SamePayload DEF PayloadInv, Untouched, Active
<1>2. P(r)'
  <2> USE DEF locals, Goto, TypeOK
  <2>0. P(r)
    BY DEF PayloadInv
  <2>1. CASE Reject(r) \/ UnknownVlan(r) \/ LabelTaken(r) \/ AdminRefused(r)
           \/ AdminRevert(r) \/ AdminFail(r)
             \/ LabelFail(r) \/ MacFail(r) \/ RollbackDb(r) \/ RollbackLabelTaken(r)
           \/ Crash(r) \/ Deadlock(r)
    <3>1. pc'[r] \in {"arrive"} \cup Answered
      BY <2>1 DEF Reject, UnknownVlan, LabelTaken, AdminRefused, AdminRevert, AdminFail,
             LabelFail,
                  MacFail, RollbackDb, RollbackLabelTaken, Crash, Deadlock, Abort, Answered
    <3> QED
      BY <3>1 DEF Active, AfterCommit, Answered
  <2>2. CASE LoadPort(r)
    <3>1. pc'[r] = "loaded" /\ body'[r] = body[r] /\ ValidPayload(r)
      BY <2>2 DEF LoadPort
    <3> QED
      BY <3>1 DEF Active, AfterCommit, ValidPayload, HasVlans
  <2>3. CASE TakeImage(r)
    <3>1. pc'[r] = "imaged" /\ body'[r] = body[r] /\ pc[r] = "loaded"
      BY <2>3 DEF TakeImage
    <3> QED
      BY <2>0, <3>1 DEF Active, AfterCommit, Answered, ValidPayload, HasVlans
  <2>4. CASE RollbackDeadlock(r)
    <3>1. pc'[r] = "rollback" /\ body'[r] = body[r] /\ pc[r] = "rollback"
      BY <2>4 DEF RollbackDeadlock
    <3> QED
      BY <2>0, <3>1 DEF Active, AfterCommit, Answered, ValidPayload, HasVlans
  <2>5. CASE WriteRow(r) \/ AdminSkip(r) \/ AdminAlready(r) \/ AdminApply(r)
             \/ AdminPostCheck(r) \/ LabelPush(r)
    <3>1. /\ pc[r] \in InTxn
          /\ pc'[r] \in InTxn
          /\ pc'[r] = "adminApplied" => AdminNeeded(r)
          /\ body'[r] = body[r] /\ image'[r] = image[r]
      BY <2>5 DEF WriteRow, AdminSkip, AdminAlready, AdminApply, AdminPostCheck, LabelPush,
                  InTxn, WriteHeld
    <3> QED
      BY <2>0, <3>1, SamePayload DEF Active, AfterCommit, Answered, InTxn, WriteHeld
  <2>6. CASE Commit(r)
    <3>1. /\ pc[r] = "labelDone"
          /\ pc'[r] = IF HasVlans(r) THEN "committed" ELSE "ok"
          /\ body'[r] = body[r] /\ image'[r] = image[r]
      BY <2>6 DEF Commit
    <3> QED
      BY <2>0, <3>1, SamePayload DEF Active, AfterCommit, Answered
  <2>7. CASE Reread(r) \/ PreCheck(r) \/ PushVlans(r) \/ PostCheck(r) \/ PushFail(r)
    <3>1. /\ pc[r] \in AfterCommit
          /\ pc'[r] \in AfterCommit \cup {"ok"}
          /\ pc'[r] = "applied" => Shaped(r)
          /\ body'[r] = body[r] /\ image'[r] = image[r]
      BY <2>7 DEF Reread, PreCheck, PushVlans, PostCheck, PushFail, AfterCommit
    <3> QED
      BY <2>0, <3>1, SamePayload DEF Active, AfterCommit, Answered
  <2> QED
    BY <2>1, <2>2, <2>3, <2>4, <2>5, <2>6, <2>7 DEF update_port, Environment
<1> QED
  BY <1>1, <1>2 DEF PayloadInv

\* In every behaviour every variable keeps its type and no request goes past
\* the checks of update_port with a payload they refuse.
THEOREM TypeCorrect == Spec => [](TypeOK /\ PayloadInv)
<1>1. Init => TypeOK /\ PayloadInv
  BY InitType, InitPayload
<1>2. TypeOK /\ PayloadInv /\ [Next]_vars => (TypeOK /\ PayloadInv)'
  <2> SUFFICES ASSUME TypeOK, PayloadInv, [Next]_vars
               PROVE  TypeOK' /\ PayloadInv'
    OBVIOUS
  <2>1. CASE Next
    BY <2>1, StepType, StepPayload DEF Next
  <2>2. CASE UNCHANGED vars
    BY <2>2 DEF vars, TypeOK, PayloadInv, Active, ValidPayload, HasVlans, AdminNeeded, Dirty,
                  Shaped
  <2> QED
    BY <2>1, <2>2
<1> QED
  BY <1>1, <1>2, PTL DEF Spec

-----------------------------------------------------------------------------
(* The row lock.                                                           *)

LEMMA InitLock == Init => LockInv
BY SentinelAssumption DEF Init, LockInv, WriteHeld

\* A step that leaves the locks alone and keeps its request on one side of
\* the transaction.
LEMMA LockKept ==
    ASSUME TypeOK, LockInv, NEW r \in Requests, update_port(r) \/ Environment(r),
           UNCHANGED <<lock, port>>,
           \/ pc[r] \in WriteHeld /\ pc'[r] \in WriteHeld
                /\ body'[r] = body[r] /\ image'[r] = image[r]
           \/ pc[r] \notin WriteHeld /\ pc'[r] \notin WriteHeld
    PROVE  LockInv'
<1>1. ASSUME NEW q \in Requests
      PROVE  (lock[port[q]] = q <=> pc[q] \in WriteHeld /\ Dirty(q) # {})'
  <2>1. CASE q = r
    BY <2>1, SamePayload DEF LockInv
  <2>2. CASE q # r
    BY <2>2, Frame, SamePayload DEF LockInv, Untouched
  <2> QED
    BY <2>1, <2>2
<1> QED
  BY <1>1 DEF LockInv

\* A step that ends the transaction of its request.
LEMMA LockReleased ==
    ASSUME TypeOK, LockInv, NEW r \in Requests, update_port(r) \/ Environment(r),
           Release(r), UNCHANGED port, pc'[r] \notin WriteHeld
    PROVE  LockInv'
<1>1. ASSUME NEW p \in Ports PROVE (lock[p] # NoReq => port[lock[p]] = p)'
  BY DEF LockInv, Release, TypeOK
<1>2. ASSUME NEW q \in Requests
      PROVE  (lock[port[q]] = q <=> pc[q] \in WriteHeld /\ Dirty(q) # {})'
  <2>1. CASE q = r
    BY <2>1, SentinelAssumption DEF Release, TypeOK
  <2>2. CASE q # r
    <3>1. lock'[port[q]] = q <=> lock[port[q]] = q
      BY <2>2, SentinelAssumption DEF Release, TypeOK
    <3> QED
      BY <2>2, <3>1, Frame, SamePayload DEF LockInv, Untouched
  <2> QED
    BY <2>1, <2>2
<1> QED
  BY <1>1, <1>2 DEF LockInv

LEMMA StepLock ==
    ASSUME TypeOK, PayloadInv, LockInv, NEW r \in Requests, update_port(r) \/ Environment(r)
    PROVE  LockInv'
<1> USE DEF locals, Goto, TypeOK
<1>1. CASE Reject(r) \/ LoadPort(r) \/ TakeImage(r) \/ Deadlock(r) \/ Reread(r) \/ MacFail(r)
           \/ PreCheck(r) \/ PushVlans(r) \/ PostCheck(r) \/ PushFail(r) \/ RollbackDb(r)
           \/ RollbackLabelTaken(r)
           \/ RollbackDeadlock(r)
  <2>1. /\ UNCHANGED <<lock, port>>
        /\ pc[r] \notin WriteHeld /\ pc'[r] \notin WriteHeld
    BY <1>1 DEF Reject, LoadPort, TakeImage, Deadlock, Reread, MacFail, PreCheck, PushVlans,
                PostCheck, PushFail, RollbackDb, RollbackLabelTaken, RollbackDeadlock, WriteHeld
  <2> QED
    BY <2>1, LockKept
<1>2. CASE AdminSkip(r) \/ AdminAlready(r) \/ AdminApply(r) \/ AdminPostCheck(r) \/ LabelPush(r)
  <2>1. /\ UNCHANGED <<lock, port>>
        /\ pc[r] \in WriteHeld /\ pc'[r] \in WriteHeld
        /\ body'[r] = body[r] /\ image'[r] = image[r]
    BY <1>2 DEF AdminSkip, AdminAlready, AdminApply, AdminPostCheck, LabelPush, WriteHeld
  <2> QED
    BY <2>1, LockKept
<1>3. CASE UnknownVlan(r) \/ LabelTaken(r) \/ AdminRefused(r) \/ AdminRevert(r)
           \/ AdminFail(r) \/ LabelFail(r)
           \/ Commit(r) \/ Crash(r)
  <2>1. /\ Release(r) /\ UNCHANGED port
        /\ pc'[r] \notin WriteHeld
    BY <1>3 DEF UnknownVlan, LabelTaken, AdminRefused, AdminRevert, AdminFail, LabelFail,
           Commit, Crash,
                Abort, WriteHeld
  <2> QED
    BY <2>1, LockReleased
<1>4. CASE WriteRow(r)
  <2>1. /\ pc[r] = "imaged" /\ pc'[r] = "written" /\ UNCHANGED port
        /\ body'[r] = body[r] /\ image'[r] = image[r]
    BY <1>4 DEF WriteRow
  <2>2. /\ Dirty(r)' = Dirty(r)
        /\ pc[r] \notin WriteHeld /\ pc'[r] \in WriteHeld
    BY <2>1, SamePayload DEF WriteHeld
  <2>3. ASSUME NEW q \in Requests, q # r
        PROVE  pc'[q] = pc[q] /\ Dirty(q)' = Dirty(q)
    BY <2>3, Frame, SamePayload DEF Untouched
  <2>4. CASE Dirty(r) = {}
    <3>1. UNCHANGED lock
      BY <1>4, <2>4 DEF WriteRow
    <3> QED
      BY <2>1, <2>2, <2>3, <2>4, <3>1 DEF LockInv
  <2>5. CASE Dirty(r) # {}
    <3>1. lock[port[r]] = NoReq /\ lock' = [lock EXCEPT ![port[r]] = r]
      BY <1>4, <2>5 DEF WriteRow
    <3>2. \A p \in Ports : lock'[p] # NoReq => port'[lock'[p]] = p
      BY <2>1, <3>1 DEF LockInv
    <3>3. ASSUME NEW q \in Requests
          PROVE  lock'[port'[q]] = q <=> pc'[q] \in WriteHeld /\ Dirty(q)' # {}
      <4>1. CASE q = r
        BY <2>1, <2>2, <2>5, <3>1, <4>1
      <4>2. CASE q # r
        <5>1. lock'[port'[q]] = q <=> lock[port[q]] = q
          BY <2>1, <3>1, <4>2, SentinelAssumption
        <5> QED
          BY <2>3, <4>2, <5>1 DEF LockInv
      <4> QED
        BY <4>1, <4>2
    <3> QED
      BY <3>2, <3>3 DEF LockInv
  <2> QED
    BY <2>4, <2>5
<1> QED
  BY <1>1, <1>2, <1>3, <1>4 DEF update_port, Environment

-----------------------------------------------------------------------------
(* Enable/disable.                                                         *)

LEMMA InitAdmin == Init => AdminInv
BY SentinelAssumption, InputAssumption DEF Init, AdminInv, AdminInStep

LEMMA OtherOther ==
    ASSUME NEW a \in AdminStates, NEW b \in AdminStates, a # b
    PROVE  a = Other(b)
BY DEF Other, AdminStates

\* What asks for an admin_status holds the row once it has written.
LEMMA NeededHolds ==
    ASSUME LockInv, NEW r \in Requests, AdminNeeded(r), pc[r] \in WriteHeld
    PROVE  lock[port[r]] = r /\ body[r]["admin"] # Absent
BY DEF LockInv, AdminNeeded, Dirty, HasVlans

\* A driver call that does not name admin leaves it.
LEMMA ConfigureKeeps ==
    ASSUME TypeOK, NEW r \in Requests, NEW S, "admin" \notin S, Configure(r, S)
    PROVE  \A p \in Ports : dev'[p]["admin"] = dev[p]["admin"]
BY DEF TypeOK, Configure, Overlay, Columns, Scalars

\* What happened on a port is not forgotten.
LEMMA ExcusedStays ==
    ASSUME TypeOK, NEW r \in Requests, update_port(r) \/ Environment(r),
           NEW p \in Ports, AdminExcused(p)
    PROVE  AdminExcused(p)'
BY StepNotes DEF TypeOK, Note, AdminExcused

\* On another port than its own a step changes neither store nor the lock.
LEMMA OtherPort ==
    ASSUME TypeOK, NEW r \in Requests, update_port(r) \/ Environment(r),
           NEW p \in Ports, p # port[r]
    PROVE  db'[p] = db[p] /\ dev'[p] = dev[p] /\ lock'[p] = lock[p]
<1> USE DEF locals, TypeOK, Release, Configure
<1>1. CASE Reject(r) \/ LoadPort(r) \/ TakeImage(r) \/ WriteRow(r) \/ UnknownVlan(r)
           \/ LabelTaken(r)
           \/ AdminSkip(r) \/ AdminRefused(r) \/ AdminAlready(r) \/ AdminApply(r)
  BY <1>1 DEF Reject, LoadPort, TakeImage, WriteRow, UnknownVlan, LabelTaken, AdminSkip,
         AdminRefused,
              AdminAlready, AdminApply, Abort
<1>2. CASE AdminPostCheck(r) \/ AdminRevert(r) \/ AdminFail(r) \/ LabelPush(r) \/ LabelFail(r)
           \/ Commit(r) \/ Reread(r) \/ MacFail(r)
  BY <1>2 DEF AdminPostCheck, AdminRevert, AdminFail, LabelPush, LabelFail, Commit, Reread,
              MacFail, Abort
<1>3. CASE PreCheck(r) \/ PushVlans(r) \/ PostCheck(r) \/ PushFail(r) \/ RollbackDb(r)
           \/ RollbackLabelTaken(r)
           \/ Environment(r)
  BY <1>3 DEF PreCheck, PushVlans, PostCheck, PushFail, RollbackDb, RollbackLabelTaken,
         Environment, Deadlock,
              RollbackDeadlock, Crash
<1> QED
  BY <1>1, <1>2, <1>3 DEF update_port

\* A step that touches neither admin_status nor the lock of a port, and whose
\* request does not hold its row.
LEMMA AdminKept ==
    ASSUME TypeOK, NEW r \in Requests, update_port(r) \/ Environment(r), NEW p \in Ports,
           AdminInStep(p), lock[p] # r,
           lock'[p] = lock[p], db'[p]["admin"] = db[p]["admin"],
           dev'[p]["admin"] = dev[p]["admin"]
    PROVE  AdminInStep(p)'
<1>1. ASSUME NEW q \in Requests, lock'[p] = q
      PROVE  pc'[q] = pc[q] /\ body'[q] = body[q] /\ AdminNeeded(q)' = AdminNeeded(q)
  BY <1>1, Frame, SamePayload DEF Untouched
<1> QED
  BY <1>1 DEF AdminInStep

\* A step that leaves the row of its port unlocked and the two stores equal.
LEMMA AdminFree ==
    ASSUME NEW p \in Ports, lock'[p] = NoReq, dev'[p]["admin"] = db'[p]["admin"]
    PROVE  AdminInStep(p)'
BY SentinelAssumption DEF AdminInStep

\* A step of the request that holds the row, and goes on holding it.
LEMMA AdminHeld ==
    ASSUME NEW r \in Requests, NEW p \in Ports, lock'[p] = r,
           pc'[r] = "written" => dev'[p]["admin"] = db'[p]["admin"],
           pc'[r] = "adminApplied" =>
               \/ db'[p]["admin"] = Other(body'[r]["admin"])
               \/ db'[p]["admin"] = body'[r]["admin"] /\ dev'[p]["admin"] = body'[r]["admin"],
           pc'[r] \in {"adminDone", "labelDone"} =>
               dev'[p]["admin"] = IF AdminNeeded(r)' THEN body'[r]["admin"] ELSE db'[p]["admin"]
    PROVE  AdminInStep(p)'
BY SentinelAssumption DEF AdminInStep

\* Under a description that hides nothing the driver reads what is.
LEMMA ReadsTrue ==
    ASSUME TypeOK, NEW r \in Requests, AdminNeeded(r), "offlabel" \notin HiddenBy(r)
    PROVE  ReadsAsAsked(r) <=> AdminTaken(r)
<1>1. port[r] \in Ports /\ dev[port[r]]["admin"] \in AdminStates
  BY DEF TypeOK, Row
<1>2. body[r]["admin"] \in AdminStates
  BY DEF TypeOK, Body, AdminNeeded, Dirty, HasVlans
<1> QED
  BY <1>1, <1>2 DEF HiddenBy, ReadsAsAsked, AdminTaken, Enabled, AdminStates

\* What a step does to its own port, unless it is one of the excused events.
LEMMA OwnPort ==
    ASSUME TypeOK, PayloadInv, LockInv, NEW r \in Requests, update_port(r) \/ Environment(r),
           AdminInStep(port[r]), ~AdminExcused(port[r])'
    PROVE  AdminInStep(port[r])'
<1> DEFINE p == port[r]
<1> USE DEF locals, Goto
<1>0. /\ p \in Ports /\ p' = p
      /\ db \in [Ports -> Row] /\ dev \in [Ports -> Row] /\ pc \in [Requests -> Places]
      /\ lock \in [Ports -> Requests \cup {NoReq}] /\ causes \in [Ports -> SUBSET Causes]
  BY SamePort DEF TypeOK
<1>a. /\ db[p]["admin"] \in AdminStates /\ dev[p]["admin"] \in AdminStates
      /\ AdminNeeded(r) => body[r]["admin"] \in AdminStates
  BY <1>0 DEF TypeOK, Row, Body, AdminNeeded, Dirty, HasVlans, Columns, Scalars
<1>h. lock[p] = r <=> pc[r] \in WriteHeld /\ Dirty(r) # {}
  BY DEF LockInv
<1>n. AdminNeeded(r) /\ pc[r] \in WriteHeld => lock[p] = r
  BY NeededHolds
<1>f. ASSUME lock[p] = r, Release(r) PROVE lock'[p] = NoReq
  BY <1>f, <1>0 DEF Release
<1>g. ASSUME lock[p] # r, Release(r) PROVE lock'[p] = lock[p]
  BY <1>g, <1>0 DEF Release
<1>c. ASSUME NEW why, Note(r, why)
      PROVE  why \cap {"aborted", "offlabel", "masked", "staleadmin"} = {}
  <2>1. causes'[p] = causes[p] \cup why
    BY <1>c, <1>0 DEF Note
  <2>2. causes'[p'] \cap {"aborted", "offlabel", "masked", "staleadmin"} = {}
    BY DEF AdminExcused
  <2> QED
    BY <1>0, <2>1, <2>2
<1> HIDE DEF p
\* Before the row is written, and after the transaction.
<1>1. CASE Reject(r) \/ LoadPort(r) \/ TakeImage(r) \/ Deadlock(r) \/ Reread(r) \/ MacFail(r)
           \/ PreCheck(r) \/ PostCheck(r) \/ RollbackDeadlock(r) \/ RollbackLabelTaken(r)
  <2>1. UNCHANGED <<db, dev, lock>> /\ pc[r] \notin WriteHeld
    BY <1>1 DEF Reject, LoadPort, TakeImage, Deadlock, Reread, MacFail, PreCheck, PostCheck,
                RollbackDeadlock, RollbackLabelTaken, WriteHeld
  <2> QED
    BY <1>0, <1>h, <2>1, AdminKept DEF p
<1>2. CASE PushVlans(r) \/ PushFail(r)
  <2>1. UNCHANGED <<db, lock>> /\ pc[r] \notin WriteHeld
    BY <1>2 DEF PushVlans, PushFail, WriteHeld
  <2>2. dev'[p]["admin"] = dev[p]["admin"]
    <3>1. UNCHANGED dev \/ Configure(r, Switchport)
      BY <1>2 DEF PushVlans, PushFail
    <3> QED
      BY <1>0, <3>1, ConfigureKeeps DEF Switchport
  <2> QED
    BY <1>0, <1>h, <2>1, <2>2, AdminKept DEF p
<1>3. CASE RollbackDb(r)
  <2>1. UNCHANGED <<dev, lock>> /\ pc[r] \notin WriteHeld
    BY <1>3 DEF RollbackDb, WriteHeld
  <2>2. "admin" \notin RolledBack(r)
    <3> DEFINE why == (IF "admin" \in RolledBack(r) THEN {"staleadmin"} ELSE {})
                        \cup (IF body[r]["label"] # Absent THEN {"rolledlabel"} ELSE {})
    <3>1. Note(r, why)
      BY <1>3 DEF RollbackDb
    <3>2. "staleadmin" \notin why
      BY <1>c, <3>1
    <3> QED
      BY <3>2
  <2>3. db'[p]["admin"] = db[p]["admin"]
    BY <1>0, <1>3, <2>2 DEF RollbackDb, Columns, Scalars, p
  <2> QED
    BY <1>0, <1>h, <2>1, <2>3, AdminKept DEF p
<1>4. CASE UnknownVlan(r) \/ LabelTaken(r)
  <2>1. UNCHANGED <<db, dev>> /\ Release(r) /\ pc[r] \notin WriteHeld
    BY <1>4 DEF UnknownVlan, LabelTaken, Abort, WriteHeld
  <2> QED
    BY <1>0, <1>h, <1>g, <2>1, AdminKept DEF p
\* The transaction that may hold the row.
<1>5. CASE WriteRow(r)
  <2>1. UNCHANGED <<db, dev>> /\ pc[r] = "imaged" /\ pc'[r] = "written"
    BY <1>0, <1>5 DEF WriteRow
  <2>2. CASE Dirty(r) = {}
    BY <1>0, <1>5, <1>h, <2>1, <2>2, AdminKept DEF WriteRow, p
  <2>3. CASE Dirty(r) # {}
    <3>1. lock[p] = NoReq /\ lock'[p] = r
      BY <1>0, <1>5, <2>3 DEF WriteRow, p
    <3>2. dev'[p]["admin"] = db'[p]["admin"]
      BY <2>1, <3>1 DEF AdminInStep, p
    <3> QED
      BY <1>0, <2>1, <3>1, <3>2, AdminHeld DEF p
  <2> QED
    BY <2>2, <2>3
<1>6. CASE AdminSkip(r) \/ LabelPush(r)
  <2>1. /\ UNCHANGED <<db, lock, body, image>>
        /\ \/ pc[r] = "written" /\ ~AdminNeeded(r) /\ pc'[r] = "adminDone"
           \/ pc[r] = "adminDone" /\ pc'[r] = "labelDone"
    BY <1>0, <1>6 DEF AdminSkip, LabelPush
  <2>2. dev'[p]["admin"] = dev[p]["admin"]
    <3>1. UNCHANGED dev \/ Configure(r, {"label"})
      BY <1>6 DEF AdminSkip, LabelPush
    <3> QED
      BY <1>0, <3>1, ConfigureKeeps
  <2>3. AdminNeeded(r)' = AdminNeeded(r)
    BY <2>1, SamePayload
  <2>4. CASE lock[p] = r
    BY <1>0, <2>1, <2>2, <2>3, <2>4, AdminHeld DEF AdminInStep, p
  <2>5. CASE lock[p] # r
    BY <1>0, <2>1, <2>2, <2>5, AdminKept DEF p
  <2> QED
    BY <2>4, <2>5
<1>7. CASE AdminAlready(r) \/ AdminApply(r) \/ AdminPostCheck(r)
  <2>1. /\ UNCHANGED <<db, lock, body, image>>
        /\ AdminNeeded(r) /\ lock[p] = r
        /\ AdminNeeded(r)' = AdminNeeded(r)
    <3>1. UNCHANGED <<db, lock, body, image>> /\ pc[r] \in WriteHeld
      BY <1>7 DEF AdminAlready, AdminApply, AdminPostCheck, WriteHeld
    <3>2. AdminNeeded(r)
      BY <1>7 DEF AdminAlready, AdminApply, AdminPostCheck, PayloadInv
    <3> QED
      BY <1>n, <3>1, <3>2, SamePayload
  <2>2. CASE AdminAlready(r)
    <3>1. pc'[r] = "adminDone" /\ UNCHANGED dev /\ ReadsAsAsked(r)
      BY <1>0, <2>2 DEF AdminAlready
    <3>2. AdminTaken(r)
      <4> SUFFICES ASSUME ~AdminTaken(r) PROVE FALSE
        OBVIOUS
      <4>1. Note(r, HiddenBy(r))
        BY <2>2 DEF AdminAlready
      <4>2. "offlabel" \notin HiddenBy(r)
        BY <1>c, <4>1
      <4> QED
        BY <2>1, <3>1, <4>2, ReadsTrue
    <3>3. dev'[p]["admin"] = body'[r]["admin"]
      BY <2>1, <3>1, <3>2 DEF AdminTaken, p
    <3> QED
      BY <1>0, <2>1, <3>1, <3>3, AdminHeld DEF p
  <2>3. CASE AdminApply(r)
    <3>1. /\ pc[r] = "written" /\ pc'[r] = "adminApplied"
          /\ Configure(r, {"admin"}) \/ UNCHANGED dev
      BY <1>0, <2>3 DEF AdminApply, p
    <3>2. db[p]["admin"] = dev[p]["admin"]
      BY <2>1, <3>1 DEF AdminInStep, p
    <3>3. dev'[p]["admin"] \in {dev[p]["admin"], body[r]["admin"]}
      BY <1>0, <3>1 DEF Configure, Overlay, Columns, Scalars, p
    <3>4. CASE dev[p]["admin"] = body[r]["admin"]
      BY <1>0, <2>1, <3>1, <3>2, <3>3, <3>4, AdminHeld DEF p
    <3>5. CASE dev[p]["admin"] # body[r]["admin"]
      <4>1. db'[p]["admin"] = Other(body'[r]["admin"])
        BY <1>a, <2>1, <3>2, <3>5, OtherOther
      <4> QED
        BY <1>0, <2>1, <3>1, <4>1, AdminHeld DEF p
    <3> QED
      BY <3>4, <3>5
  <2>4. CASE AdminPostCheck(r)
    <3>1. pc'[r] = "adminDone" /\ UNCHANGED dev /\ Confirmed(r)
      BY <1>0, <2>4 DEF AdminPostCheck
    <3>2. AdminTaken(r)
      <4> SUFFICES ASSUME ~AdminTaken(r) PROVE FALSE
        OBVIOUS
      <4>1. Note(r, IF Masked(r) THEN {"masked"} ELSE HiddenBy(r))
        BY <2>4 DEF AdminPostCheck
      <4>2. ~Masked(r) /\ "offlabel" \notin HiddenBy(r)
        BY <1>c, <4>1
      <4> QED
        BY <2>1, <3>1, <4>2, ReadsTrue DEF Confirmed
    <3>3. dev'[p]["admin"] = body'[r]["admin"]
      BY <2>1, <3>1, <3>2 DEF AdminTaken, p
    <3> QED
      BY <1>0, <2>1, <3>1, <3>3, AdminHeld DEF p
  <2> QED
    BY <1>7, <2>2, <2>3, <2>4
\* The steps that end the transaction.
<1>8. CASE AdminRefused(r) \/ AdminRevert(r)
  <2>1. Release(r) /\ UNCHANGED db /\ lock[p] = r
    BY <1>8, <1>n DEF AdminRefused, AdminRevert, Abort, WriteHeld, PayloadInv
  <2>2. dev'[p]["admin"] = db[p]["admin"]
    <3>1. CASE AdminRefused(r)
      BY <2>1, <3>1 DEF AdminRefused, AdminInStep, p
    <3>2. CASE AdminRevert(r)
      <4>1. dev'[p]["admin"] = Other(body[r]["admin"])
        BY <1>0, <3>2 DEF AdminRevert, Row, Columns, Scalars, p
      <4>2. pc[r] = "adminApplied" /\ ~Confirmed(r) /\ AdminNeeded(r)
        BY <3>2 DEF AdminRevert, PayloadInv
      <4>3. ~AdminTaken(r)
        <5> SUFFICES ASSUME AdminTaken(r) PROVE FALSE
          OBVIOUS
        <5>1. Note(r, HiddenBy(r))
          BY <3>2 DEF AdminRevert
        <5>2. "offlabel" \notin HiddenBy(r)
          BY <1>c, <5>1
        <5> QED
          BY <4>2, <5>2, ReadsTrue DEF Confirmed
      <4>4. db[p]["admin"] = Other(body[r]["admin"])
        BY <2>1, <4>2, <4>3 DEF AdminInStep, AdminTaken, p
      <4> QED
        BY <4>1, <4>4
    <3> QED
      BY <1>8, <3>1, <3>2
  <2> QED
    BY <1>0, <1>f, <2>1, <2>2, AdminFree DEF p
<1>9. CASE AdminFail(r)
  <2>1. AdminNeeded(r) /\ pc[r] = "adminApplied"
    BY <1>9 DEF AdminFail, PayloadInv
  <2>2. Note(r, Touched(r)) /\ "aborted" \in Touched(r)
    BY <1>9, <2>1 DEF AdminFail, Abort, Touched
  <2> QED
    BY <1>c, <2>2
<1>10. CASE LabelFail(r)
  <2>1. Release(r) /\ UNCHANGED db /\ pc[r] = "adminDone"
    BY <1>10 DEF LabelFail
  <2>2. ~AdminNeeded(r)
    <3>1. Note(r, Touched(r) \cup (IF dev' # dev THEN {"halflabel"} ELSE {}))
      BY <1>10 DEF LabelFail
    <3>2. "aborted" \notin Touched(r)
      BY <1>c, <3>1
    <3> QED
      BY <2>1, <3>2 DEF Touched
  <2>3. dev'[p]["admin"] = dev[p]["admin"]
    <3>1. UNCHANGED dev \/ Configure(r, {"label"})
      BY <1>10 DEF LabelFail
    <3> QED
      BY <1>0, <3>1, ConfigureKeeps
  <2>4. CASE lock[p] = r
    <3>1. dev'[p]["admin"] = db'[p]["admin"]
      BY <2>1, <2>2, <2>3, <2>4 DEF AdminInStep, p
    <3> QED
      BY <1>0, <1>f, <2>1, <2>4, <3>1, AdminFree DEF p
  <2>5. CASE lock[p] # r
    BY <1>0, <1>g, <2>1, <2>3, <2>5, AdminKept DEF p
  <2> QED
    BY <2>4, <2>5
<1>11. CASE Commit(r)
  <2>1. Release(r) /\ UNCHANGED dev /\ pc[r] = "labelDone"
    BY <1>11 DEF Commit
  <2>2. db'[p]["admin"] = IF AdminNeeded(r) THEN body[r]["admin"] ELSE db[p]["admin"]
    BY <1>0, <1>11 DEF Commit, Overlay, AdminNeeded, Columns, Scalars, p
  <2>3. CASE lock[p] = r
    <3>1. dev'[p]["admin"] = db'[p]["admin"]
      BY <2>1, <2>2, <2>3 DEF AdminInStep, p
    <3> QED
      BY <1>0, <1>f, <2>1, <2>3, <3>1, AdminFree DEF p
  <2>4. CASE lock[p] # r
    <3>1. db'[p]["admin"] = db[p]["admin"]
      BY <1>n, <2>1, <2>2, <2>4 DEF WriteHeld
    <3> QED
      BY <1>0, <1>g, <2>1, <2>4, <3>1, AdminKept DEF p
  <2> QED
    BY <2>3, <2>4
<1>12. CASE Crash(r)
  <2>1. Release(r) /\ UNCHANGED <<db, dev>>
    BY <1>12 DEF Crash
  <2>2. "aborted" \notin Touched(r)
    <3>1. Note(r, Touched(r) \cup (IF pc[r] \in AfterCommit THEN {"crashed"} ELSE {}))
      BY <1>12 DEF Crash
    <3> QED
      BY <1>c, <3>1
  <2>3. CASE lock[p] = r
    <3>1. pc[r] \in WriteHeld
      BY <1>h, <2>3
    <3>2. \/ pc[r] = "written"
          \/ pc[r] \in {"adminDone", "labelDone"} /\ ~AdminNeeded(r)
      BY <2>2, <3>1 DEF Touched, WriteHeld, PayloadInv
    <3>3. dev'[p]["admin"] = db'[p]["admin"]
      BY <2>1, <2>3, <3>2 DEF AdminInStep, p
    <3> QED
      BY <1>0, <1>f, <2>1, <2>3, <3>3, AdminFree DEF p
  <2>4. CASE lock[p] # r
    BY <1>0, <1>g, <2>1, <2>4, AdminKept DEF p
  <2> QED
    BY <2>3, <2>4
<1> QED
  BY <1>1, <1>2, <1>3, <1>4, <1>5, <1>6, <1>7, <1>8, <1>9, <1>10, <1>11, <1>12
     DEF update_port, Environment

LEMMA StepAdmin ==
    ASSUME TypeOK, PayloadInv, LockInv, AdminInv,
           NEW r \in Requests, update_port(r) \/ Environment(r)
    PROVE  AdminInv'
<1> SUFFICES ASSUME NEW p \in Ports, ~AdminExcused(p)'
             PROVE  AdminInStep(p)'
  BY DEF AdminInv
<1>1. AdminInStep(p)
  BY ExcusedStays DEF AdminInv
<1>2. CASE p = port[r]
  <2>1. ~AdminExcused(port[r])'
    BY <1>2, SamePort DEF AdminExcused
  <2>2. AdminInStep(port[r])'
    BY <1>1, <1>2, <2>1, OwnPort
  <2> QED
    BY <1>2, <2>2, SamePort DEF AdminInStep
<1>3. CASE p # port[r]
  <2>1. lock[p] # r
    BY <1>3, SentinelAssumption DEF LockInv
  <2> QED
    BY <1>1, <1>3, <2>1, OtherPort, AdminKept
<1> QED
  BY <1>2, <1>3

\* In every behaviour the row of a port is locked exactly by the request whose
\* open transaction has written to it, so by at most one.
THEOREM LockCorrect == Spec => []LockInv
<1>1. Init => LockInv
  BY InitLock
<1>2. TypeOK /\ PayloadInv /\ LockInv /\ [Next]_vars => LockInv'
  <2> SUFFICES ASSUME TypeOK, PayloadInv, LockInv, [Next]_vars
               PROVE  LockInv'
    OBVIOUS
  <2>1. CASE Next
    BY <2>1, StepLock DEF Next
  <2>2. CASE UNCHANGED vars
    BY <2>2 DEF vars, LockInv, Dirty, HasVlans
  <2> QED
    BY <2>1, <2>2
<1> QED
  BY <1>1, <1>2, TypeCorrect, PTL DEF Spec

LEMMA NextAdmin ==
    ASSUME TypeOK, PayloadInv, LockInv, AdminInv, [Next]_vars
    PROVE  AdminInv'
<1>1. CASE Next
  BY <1>1, StepAdmin DEF Next
<1>2. CASE UNCHANGED vars
  BY <1>2 DEF vars, AdminInv, AdminInStep, AdminExcused, AdminNeeded, Dirty, HasVlans
<1> QED
  BY <1>1, <1>2

\* In every behaviour admin_status is in step at each place of a transaction.
THEOREM AdminTracked == Spec => []AdminInv
BY InitAdmin, NextAdmin, TypeCorrect, LockCorrect, PTL DEF Spec

\* In every behaviour, for any number of concurrent requests, database and
\* interface agree on the admin_status of a port whose row nobody holds, the
\* four events of AdminExcused apart.
THEOREM AdminConsistent == Spec => []AdminAgrees
<1>1. AdminInv => AdminAgrees
  BY DEF AdminInv, AdminAgrees, AdminInStep
<1> QED
  BY <1>1, AdminTracked, PTL

-----------------------------------------------------------------------------
(* Requests that have the port to themselves.                              *)

Step(r) == update_port(r) \/ Environment(r)

LEMMA NextSteps == Next <=> \E r \in Requests : Step(r)
BY DEF Next, Step

\* What happened on a port is not forgotten, and happened on the own port.
LEMMA CausesGrow ==
    ASSUME TypeOK, NEW r \in Requests, Step(r), NEW p \in Ports
    PROVE  /\ causes[p] \subseteq causes'[p]
           /\ p # port[r] => causes'[p] = causes[p]
BY StepNotes DEF TypeOK, Note, Step

\* Only LoadPort starts to work on a port; Reject answers what never did.
LEMMA Starts ==
    ASSUME TypeOK, NEW r \in Requests, Step(r)
    PROVE  Active(r) \/ LoadPort(r) \/ Reject(r)
BY DEF Step, update_port, Environment, LoadPort, Reject, TakeImage, WriteRow, UnknownVlan,
       LabelTaken, AdminSkip, AdminRefused, AdminAlready, AdminApply, AdminPostCheck,
       AdminRevert, AdminFail, LabelPush, LabelFail, Commit, Reread, MacFail, PreCheck,
       PushVlans, PostCheck, PushFail, RollbackDb, RollbackLabelTaken, Deadlock,
       RollbackDeadlock, Crash, Active, Answered

\* Where no overlap was noted one request at a time works on a port.
AloneInv ==
    \A p \in Ports : "overlap" \notin causes[p] =>
        \A r, q \in Requests :
            r # q /\ port[r] = p /\ port[q] = p => ~(Active(r) /\ Active(q))

LEMMA StepLone ==
    ASSUME TypeOK, AloneInv, NEW r \in Requests, Step(r), ~Reject(r),
           "overlap" \notin causes'[port[r]],
           NEW q \in Requests, q # r, port[q] = port[r]
    PROVE  pc[q] \in {"arrive"} \cup Answered /\ pc'[q] = pc[q]
<1>1. pc'[q] = pc[q] /\ port[r] \in Ports
  BY Frame DEF Untouched, Step, TypeOK
<1>2. ~Active(q)
  <2>1. CASE LoadPort(r)
    BY <1>1, <2>1 DEF LoadPort, Note, TypeOK
  <2>2. CASE Active(r)
    BY <1>1, <2>2, CausesGrow DEF AloneInv
  <2> QED
    BY <2>1, <2>2, Starts
<1> QED
  BY <1>1, <1>2 DEF Active

LEMMA StepAlone ==
    ASSUME TypeOK, AloneInv, NEW r \in Requests, Step(r)
    PROVE  AloneInv'
<1> SUFFICES ASSUME NEW p \in Ports, "overlap" \notin causes'[p],
                    NEW x \in Requests, NEW y \in Requests, x # y,
                    port'[x] = p, port'[y] = p
             PROVE  ~(Active(x)' /\ Active(y)')
  BY DEF AloneInv
<1>1. port' = port /\ "overlap" \notin causes[p]
  BY SamePort, CausesGrow DEF Step
<1>2. \A q \in Requests \ {r} : pc'[q] = pc[q]
  BY Frame DEF Untouched, Step
<1>3. CASE Reject(r)
  BY <1>1, <1>2, <1>3 DEF AloneInv, Active, Reject, Goto, TypeOK, Answered
<1>4. CASE ~Reject(r) /\ port[r] = p
  BY <1>1, <1>4, StepLone DEF Active
<1>5. CASE port[r] # p
  BY <1>1, <1>2, <1>5 DEF AloneInv, Active
<1> QED
  BY <1>3, <1>4, <1>5

-----------------------------------------------------------------------------
(* What a request that is alone knows of its row.                          *)

\* The copy a request works with is the row, up to its commit; afterwards the
\* row is the copy with the payload laid over it, and the attributes that were
\* loaded again are those of the row.
CopyOK(r) ==
    /\ pc[r] \in {"loaded"} \cup InTxn => \A c \in Scalars : image[r][c] = db[port[r]][c]
    /\ pc[r] \in InTxn => image[r]["vlans"] = db[port[r]]["vlans"]
    /\ pc[r] \in AfterCommit =>
          \A c \in Columns :
              db[port[r]][c] = IF body[r][c] = Absent THEN image[r][c] ELSE body[r][c]
    /\ pc[r] \in AfterCommit \ {"committed"} =>
          \A c \in Scalars : loaded[r][c] = db[port[r]][c]

CopyInv == \A r \in Requests : "overlap" \notin causes[port[r]] => CopyOK(r)

\* A step of r that keeps to one side of the commit and leaves row and copy alone.
LEMMA CopyKept ==
    ASSUME NEW r \in Requests, CopyOK(r), port' = port, db'[port[r]] = db[port[r]],
           body'[r] = body[r], image'[r] = image[r], loaded'[r] = loaded[r],
           \/ pc'[r] \in {"arrive"} \cup Answered
           \/ pc[r] \in InTxn /\ pc'[r] \in InTxn
           \/ pc[r] \in AfterCommit \ {"committed"} /\ pc'[r] \in AfterCommit
    PROVE  CopyOK(r)'
BY DEF CopyOK, InTxn, WriteHeld, AfterCommit, Answered

LEMMA OwnCopy ==
    ASSUME TypeOK, PayloadInv, NEW r \in Requests, Step(r), CopyOK(r)
    PROVE  CopyOK(r)'
<1> DEFINE p == port[r]
<1>0. /\ p \in Ports /\ port' = port
      /\ db[p] \in Row /\ image[r] \in Row /\ body[r] \in Body
  BY SamePort DEF Step, TypeOK
<1> USE DEF locals, Goto, TypeOK
<1>1. CASE pc'[r] \in {"arrive"} \cup Answered
  BY <1>1 DEF CopyOK, InTxn, WriteHeld, AfterCommit, Answered
<1>2. CASE LoadPort(r)
  <2>1. pc'[r] = "loaded" /\ db' = db /\ \A c \in Scalars : image'[r][c] = db[p][c]
    BY <1>0, <1>2 DEF LoadPort, Row, Columns, Scalars
  <2> QED
    BY <1>0, <2>1 DEF CopyOK, InTxn, WriteHeld, AfterCommit
<1>3. CASE TakeImage(r)
  <2>1. /\ pc[r] = "loaded" /\ pc'[r] = "imaged" /\ db' = db
        /\ \A c \in Scalars : image'[r][c] = image[r][c]
        /\ image'[r]["vlans"] = db[p]["vlans"]
    BY <1>0, <1>3 DEF TakeImage, Row, Columns, Scalars
  <2> QED
    BY <1>0, <2>1 DEF CopyOK, InTxn, WriteHeld, AfterCommit
<1>4. CASE WriteRow(r) \/ AdminSkip(r) \/ AdminAlready(r) \/ AdminApply(r)
           \/ AdminPostCheck(r) \/ LabelPush(r)
  <2>1. /\ pc[r] \in InTxn /\ pc'[r] \in InTxn /\ UNCHANGED <<db, body, image, loaded>>
    BY <1>4 DEF WriteRow, AdminSkip, AdminAlready, AdminApply, AdminPostCheck, LabelPush,
                InTxn, WriteHeld
  <2> QED
    BY <1>0, <2>1, CopyKept
<1>5. CASE Commit(r) /\ HasVlans(r)
  <2>1. /\ pc[r] = "labelDone" /\ pc'[r] = "committed"
        /\ db'[p] = Overlay(db[p], r, Dirty(r)) /\ UNCHANGED <<body, image>>
    BY <1>0, <1>5 DEF Commit
  <2>2. \A c \in Columns :
            db'[p][c] = IF body[r][c] = Absent THEN image[r][c] ELSE body[r][c]
    <3> SUFFICES ASSUME NEW c \in Columns
                 PROVE  db'[p][c] = IF body[r][c] = Absent THEN image[r][c] ELSE body[r][c]
      OBVIOUS
    <3>1. db'[p][c] = IF c \in Dirty(r) THEN body[r][c] ELSE db[p][c]
      BY <2>1 DEF Overlay
    <3>2. CASE c = "vlans"
      BY <1>5, <3>1, <3>2 DEF Dirty, HasVlans
    <3>3. CASE c \in Scalars
      <4>1. db[p][c] = image[r][c]
        BY <2>1, <3>3 DEF CopyOK, InTxn, WriteHeld
      <4>2. c \in Dirty(r) <=> body[r][c] # Absent /\ body[r][c] # image[r][c]
        BY <3>3 DEF Dirty, Scalars
      <4> QED
        BY <3>1, <4>1, <4>2
    <3> QED
      BY <3>2, <3>3 DEF Columns
  <2> QED
    BY <1>0, <2>1, <2>2 DEF CopyOK, InTxn, WriteHeld, AfterCommit
<1>6. CASE Reread(r)
  <2>1. /\ pc[r] = "committed" /\ pc'[r] = "reread" /\ UNCHANGED <<db, body, image>>
        /\ \A c \in Scalars : loaded'[r][c] = db[p][c]
    BY <1>0, <1>6 DEF Reread, Row, Columns, Scalars
  <2> QED
    BY <1>0, <2>1 DEF CopyOK, InTxn, WriteHeld, AfterCommit
<1>7. CASE (PreCheck(r) \/ PushVlans(r) \/ PostCheck(r) \/ PushFail(r)) /\ pc'[r] # "ok"
  <2>1. /\ pc[r] \in AfterCommit \ {"committed"} /\ pc'[r] \in AfterCommit
        /\ UNCHANGED <<db, body, image, loaded>>
    BY <1>7 DEF PreCheck, PushVlans, PostCheck, PushFail, AfterCommit
  <2> QED
    BY <1>0, <2>1, CopyKept
<1>8. CASE RollbackDeadlock(r)
  <2>1. /\ pc[r] = "rollback" /\ pc' = pc /\ UNCHANGED <<db, body>>
        /\ \A c \in Scalars : image'[r][c] = image[r][c] /\ loaded'[r][c] = db[p][c]
    BY <1>0, <1>8 DEF RollbackDeadlock, Row, Columns, Scalars
  <2>2. body[r]["vlans"] # Absent
    BY <2>1 DEF PayloadInv, HasVlans, AfterCommit
  <2> QED
    BY <1>0, <2>1, <2>2 DEF CopyOK, InTxn, WriteHeld, AfterCommit, Columns
<1>9. CASE Reject(r) \/ UnknownVlan(r) \/ LabelTaken(r) \/ AdminRefused(r) \/ AdminRevert(r)
           \/ AdminFail(r) \/ LabelFail(r) \/ MacFail(r) \/ RollbackDb(r)
           \/ RollbackLabelTaken(r) \/ Crash(r) \/ Deadlock(r) \/ (Commit(r) /\ ~HasVlans(r))
  <2>1. pc'[r] \in {"arrive"} \cup Answered
    BY <1>9 DEF Reject, UnknownVlan, LabelTaken, AdminRefused, AdminRevert, AdminFail,
                LabelFail, MacFail, RollbackDb, RollbackLabelTaken, Crash, Deadlock, Commit,
                Abort, Answered
  <2> QED
    BY <1>1, <2>1
<1> QED
  BY <1>1, <1>2, <1>3, <1>4, <1>5, <1>6, <1>7, <1>8, <1>9
  DEF Step, update_port, Environment, Answered

LEMMA StepCopy ==
    ASSUME TypeOK, PayloadInv, AloneInv, CopyInv, NEW r \in Requests, Step(r)
    PROVE  CopyInv'
<1> SUFFICES ASSUME NEW q \in Requests, "overlap" \notin causes'[port'[q]]
             PROVE  CopyOK(q)'
  BY DEF CopyInv
<1>1. port' = port /\ port[q] \in Ports
  BY SamePort DEF Step, TypeOK
<1>2. CopyOK(q)
  BY <1>1, CausesGrow DEF CopyInv
<1>3. CASE q = r
  BY <1>2, <1>3, OwnCopy
<1>4. CASE q # r
  <2>1. Untouched(q)
    BY <1>4, Frame DEF Step
  <2>2. CASE port[q] = port[r] /\ ~Reject(r)
    <3>1. pc'[q] \in {"arrive"} \cup Answered
      BY <1>1, <1>4, <2>2, StepLone
    <3> QED
      BY <3>1 DEF CopyOK, InTxn, WriteHeld, AfterCommit, Answered
  <2>3. CASE port[q] # port[r] \/ Reject(r)
    <3>1. db'[port[q]] = db[port[q]]
      BY <1>1, <2>3, OtherPort DEF Step, Reject
    <3> QED
      BY <1>1, <1>2, <2>1, <3>1 DEF CopyOK, Untouched
  <2> QED
    BY <2>2, <2>3
<1> QED
  BY <1>3, <1>4

-----------------------------------------------------------------------------
(* Labels.                                                                 *)

LabelExcuses == {"overlap", "halflabel", "nolabel", "rolledlabel"}

\* The interface has the label of the row, or the one that is about to be
\* committed and that its driver has pushed.
LabelOK(p) ==
    /\ (\A r \in Requests : port[r] = p => pc[r] # "labelDone") => db[p]["label"] = dev[p]["label"]
    /\ \A r \in Requests : port[r] = p /\ pc[r] = "labelDone" =>
          /\ dev[p]["label"] = IF body[r]["label"] = Absent THEN db[p]["label"]
                               ELSE body[r]["label"]
          /\ body[r]["label"] # Absent => PushesLabel(r)

LabelInv == \A p \in Ports : causes[p] \cap LabelExcuses = {} => LabelOK(p)

\* A driver call leaves the columns it does not name.
LEMMA ConfigureColumns ==
    ASSUME TypeOK, NEW r \in Requests, NEW S, Configure(r, S)
    PROVE  /\ \A c \in Columns \ S : dev'[port[r]][c] = dev[port[r]][c]
           /\ \A c \in Columns \cap S : dev'[port[r]][c] = body[r][c]
BY DEF TypeOK, Configure, Overlay

\* A step with no part in it.
LEMMA LabelKept ==
    ASSUME TypeOK, NEW r \in Requests, Step(r), NEW p \in Ports, LabelOK(p),
           port[r] = p => pc[r] # "labelDone" /\ pc'[r] # "labelDone",
           db'[p]["label"] = db[p]["label"], dev'[p]["label"] = dev[p]["label"]
    PROVE  LabelOK(p)'
<1>1. port' = port /\ os' = os
  BY SamePort DEF Step
<1>2. \A q \in Requests \ {r} : pc'[q] = pc[q] /\ body'[q] = body[q]
  BY Frame DEF Untouched, Step
<1> QED
  BY <1>1, <1>2 DEF LabelOK, PushesLabel

LEMMA OwnLabel ==
    ASSUME TypeOK, PayloadInv, AloneInv, CopyInv, LabelInv, NEW r \in Requests, Step(r),
           causes'[port[r]] \cap LabelExcuses = {}
    PROVE  LabelOK(port[r])'
<1> DEFINE p == port[r]
<1>0. /\ p \in Ports /\ port' = port /\ os' = os
      /\ db[p] \in Row /\ dev[p] \in Row /\ image[r] \in Row /\ body[r] \in Body
      /\ LabelOK(p)
  BY SamePort, CausesGrow DEF Step, TypeOK, LabelInv
<1>c. "overlap" \notin causes'[p] /\ "overlap" \notin causes[p]
  BY <1>0, CausesGrow DEF LabelExcuses
<1>n. ASSUME NEW why, Note(r, why) PROVE why \cap LabelExcuses = {}
  BY <1>n DEF Note, TypeOK
<1>a. ~Reject(r) => \A q \in Requests \ {r} : port[q] = p => pc[q] # "labelDone" /\ pc'[q] = pc[q]
  BY <1>c, StepLone DEF Answered
<1> USE DEF locals, Goto, TypeOK
<1>1. CASE Reject(r) \/ LoadPort(r) \/ TakeImage(r) \/ WriteRow(r) \/ UnknownVlan(r)
           \/ LabelTaken(r) \/ Deadlock(r) \/ AdminSkip(r) \/ AdminRefused(r) \/ AdminAlready(r)
           \/ AdminPostCheck(r) \/ AdminFail(r) \/ Reread(r) \/ MacFail(r) \/ PreCheck(r)
           \/ PostCheck(r) \/ RollbackLabelTaken(r) \/ RollbackDeadlock(r)
           \/ (Crash(r) /\ pc[r] # "labelDone")
  <2>1. pc[r] # "labelDone" /\ pc'[r] # "labelDone" /\ UNCHANGED <<db, dev>>
    BY <1>1 DEF Reject, LoadPort, TakeImage, WriteRow, UnknownVlan, LabelTaken, Deadlock,
                AdminSkip, AdminRefused, AdminAlready, AdminPostCheck, AdminFail, Reread,
                MacFail, PreCheck, PostCheck, RollbackLabelTaken, RollbackDeadlock, Crash, Abort
  <2> QED
    BY <1>0, <2>1, LabelKept
<1>2. CASE AdminApply(r) \/ AdminRevert(r) \/ PushVlans(r) \/ PushFail(r)
  <2>1. /\ pc[r] # "labelDone" /\ pc'[r] # "labelDone" /\ UNCHANGED db
        /\ dev'[p]["label"] = dev[p]["label"]
    <3>1. CASE AdminRevert(r)
      BY <1>0, <3>1 DEF AdminRevert, Row, Columns, Scalars
    <3>2. CASE AdminApply(r) \/ PushVlans(r) \/ PushFail(r)
      BY <3>2, ConfigureColumns
      DEF AdminApply, PushVlans, PushFail, Switchport, Columns, Scalars
    <3>3. pc[r] # "labelDone" /\ pc'[r] # "labelDone" /\ UNCHANGED db
      BY <1>2 DEF AdminApply, AdminRevert, PushVlans, PushFail
    <3> QED
      BY <1>2, <3>1, <3>2, <3>3
  <2> QED
    BY <1>0, <2>1, LabelKept
<1>3. CASE LabelPush(r)
  <2>0. body[r]["label"] # Absent => PushesLabel(r)
    <3>1. Note(r, IF body[r]["label"] # Absent /\ ~PushesLabel(r) THEN {"nolabel"} ELSE {})
      BY <1>3 DEF LabelPush
    <3> QED
      BY <1>n, <3>1 DEF LabelExcuses
  <2>1. /\ pc[r] = "adminDone" /\ pc'[r] = "labelDone" /\ UNCHANGED <<db, body>>
        /\ dev'[p]["label"] = IF body[r]["label"] = Absent THEN dev[p]["label"]
                              ELSE body[r]["label"]
    BY <1>3, <2>0, ConfigureColumns DEF LabelPush, PushesLabel, Columns, Scalars
  <2>2. ~Reject(r)
    BY <2>1 DEF Reject
  <2> QED
    BY <1>0, <1>a, <2>0, <2>1, <2>2 DEF LabelOK, PushesLabel
<1>4. CASE LabelFail(r)
  <2>1. dev' = dev
    <3>1. Note(r, Touched(r) \cup (IF dev' # dev THEN {"halflabel"} ELSE {}))
      BY <1>4 DEF LabelFail
    <3>2. "halflabel" \notin Touched(r) \cup (IF dev' # dev THEN {"halflabel"} ELSE {})
      BY <1>n, <3>1 DEF LabelExcuses
    <3> QED
      BY <3>2
  <2> QED
    BY <1>0, <1>4, <2>1, LabelKept DEF LabelFail
<1>5. CASE Commit(r)
  <2>1. /\ pc[r] = "labelDone" /\ pc'[r] # "labelDone" /\ UNCHANGED dev
        /\ db'[p]["label"] = IF "label" \in Dirty(r) THEN body[r]["label"] ELSE db[p]["label"]
    BY <1>0, <1>5 DEF Commit, Overlay, Columns, Scalars
  <2>2. "label" \in Dirty(r) <=> body[r]["label"] # Absent /\ body[r]["label"] # image[r]["label"]
    BY DEF Dirty, Scalars
  <2>3. image[r]["label"] = db[p]["label"]
    BY <1>c, <2>1 DEF CopyInv, CopyOK, InTxn, WriteHeld, Scalars
  <2>4. ~Reject(r)
    BY <2>1 DEF Reject
  <2> QED
    BY <1>0, <1>a, <2>1, <2>2, <2>3, <2>4 DEF LabelOK
<1>6. CASE Crash(r) /\ pc[r] = "labelDone"
  <2>1. /\ pc'[r] # "labelDone" /\ UNCHANGED <<db, dev>> /\ ~Reject(r)
    BY <1>6 DEF Crash, Reject
  <2>2. body[r]["label"] = Absent
    <3>1. Note(r, Touched(r) \cup (IF pc[r] \in AfterCommit THEN {"crashed"} ELSE {}))
      BY <1>6 DEF Crash
    <3>2. "halflabel" \notin Touched(r) \cup (IF pc[r] \in AfterCommit THEN {"crashed"} ELSE {})
      BY <1>n, <3>1 DEF LabelExcuses
    <3>3. ~PushesLabel(r)
      BY <1>6, <3>2 DEF Touched
    <3> QED
      BY <1>0, <1>6, <3>3 DEF LabelOK
  <2> QED
    BY <1>0, <1>6, <1>a, <2>1, <2>2 DEF LabelOK
<1>7. CASE RollbackDb(r)
  <2>1. /\ pc[r] = "rollback" /\ pc'[r] # "labelDone" /\ UNCHANGED dev
        /\ db'[p]["label"] = IF "label" \in RolledBack(r) THEN image[r]["label"]
                             ELSE db[p]["label"]
    BY <1>0, <1>7 DEF RollbackDb, Columns, Scalars
  <2>2. body[r]["label"] = Absent
    <3> DEFINE why == (IF "admin" \in RolledBack(r) THEN {"staleadmin"} ELSE {})
                        \cup (IF body[r]["label"] # Absent THEN {"rolledlabel"} ELSE {})
    <3>1. Note(r, why)
      BY <1>7 DEF RollbackDb
    <3>2. why \cap LabelExcuses = {}
      BY <1>n, <3>1
    <3> QED
      BY <3>2 DEF LabelExcuses
  <2>3. db[p]["label"] = image[r]["label"]
    BY <1>c, <2>1, <2>2 DEF CopyInv, CopyOK, AfterCommit, Columns, Scalars
  <2> QED
    BY <1>0, <2>1, <2>3, LabelKept
<1> QED
  BY <1>1, <1>2, <1>3, <1>4, <1>5, <1>6, <1>7 DEF Step, update_port, Environment

LEMMA StepLabel ==
    ASSUME TypeOK, PayloadInv, AloneInv, CopyInv, LabelInv, NEW r \in Requests, Step(r)
    PROVE  LabelInv'
<1> SUFFICES ASSUME NEW p \in Ports, causes'[p] \cap LabelExcuses = {}
             PROVE  LabelOK(p)'
  BY DEF LabelInv
<1>1. CASE p = port[r]
  <2>1. LabelOK(port[r])'
    BY <1>1, OwnLabel
  <2> QED
    BY <1>1, <2>1, SamePort DEF LabelOK, Step
<1>2. CASE p # port[r]
  <2>1. LabelOK(p)
    BY CausesGrow DEF LabelInv
  <2> QED
    BY <1>2, <2>1, OtherPort, LabelKept DEF Step
<1> QED
  BY <1>1, <1>2

-----------------------------------------------------------------------------
(* Switchports.                                                            *)

SwitchportExcuses == {"overlap", "crashed", "mac", "misread", "unconfirmed", "halfpushed",
                      "lostvlans", "modeonly", "labeltaken"}

\* What the driver reads of the interface, and compares, is what it has.
ReadRight(r) == ~Distorted(dev[port[r]], os[port[r]]) /\ ~AccessNative(r)

\* Lists are equal when their tags and their native vlans are.
LEMMA SameList ==
    ASSUME NEW v \in Vlans \cup {NoVlans}, NEW w \in Vlans \cup {NoVlans},
           TagsOf[v] = TagsOf[w], NativeOf[v] = NativeOf[w]
    PROVE  v = w
BY InputAssumption

\* What a request with vlans asks for, and what its interface has.
LEMMA FlipTypes ==
    ASSUME TypeOK, PayloadInv, NEW r \in Requests, pc[r] \in AfterCommit
    PROVE  /\ body[r]["mode"] \in {"access", "trunk"}
           /\ body[r]["vlans"] \in Vlans
           /\ dev[port[r]]["vlans"] \in Vlans \cup {NoVlans}
<1>1. HasVlans(r) /\ ValidPayload(r)
  BY DEF PayloadInv, Active, AfterCommit, Answered
<1>2. body[r] \in Body /\ dev[port[r]] \in Row
  BY DEF TypeOK
<1> QED
  BY <1>1, <1>2 DEF HasVlans, ValidPayload, Body, Row, Modes

\* compare_vlan_config is right about an interface that is read right: what it
\* takes for the list asked for is that list, and it recognizes what was pushed.
LEMMA ComparesRight ==
    ASSUME TypeOK, PayloadInv, NEW r \in Requests, pc[r] \in AfterCommit, ReadRight(r),
           SameSwitchport(r)
    PROVE  \A c \in Switchport : dev[port[r]][c] = body[r][c]
<1> DEFINE row == dev[port[r]]
           asked == body[r]["vlans"]
<1>1. ReadTags(row, os[port[r]]) = TagsOf[row["vlans"]] /\ TagsOf[row["vlans"]] # {}
  BY DEF ReadRight, Distorted
<1>2. TagsOf[row["vlans"]] = TagsOf[asked]
  BY <1>1 DEF SameSwitchport
<1>3. row["mode"] = body[r]["mode"]
  BY DEF ReadRight, Distorted, SameSwitchport
<1>4. NativeOf[row["vlans"]] = NativeOf[asked]
  BY <1>2, FlipTypes DEF ReadRight, AccessNative, SameSwitchport
<1>5. row["vlans"] = asked
  BY <1>2, <1>4, FlipTypes, SameList
<1> QED
  BY <1>3, <1>5 DEF Switchport

LEMMA Recognizes ==
    ASSUME TypeOK, PayloadInv, NEW r \in Requests, pc[r] = "applied",
           ~Distorted(dev[port[r]], os[port[r]]),
           \A c \in Switchport : dev[port[r]][c] = body[r][c]
    PROVE  SameSwitchport(r)
<1>1. Shaped(r) /\ body[r]["mode"] \in {"access", "trunk"}
  BY FlipTypes DEF PayloadInv, AfterCommit
<1>2. dev[port[r]]["mode"] = body[r]["mode"] /\ dev[port[r]]["vlans"] = body[r]["vlans"]
  BY DEF Switchport
<1> QED
  BY <1>1, <1>2 DEF Shaped, SameSwitchport, Distorted

\* Between commit and push the interface is as the copy has it, and after the
\* push as the copy or as the payload has it; otherwise as the row has it.
SwitchportOK(p) ==
    /\ (\A r \in Requests : port[r] = p => pc[r] \notin AfterCommit) =>
          \A c \in Switchport : db[p][c] = dev[p][c]
    /\ \A r \in Requests : port[r] = p =>
          /\ pc[r] \in AfterCommit \ {"applied"} => \A c \in Switchport : dev[p][c] = image[r][c]
          /\ pc[r] = "applied" =>
                \/ \A c \in Switchport : dev[p][c] = image[r][c]
                \/ \A c \in Switchport : dev[p][c] = body[r][c]

SwitchportInv == \A p \in Ports : causes[p] \cap SwitchportExcuses = {} => SwitchportOK(p)

\* A step with no part in it.
LEMMA SwitchportKept ==
    ASSUME TypeOK, NEW r \in Requests, Step(r), NEW p \in Ports, SwitchportOK(p),
           port[r] = p => pc[r] \notin AfterCommit /\ pc'[r] \notin AfterCommit,
           \A c \in Switchport : db'[p][c] = db[p][c] /\ dev'[p][c] = dev[p][c]
    PROVE  SwitchportOK(p)'
<1>1. port' = port
  BY SamePort DEF Step
<1>2. \A q \in Requests \ {r} : pc'[q] = pc[q] /\ body'[q] = body[q] /\ image'[q] = image[q]
  BY Frame DEF Untouched, Step
<1>3. (\A q \in Requests : port'[q] = p => pc'[q] \notin AfterCommit) =>
          \A c \in Switchport : db'[p][c] = dev'[p][c]
  <2>1. (\A q \in Requests : port'[q] = p => pc'[q] \notin AfterCommit) =>
            \A q \in Requests : port[q] = p => pc[q] \notin AfterCommit
    BY <1>1, <1>2
  <2> QED
    BY <2>1 DEF SwitchportOK
<1>4. ASSUME NEW q \in Requests, port'[q] = p
      PROVE  /\ pc'[q] \in AfterCommit \ {"applied"} =>
                    \A c \in Switchport : dev'[p][c] = image'[q][c]
             /\ pc'[q] = "applied" =>
                    \/ \A c \in Switchport : dev'[p][c] = image'[q][c]
                    \/ \A c \in Switchport : dev'[p][c] = body'[q][c]
  <2>1. CASE q = r
    BY <1>1, <1>4, <2>1 DEF AfterCommit
  <2>2. CASE q # r
    BY <1>1, <1>2, <1>4, <2>2 DEF SwitchportOK
  <2> QED
    BY <2>1, <2>2
<1> QED
  BY <1>3, <1>4 DEF SwitchportOK

\* A step of the only request at work on its port.
LEMMA SwitchportMoved ==
    ASSUME TypeOK, NEW r \in Requests, port' = port, SwitchportOK(port[r]),
           \A q \in Requests \ {r} : port[q] = port[r] => pc'[q] \notin AfterCommit,
           pc'[r] \notin AfterCommit =>
               \A c \in Switchport : db'[port[r]][c] = dev'[port[r]][c],
           pc'[r] \in AfterCommit \ {"applied"} =>
               \A c \in Switchport : dev'[port[r]][c] = image'[r][c],
           pc'[r] = "applied" =>
               \/ \A c \in Switchport : dev'[port[r]][c] = image'[r][c]
               \/ \A c \in Switchport : dev'[port[r]][c] = body'[r][c]
    PROVE  SwitchportOK(port[r])'
BY DEF SwitchportOK, AfterCommit

\* What is answered after a check compared equal, and was noted if misread.
LEMMA CheckedOk ==
    ASSUME TypeOK, NEW r \in Requests, PreCheck(r) \/ PostCheck(r), pc'[r] = "ok"
    PROVE  /\ SameSwitchport(r)
           /\ "misread" \notin causes'[port[r]] => ReadRight(r)
<1>1. PICK up \in Links, last \in {"prechecked", "rollback"} :
         /\ Goto(r, IF up /\ SameSwitchport(r) THEN "ok" ELSE last)
         /\ \/ Note(r, Misread(r, up /\ SameSwitchport(r)))
            \/ Note(r, Misread(r, up /\ SameSwitchport(r))
                         \cup Unconfirmed(r, up /\ SameSwitchport(r), up))
  BY DEF PreCheck, PostCheck
<1>2. up /\ SameSwitchport(r)
  BY <1>1 DEF Goto, TypeOK
<1>3. Misread(r, up /\ SameSwitchport(r)) \subseteq causes'[port[r]]
  BY <1>1 DEF Note, TypeOK
<1> QED
  BY <1>2, <1>3 DEF Misread, ReadRight

LEMMA OwnSwitchport ==
    ASSUME TypeOK, PayloadInv, AloneInv, CopyInv, SwitchportInv, NEW r \in Requests, Step(r),
           causes'[port[r]] \cap SwitchportExcuses = {}
    PROVE  SwitchportOK(port[r])'
<1> DEFINE p == port[r]
<1>0. /\ p \in Ports /\ port' = port
      /\ db[p] \in Row /\ dev[p] \in Row /\ image[r] \in Row /\ body[r] \in Body
      /\ SwitchportOK(p)
      /\ Switchport \subseteq Columns
  BY SamePort, CausesGrow DEF Step, TypeOK, SwitchportInv, Switchport, Columns, Scalars
<1>c. "overlap" \notin causes'[p] /\ "overlap" \notin causes[p]
  BY <1>0, CausesGrow DEF SwitchportExcuses
<1>n. ASSUME NEW why, Note(r, why) PROVE why \cap SwitchportExcuses = {}
  BY <1>n DEF Note, TypeOK
<1>a. ~Reject(r) => \A q \in Requests \ {r} : port[q] = p =>
          pc[q] \notin AfterCommit /\ pc'[q] \notin AfterCommit
  BY <1>c, StepLone DEF Answered, AfterCommit
<1>b. pc[r] \in AfterCommit => /\ HasVlans(r) /\ body[r]["mode"] # Absent
                               /\ \A c \in Switchport : db[p][c] = body[r][c]
  <2> SUFFICES ASSUME pc[r] \in AfterCommit
               PROVE  /\ HasVlans(r) /\ body[r]["mode"] # Absent
                      /\ \A c \in Switchport : db[p][c] = body[r][c]
    OBVIOUS
  <2>1. HasVlans(r) /\ ValidPayload(r)
    BY DEF PayloadInv, Active, AfterCommit, Answered
  <2>2. body[r]["mode"] # Absent /\ body[r]["vlans"] # Absent
    BY <2>1 DEF HasVlans, ValidPayload
  <2> QED
    BY <1>0, <1>c, <2>1, <2>2 DEF CopyInv, CopyOK, Switchport
<1> USE DEF locals, Goto, TypeOK
\* Up to the commit, and what ends before it.
<1>1. CASE Reject(r) \/ LoadPort(r) \/ TakeImage(r) \/ WriteRow(r) \/ UnknownVlan(r)
           \/ LabelTaken(r) \/ Deadlock(r) \/ AdminSkip(r) \/ AdminRefused(r) \/ AdminAlready(r)
           \/ AdminPostCheck(r) \/ AdminFail(r) \/ (Crash(r) /\ pc[r] \notin AfterCommit)
  <2>1. pc[r] \notin AfterCommit /\ pc'[r] \notin AfterCommit /\ UNCHANGED <<db, dev>>
    BY <1>1 DEF Reject, LoadPort, TakeImage, WriteRow, UnknownVlan, LabelTaken, Deadlock,
                AdminSkip, AdminRefused, AdminAlready, AdminPostCheck, AdminFail, Crash, Abort,
                AfterCommit
  <2> QED
    BY <1>0, <2>1, SwitchportKept
<1>2. CASE AdminApply(r) \/ AdminRevert(r) \/ LabelPush(r) \/ LabelFail(r)
  <2>1. pc[r] \notin AfterCommit /\ pc'[r] \notin AfterCommit /\ UNCHANGED db
    BY <1>2 DEF AdminApply, AdminRevert, LabelPush, LabelFail, AfterCommit
  <2>2. \A c \in Switchport : dev'[p][c] = dev[p][c]
    <3>1. CASE AdminRevert(r)
      BY <1>0, <3>1 DEF AdminRevert, Row, Switchport, Columns, Scalars
    <3>2. CASE AdminApply(r) \/ LabelPush(r) \/ LabelFail(r)
      BY <3>2, ConfigureColumns
      DEF AdminApply, LabelPush, LabelFail, Switchport, Columns, Scalars
    <3> QED
      BY <1>2, <3>1, <3>2
  <2> QED
    BY <1>0, <2>1, <2>2, SwitchportKept
<1>3. CASE Commit(r)
  <2>1. /\ pc[r] = "labelDone" /\ pc'[r] = (IF HasVlans(r) THEN "committed" ELSE "ok")
        /\ UNCHANGED <<dev, image>> /\ ~Reject(r)
        /\ db'[p] = Overlay(db[p], r, Dirty(r))
        /\ Note(r, IF "mode" \in Dirty(r) /\ ~HasVlans(r) THEN {"modeonly"} ELSE {})
    BY <1>0, <1>3 DEF Commit, Reject
  <2>2. \A c \in Switchport : db[p][c] = dev[p][c] /\ image[r][c] = db[p][c]
    <3>1. \A c \in Switchport : db[p][c] = dev[p][c]
      BY <1>0, <1>a, <2>1 DEF SwitchportOK, AfterCommit
    <3>2. \A c \in Switchport : image[r][c] = db[p][c]
      BY <1>c, <2>1 DEF CopyInv, CopyOK, InTxn, WriteHeld, Switchport, Scalars
    <3> QED
      BY <3>1, <3>2
  <2>3. CASE HasVlans(r)
    BY <1>0, <1>a, <2>1, <2>2, <2>3, SwitchportMoved DEF AfterCommit
  <2>4. CASE ~HasVlans(r)
    <3>1. "mode" \notin Dirty(r)
      BY <1>n, <2>1, <2>4 DEF SwitchportExcuses
    <3>2. "vlans" \notin Dirty(r)
      BY <2>4 DEF Dirty, Scalars
    <3>3. \A c \in Switchport : db'[p][c] = db[p][c]
      BY <1>0, <2>1, <3>1, <3>2 DEF Overlay, Switchport
    <3> QED
      BY <1>0, <1>a, <2>1, <2>2, <2>4, <3>3, SwitchportMoved DEF AfterCommit
  <2> QED
    BY <2>3, <2>4
\* Between commit and answer.
<1>4. CASE Reread(r)
  <2>1. /\ pc[r] = "committed" /\ pc'[r] = "reread" /\ ~Reject(r)
        /\ UNCHANGED <<db, dev, image>>
    BY <1>4 DEF Reread, Reject
  <2> QED
    BY <1>0, <1>a, <2>1, SwitchportMoved DEF SwitchportOK, AfterCommit
<1>5. CASE MacFail(r)
  BY <1>5, <1>n DEF MacFail, SwitchportExcuses
<1>6. CASE PreCheck(r)
  <2>1. /\ pc[r] = "reread" /\ ~Reject(r) /\ UNCHANGED <<db, dev, image>>
        /\ pc'[r] \in {"ok", "prechecked"}
    BY <1>6 DEF PreCheck, Reject
  <2>2. pc'[r] = "ok" => \A c \in Switchport : db[p][c] = dev[p][c]
    <3> SUFFICES ASSUME pc'[r] = "ok"
                 PROVE  \A c \in Switchport : db[p][c] = dev[p][c]
      OBVIOUS
    <3>1. SameSwitchport(r) /\ ("misread" \notin causes'[p] => ReadRight(r))
      BY <1>6, CheckedOk
    <3>2. ReadRight(r)
      BY <3>1 DEF SwitchportExcuses
    <3> QED
      BY <1>b, <2>1, <3>1, <3>2, ComparesRight DEF AfterCommit
  <2> QED
    BY <1>0, <1>a, <2>1, <2>2, SwitchportMoved DEF SwitchportOK, AfterCommit
<1>7. CASE PushVlans(r)
  <2>1. /\ pc[r] = "prechecked" /\ pc'[r] = "applied" /\ ~Reject(r)
        /\ UNCHANGED <<db, image, body>>
    BY <1>7 DEF PushVlans, Reject
  <2>2. \/ \A c \in Switchport : dev'[p][c] = body[r][c]
        \/ \A c \in Switchport : dev'[p][c] = dev[p][c]
    BY <1>0, <1>7, ConfigureColumns DEF PushVlans
  <2>3. \A c \in Switchport : dev[p][c] = image[r][c]
    BY <1>0, <2>1 DEF SwitchportOK, AfterCommit
  <2> QED
    BY <1>0, <1>a, <2>1, <2>2, <2>3, SwitchportMoved DEF AfterCommit
<1>8. CASE PostCheck(r)
  <2>1. /\ pc[r] = "applied" /\ ~Reject(r) /\ UNCHANGED <<db, dev, image>>
        /\ pc'[r] \in {"ok", "rollback"}
    BY <1>8 DEF PostCheck, Reject
  <2>2. pc'[r] = "ok" => \A c \in Switchport : dev[p][c] = body[r][c]
    <3> SUFFICES ASSUME pc'[r] = "ok"
                 PROVE  \A c \in Switchport : dev[p][c] = body[r][c]
      OBVIOUS
    <3>1. SameSwitchport(r) /\ ("misread" \notin causes'[p] => ReadRight(r))
      BY <1>8, CheckedOk
    <3>2. ReadRight(r)
      BY <3>1 DEF SwitchportExcuses
    <3> QED
      BY <2>1, <3>1, <3>2, ComparesRight DEF AfterCommit
  <2>5. pc'[r] = "rollback" => ~ \A c \in Switchport : dev[p][c] = body[r][c]
    <3> SUFFICES ASSUME pc'[r] = "rollback", \A c \in Switchport : dev[p][c] = body[r][c]
                 PROVE  FALSE
      OBVIOUS
    <3>1. PICK up \in Links :
             /\ Goto(r, IF up /\ SameSwitchport(r) THEN "ok" ELSE "rollback")
             /\ Note(r, Misread(r, up /\ SameSwitchport(r))
                          \cup Unconfirmed(r, up /\ SameSwitchport(r), up))
      BY <1>8 DEF PostCheck
    <3>2. ~(up /\ SameSwitchport(r))
      BY <2>1, <3>1
    <3>3. Unconfirmed(r, up /\ SameSwitchport(r), up) \cap SwitchportExcuses = {}
      BY <1>n, <3>1
    <3>4. up /\ ~Distorted(dev[p], os[p])
      BY <3>2, <3>3 DEF Unconfirmed, SwitchportExcuses
    <3> QED
      BY <2>1, <3>2, <3>4, Recognizes
  <2>3. \A c \in Switchport : db[p][c] = body[r][c]
    BY <1>b, <2>1 DEF AfterCommit
  <2>4. \/ \A c \in Switchport : dev[p][c] = image[r][c]
        \/ \A c \in Switchport : dev[p][c] = body[r][c]
    BY <1>0, <2>1 DEF SwitchportOK
  <2> QED
    BY <1>0, <1>a, <2>1, <2>2, <2>3, <2>4, <2>5, SwitchportMoved DEF AfterCommit
<1>9. CASE PushFail(r)
  <2>1. /\ pc[r] \in AfterCommit \ {"applied"} /\ UNCHANGED <<db, dev, image>>
        /\ pc'[r] = "rollback" /\ ~Reject(r)
    BY <1>9, <1>n DEF PushFail, SwitchportExcuses, AfterCommit, Reject
  <2> QED
    BY <1>0, <1>a, <2>1, SwitchportMoved DEF SwitchportOK, AfterCommit
<1>10. CASE RollbackDb(r)
  <2>1. /\ pc[r] = "rollback" /\ pc'[r] = "error" /\ ~Reject(r) /\ UNCHANGED dev
        /\ \A c \in Columns :
              db'[p][c] = IF c \in RolledBack(r) THEN image[r][c] ELSE db[p][c]
    BY <1>0, <1>10 DEF RollbackDb, Reject
  <2>2. \A c \in Switchport : dev[p][c] = image[r][c]
    BY <1>0, <2>1 DEF SwitchportOK, AfterCommit
  <2>3. "vlans" \in RolledBack(r)
    BY DEF RolledBack
  <2>4. "mode" \notin RolledBack(r) => image[r]["mode"] = db[p]["mode"]
    BY <1>c, <2>1 DEF RolledBack, Scalars, CopyInv, CopyOK, AfterCommit
  <2>5. \A c \in Switchport : db'[p][c] = image[r][c]
    BY <1>0, <2>1, <2>3, <2>4 DEF Switchport
  <2> QED
    BY <1>0, <1>a, <2>1, <2>2, <2>5, SwitchportMoved DEF AfterCommit
<1>11. CASE RollbackLabelTaken(r) \/ RollbackDeadlock(r)
  BY <1>11, <1>n DEF RollbackLabelTaken, RollbackDeadlock, SwitchportExcuses
<1>12. CASE Crash(r) /\ pc[r] \in AfterCommit
  <2>1. Note(r, Touched(r) \cup (IF pc[r] \in AfterCommit THEN {"crashed"} ELSE {}))
    BY <1>12 DEF Crash
  <2>2. "crashed" \notin Touched(r) \cup (IF pc[r] \in AfterCommit THEN {"crashed"} ELSE {})
    BY <1>n, <2>1 DEF SwitchportExcuses
  <2> QED
    BY <1>12, <2>2
<1> QED
  BY <1>1, <1>2, <1>3, <1>4, <1>5, <1>6, <1>7, <1>8, <1>9, <1>10, <1>11, <1>12
  DEF Step, update_port, Environment

LEMMA StepSwitchport ==
    ASSUME TypeOK, PayloadInv, AloneInv, CopyInv, SwitchportInv, NEW r \in Requests, Step(r)
    PROVE  SwitchportInv'
<1> SUFFICES ASSUME NEW p \in Ports, causes'[p] \cap SwitchportExcuses = {}
             PROVE  SwitchportOK(p)'
  BY DEF SwitchportInv
<1>1. CASE p = port[r]
  <2>1. SwitchportOK(port[r])'
    BY <1>1, OwnSwitchport
  <2> QED
    BY <1>1, <2>1, SamePort DEF SwitchportOK, Step
<1>2. CASE p # port[r]
  <2>1. SwitchportOK(p)
    BY CausesGrow DEF SwitchportInv
  <2> QED
    BY <1>2, <2>1, OtherPort, SwitchportKept DEF Step
<1> QED
  BY <1>1, <1>2

-----------------------------------------------------------------------------
(* What the two stores of a port have to do with each other.               *)

StoresInv == AloneInv /\ CopyInv /\ LabelInv /\ SwitchportInv

LEMMA InitStores == Init => StoresInv
<1> SUFFICES ASSUME Init PROVE StoresInv
  OBVIOUS
<1>1. /\ dev = db
      /\ \A r \in Requests : pc[r] = "arrive"
  BY DEF Init
<1>2. AloneInv
  BY <1>1 DEF AloneInv, Active
<1>3. CopyInv
  BY <1>1 DEF CopyInv, CopyOK, InTxn, WriteHeld, AfterCommit
<1>4. LabelInv
  BY <1>1 DEF LabelInv, LabelOK
<1>5. SwitchportInv
  BY <1>1 DEF SwitchportInv, SwitchportOK, AfterCommit
<1> QED
  BY <1>2, <1>3, <1>4, <1>5 DEF StoresInv

LEMMA NextStores ==
    ASSUME TypeOK, PayloadInv, StoresInv, [Next]_vars
    PROVE  StoresInv'
<1>1. CASE Next
  <2>1. PICK r \in Requests : Step(r)
    BY <1>1, NextSteps
  <2> QED
    BY <2>1, StepAlone, StepCopy, StepLabel, StepSwitchport DEF StoresInv
<1>2. CASE UNCHANGED vars
  <2>1. AloneInv' /\ CopyInv'
    BY <1>2 DEF vars, StoresInv, AloneInv, Active, CopyInv, CopyOK
  <2>2. LabelInv'
    BY <1>2 DEF vars, StoresInv, LabelInv, LabelOK, PushesLabel
  <2>3. SwitchportInv'
    BY <1>2 DEF vars, StoresInv, SwitchportInv, SwitchportOK
  <2> QED
    BY <2>1, <2>2, <2>3 DEF StoresInv
<1> QED
  BY <1>1, <1>2

\* In every behaviour a request that shares its port with no other works on a
\* copy of the row that is true, and what its pushes have done so far is known.
THEOREM StoresTracked == Spec => []StoresInv
BY InitStores, NextStores, TypeCorrect, PTL DEF Spec

\* In every behaviour, between update_interface_label and commit apart, row and
\* interface have the same label unless requests overlapped on the port, a
\* transaction died after its push, the driver pushes no labels, or a flip that
\* carried a label was undone.
THEOREM LabelConsistent == Spec => []LabelAgrees
<1>1. TypeOK /\ StoresInv => LabelAgrees
  BY DEF StoresInv, LabelInv, LabelOK, LabelExcuses, LabelAgrees
<1> QED
  BY <1>1, StoresTracked, TypeCorrect, PTL

\* In every behaviour row and interface have the same mode and vlans while no
\* flip is between commit and answer, the nine named events apart: the
\* rollback of a failed flip restores exactly what the interface still has.
THEOREM SwitchportConsistent == Spec => []SwitchportAgrees
<1>1. StoresInv => SwitchportAgrees
  <2> SUFFICES ASSUME StoresInv, NEW p \in Ports,
                      \A r \in Requests : port[r] = p => pc[r] \notin AfterCommit,
                      causes[p] \cap SwitchportExcuses = {}
               PROVE  \A c \in Switchport : db[p][c] = dev[p][c]
    BY DEF SwitchportAgrees, SwitchportExcuses, Switchport
  <2>1. SwitchportOK(p)
    BY DEF StoresInv, SwitchportInv
  <2> QED
    BY <2>1 DEF SwitchportOK
<1> QED
  BY <1>1, StoresTracked, PTL

-----------------------------------------------------------------------------
(* Answers.                                                                *)

\* Only a payload that was found valid is answered 200.
OkValid == \A r \in Requests : pc[r] = "ok" => ValidPayload(r)

LEMMA StepOk ==
    ASSUME TypeOK, PayloadInv, NEW r \in Requests, Step(r), pc'[r] = "ok", pc[r] # "ok"
    PROVE  \/ Commit(r) /\ ~HasVlans(r)
           \/ PreCheck(r) \/ PostCheck(r)
<1> USE DEF locals, Goto, TypeOK
<1>1. ~ (\/ Reject(r) \/ LoadPort(r) \/ TakeImage(r) \/ WriteRow(r) \/ UnknownVlan(r)
         \/ LabelTaken(r) \/ AdminSkip(r) \/ AdminRefused(r) \/ AdminAlready(r)
         \/ AdminApply(r) \/ AdminPostCheck(r) \/ AdminRevert(r) \/ AdminFail(r))
  BY DEF Reject, LoadPort, TakeImage, WriteRow, UnknownVlan, LabelTaken, AdminSkip,
         AdminRefused, AdminAlready, AdminApply, AdminPostCheck, AdminRevert, AdminFail, Abort
<1>2. ~ (\/ LabelPush(r) \/ LabelFail(r) \/ Reread(r) \/ MacFail(r) \/ PushVlans(r)
         \/ PushFail(r) \/ RollbackDb(r) \/ RollbackLabelTaken(r) \/ Environment(r))
  BY DEF LabelPush, LabelFail, Reread, MacFail, PushVlans, PushFail, RollbackDb,
         RollbackLabelTaken, Environment, Deadlock, RollbackDeadlock, Crash
<1>3. CASE Commit(r)
  BY <1>3 DEF Commit
<1>4. CASE PreCheck(r)
  BY <1>4 DEF PreCheck
<1>5. CASE PostCheck(r)
  BY <1>5 DEF PostCheck
<1> QED
  BY <1>1, <1>2, <1>3, <1>4, <1>5 DEF Step, update_port

LEMMA NextOkValid ==
    ASSUME TypeOK, PayloadInv, OkValid, [Next]_vars
    PROVE  OkValid'
<1>1. CASE Next
  <2> SUFFICES ASSUME NEW q \in Requests, pc'[q] = "ok"
               PROVE  ValidPayload(q)'
    BY DEF OkValid
  <2>1. PICK r \in Requests : Step(r)
    BY <1>1, NextSteps
  <2>2. CASE q # r
    <3>1. pc'[q] = pc[q] /\ body'[q] = body[q]
      BY <2>1, <2>2, Frame DEF Step, Untouched
    <3> QED
      BY <3>1 DEF OkValid, ValidPayload, HasVlans
  <2>3. CASE q = r
    <3>1. pc[r] = "ok" => FALSE
      BY <2>1, <2>3, Starts DEF Active, Answered, LoadPort, Reject
    <3>2. ValidPayload(r) /\ UNCHANGED body
      BY <2>1, <2>3, <3>1, StepOk
      DEF Commit, PreCheck, PostCheck, locals, PayloadInv, Active, Answered
    <3> QED
      BY <2>3, <3>2 DEF ValidPayload, HasVlans
  <2> QED
    BY <2>2, <2>3
<1>2. CASE UNCHANGED vars
  BY <1>2 DEF vars, OkValid, ValidPayload, HasVlans
<1> QED
  BY <1>1, <1>2

\* In every behaviour a flip that met a database deadlock, and so was called
\* again with a dict whose vlans were popped, gets no further than its checks.
THEOREM RetriedFlipFails == Spec => []DeadlockedFlipFails
<1>1. Init => OkValid
  BY DEF Init, OkValid
<1>2. TypeOK /\ PayloadInv /\ OkValid => DeadlockedFlipFails
  BY DEF TypeOK, PayloadInv, OkValid, DeadlockedFlipFails, ValidPayload, Active, Answered
<1> QED
  BY <1>1, <1>2, NextOkValid, TypeCorrect, PTL DEF Spec

\* A transaction without vlans has been pushed when it commits.
LEMMA CommitDone ==
    ASSUME TypeOK, PayloadInv, LockInv, AdminInv, StoresInv,
           NEW r \in Requests, Commit(r), ~HasVlans(r), causes'[port[r]] = {},
           NEW c \in Scalars, body[r][c] # Absent
    PROVE  db'[port[r]][c] = body[r][c] /\ dev'[port[r]][c] = body[r][c]
<1> DEFINE p == port[r]
<1>0. /\ p \in Ports /\ c \in Columns /\ causes[p] = {}
      /\ pc[r] = "labelDone" /\ dev' = dev
      /\ db'[p] = Overlay(db[p], r, Dirty(r))
      /\ "mode" \notin Dirty(r)
  BY DEF Commit, Note, TypeOK, Columns
<1>1. image[r][c] = db[p][c]
  BY <1>0 DEF StoresInv, CopyInv, CopyOK, InTxn, WriteHeld
<1>2. c \in Dirty(r) <=> body[r][c] # image[r][c]
  BY DEF Dirty, Scalars
<1>3. db'[p][c] = body[r][c]
  BY <1>0, <1>1, <1>2 DEF Overlay
<1>4. dev[p][c] = body[r][c]
  <2>1. CASE c = "label"
    BY <1>0, <2>1 DEF StoresInv, LabelInv, LabelOK
  <2>2. CASE c = "mode"
    <3>1. \A q \in Requests : port[q] = p => pc[q] \notin AfterCommit
      BY <1>0 DEF StoresInv, AloneInv, Active, AfterCommit, Answered
    <3>2. db[p]["mode"] = dev[p]["mode"]
      BY <1>0, <3>1 DEF StoresInv, SwitchportInv, SwitchportOK, Switchport
    <3> QED
      BY <1>0, <1>1, <1>2, <2>2, <3>2
  <2>3. CASE c = "admin"
    <3>1. AdminInStep(p)
      BY <1>0 DEF AdminInv, AdminExcused
    <3>2. CASE lock[p] = r
      BY <1>0, <1>1, <1>2, <2>3, <3>1, <3>2 DEF AdminInStep, AdminNeeded
    <3>3. CASE lock[p] # r
      <4>1. Dirty(r) = {}
        BY <1>0, <3>3 DEF LockInv, WriteHeld
      <4>2. lock[p] = NoReq
        <5> SUFFICES ASSUME lock[p] # NoReq PROVE FALSE
          OBVIOUS
        <5>1. lock[p] \in Requests /\ port[lock[p]] = p /\ pc[lock[p]] \in WriteHeld
          BY <1>0 DEF TypeOK, LockInv
        <5> QED
          BY <1>0, <3>3, <5>1 DEF StoresInv, AloneInv, Active, Answered, WriteHeld
      <4> QED
        BY <1>1, <1>2, <2>3, <3>1, <4>1, <4>2 DEF AdminInStep
    <3> QED
      BY <3>2, <3>3
  <2> QED
    BY <2>1, <2>2, <2>3 DEF Scalars
<1> QED
  BY <1>0, <1>3, <1>4

\* A flip whose interface compares equal has been pushed.
LEMMA FlipDone ==
    ASSUME TypeOK, PayloadInv, StoresInv, NEW r \in Requests,
           pc[r] \in AfterCommit, SameSwitchport(r), ReadRight(r), causes[port[r]] = {},
           NEW c \in Columns, body[r][c] # Absent
    PROVE  db[port[r]][c] = body[r][c] /\ dev[port[r]][c] = body[r][c]
<1> DEFINE p == port[r]
<1>0. p \in Ports /\ HasVlans(r) /\ body[r]["admin"] = Absent
  BY DEF TypeOK, PayloadInv, ValidPayload, Active, AfterCommit, Answered
<1>1. db[p][c] = body[r][c]
  BY <1>0 DEF StoresInv, CopyInv, CopyOK
<1>2. CASE c = "label"
  <2>1. \A q \in Requests : port[q] = p => pc[q] # "labelDone"
    BY <1>0 DEF StoresInv, AloneInv, Active, AfterCommit, Answered
  <2>2. db[p]["label"] = dev[p]["label"]
    BY <1>0, <2>1 DEF StoresInv, LabelInv, LabelOK
  <2> QED
    BY <1>1, <1>2, <2>2
<1>3. CASE c \in Switchport
  BY <1>1, <1>3, ComparesRight
<1> QED
  BY <1>0, <1>1, <1>2, <1>3 DEF Columns, Scalars, Switchport

\* In every behaviour, for any number of concurrent requests and any faults, an
\* update answered 200 on a port where nothing out of the ordinary happened has
\* taken effect in the database and on the interface when it is answered.
THEOREM AnswerIsTrue == Spec => OkMeansDone
<1>1. TypeOK /\ PayloadInv /\ LockInv /\ AdminInv /\ StoresInv /\ [Next]_vars =>
          [\A r \in Requests :
              pc[r] # "ok" /\ pc'[r] = "ok" /\ causes'[port[r]] = {} =>
                  \A c \in Columns : body[r][c] \notin {Absent, NoVlans} =>
                      db'[port[r]][c] = body[r][c] /\ dev'[port[r]][c] = body[r][c]]_vars
  <2> SUFFICES ASSUME TypeOK, PayloadInv, LockInv, AdminInv, StoresInv, Next,
                      NEW r \in Requests, pc[r] # "ok", pc'[r] = "ok",
                      causes'[port[r]] = {},
                      NEW c \in Columns, body[r][c] \notin {Absent, NoVlans}
               PROVE  db'[port[r]][c] = body[r][c] /\ dev'[port[r]][c] = body[r][c]
    OBVIOUS
  <2>1. Step(r)
    <3>1. PICK q \in Requests : Step(q)
      BY NextSteps
    <3>2. q = r
      BY <3>1, Frame DEF Step, Untouched
    <3> QED
      BY <3>1, <3>2
  <2>2. CASE Commit(r) /\ ~HasVlans(r)
    <3>1. c \in Scalars
      BY <2>2 DEF HasVlans, Columns
    <3> QED
      BY <2>2, <3>1, CommitDone
  <2>3. CASE PreCheck(r) \/ PostCheck(r)
    <3>1. pc[r] \in AfterCommit /\ UNCHANGED <<db, dev>>
      BY <2>3 DEF PreCheck, PostCheck, AfterCommit
    <3>2. causes[port[r]] = {}
      BY <2>1, CausesGrow DEF TypeOK
    <3> QED
      BY <2>3, <3>1, <3>2, CheckedOk, FlipDone
  <2> QED
    BY <2>1, <2>2, <2>3, StepOk
<1> QED
  BY <1>1, TypeCorrect, LockCorrect, AdminTracked, StoresTracked, PTL DEF Spec, OkMeansDone
=============================================================================
