--------------------------- MODULE MacTable_proofs ---------------------------
(***************************************************************************)
(* Theorems about MacTable for any table a switch may print, of any length. *)
(***************************************************************************)
EXTENDS MacTable, SequenceTheorems, FiniteSetTheorems, TLAPS

-----------------------------------------------------------------------------
(* The invariants.                                                         *)

AtMostOne(S) == S = {} \/ \E e \in Entry : S = {e}

TypeInv ==
    /\ os \in Systems /\ short \in BOOLEAN /\ asked \in Vlans \cup {NoVlan}
    /\ printed \in Seq(Lines) /\ Len(printed) <= MaxLines
    /\ table \in Seq(Entry) /\ result \subseteq Entry
    /\ AtMostOne(last) /\ AtMostOne(fill)
    /\ outcome \in {"reading", "error", "read", "accepted", "refused"}
    /\ server \in Macs

\* Lines that say of some ports that an address is there, and those whose ports
\* the drivers do not take apart.
Content == {"entry", "macfirst", "fill", "row"}
WholeLine(line) == line.shape \in {"macfirst", "row"} \/ (line.shape = "entry" /\ line.words = 5)

\* Line j is where the entry of line i begins.
OwnedBy(i, j) ==
    /\ j \in 1..i /\ printed[j].shape # "fill"
    /\ \A k \in j+1..i : printed[k].shape = "fill"

\* What a switch prints.
PrintedInv ==
    \A i \in 1..Len(printed) :
        /\ Text <=> printed[i].shape # "row"
        /\ os = "junos" \/ (os = "nxos" /\ asked = NoVlan) => This \in printed[i].ports
        /\ \E j \in 1..i :
              /\ OwnedBy(i, j)
              /\ printed[i].shape = "fill" => printed[j].shape = "entry"

\* An entry of the table is what line i says.
Gives(e, i) ==
    /\ printed[i].shape \in Content
    /\ e.mac = printed[Owner(i)].mac
    /\ e.ports = printed[i].ports
    /\ e.split \/ WholeLine(printed[i])

\* The table has what the lines say, and nothing else.
Sound == \A t \in 1..Len(table) : \E i \in 1..Len(printed) : Gives(table[t], i)

Complete ==
    \A i \in 1..Len(printed) : printed[i].shape \in Content =>
        \E t \in 1..Len(table) : Gives(table[t], i)

\* The entry that a line of ports would continue.
FillInv ==
    printed # <<>> =>
        LET begin == printed[Owner(Len(printed))] IN
        begin.shape = "entry" /\ begin.words # 5 /\ ~(Cardinality(begin.ports) < 2) =>
            \E e \in Entry : fill = {e} /\ e.mac = begin.mac

ReadInv == outcome # "error" /\ ~Misread => Sound /\ Complete /\ FillInv

\* If entries match there is a first one.
FirstInv == Found # {} => First # {}

\* The end of the table.
ResultInv == Answered => result = Returned

CheckInv ==
    /\ outcome = "accepted" => Accepts
    /\ outcome = "refused" => ~Accepts

MacInv == TypeInv /\ PrintedInv /\ ReadInv /\ FirstInv /\ ResultInv /\ CheckInv


-----------------------------------------------------------------------------
(* Types.                                                                  *)

LEMMA Cards == \A S : AtMostOne(S) => Cardinality(S) <= 1 /\ S \subseteq Entry
<1> SUFFICES ASSUME NEW S, AtMostOne(S) PROVE Cardinality(S) <= 1 /\ S \subseteq Entry
  OBVIOUS
<1>1. CASE S = {}
  BY <1>1, FS_EmptySet
<1>2. ASSUME NEW e \in Entry, S = {e} PROVE Cardinality(S) <= 1 /\ S \subseteq Entry
  BY <1>2, FS_Singleton
<1> QED
  BY <1>1, <1>2 DEF AtMostOne

\* How many ports a line names is a number.
LEMMA PortCount == \A S \in SUBSET Ports : Cardinality(S) \in Nat /\ IsFiniteSet(S)
  BY MacAssumption, FS_Subset, FS_CardinalityType

LEMMA OfType ==
    ASSUME NEW line \in Line, NEW split \in BOOLEAN
    PROVE  Of(line, split) \in Entry
  BY DEF Line, Of, Entry

\* An entry with other ports.
LEMMA ChangedEntry ==
    ASSUME NEW e \in Entry, NEW ports \in SUBSET Ports
    PROVE  LET split == [e EXCEPT !.split = TRUE]
               both == [e EXCEPT !.ports = ports, !.split = TRUE]
           IN /\ split \in Entry
              /\ [e EXCEPT !.ports = ports] \in Entry
              /\ both \in Entry
              /\ both.mac = e.mac /\ both.ports = ports /\ both.split
  BY DEF Entry

\* What a line that is read adds to the table.
LEMMA ReadAdds ==
    ASSUME TypeInv, NEW line \in Lines, Read(line)
    PROVE  /\ outcome = "reading" /\ Len(printed) < MaxLines
           /\ Prints(line)
           /\ printed' = Append(printed, line)
           /\ UNCHANGED <<os, short, asked, result, server>>
           /\ \/ outcome' = "error" /\ table' = table
              \/ UNCHANGED <<outcome, table>> /\ line.shape = "noise"
              \/ outcome' = outcome /\ \E e \in Entry : table' = Append(table, e)
           /\ AtMostOne(last') /\ AtMostOne(fill')
<1> USE DEF NextLine, Given
<1>1. line \in Line /\ line.ports \subseteq Ports
  BY MacAssumption DEF Line
<1>2. Of(line, TRUE) \in Entry /\ Of(line, FALSE) \in Entry
  BY <1>1, OfType
<1>3. AtMostOne(last) /\ AtMostOne(fill)
  BY DEF TypeInv
<1>4. \A e : e \in last \/ e \in fill => e \in Entry
  BY <1>3 DEF AtMostOne
<1>5. \A e \in Entry : AtMostOne({e}) /\ AtMostOne(Fills(e))
  BY <1>3 DEF AtMostOne, Fills
<1>6. CASE FillDown(line)
  <2>1. CASE fill = {}
    BY <1>3, <1>6, <2>1 DEF FillDown, Fails
  <2>2. CASE fill # {}
    <3>1. PICK e \in fill : table' = Append(table, [e EXCEPT !.ports = line.ports, !.split = TRUE])
      BY <1>6, <2>2 DEF FillDown
    <3>2. [e EXCEPT !.ports = line.ports, !.split = TRUE] \in Entry
      BY <1>1, <1>4, ChangedEntry
    <3>3. last' = { [d EXCEPT !.ports = line.ports] : d \in last } /\ UNCHANGED <<fill, outcome>>
      BY <1>6, <2>2 DEF FillDown
    <3>4. AtMostOne(last')
      <4>1. CASE last = {}
        BY <3>3, <4>1 DEF AtMostOne
      <4>2. ASSUME NEW d \in Entry, last = {d} PROVE AtMostOne(last')
        <5>1. [d EXCEPT !.ports = line.ports] \in Entry
          BY <1>1, ChangedEntry
        <5> QED
          BY <3>3, <4>2, <5>1 DEF AtMostOne
      <4> QED
        BY <1>3, <4>1, <4>2 DEF AtMostOne
    <3> QED
      BY <1>3, <1>6, <3>1, <3>2, <3>3, <3>4 DEF FillDown
  <2> QED
    BY <2>1, <2>2
<1>7. CASE Skip(line)
  BY <1>3, <1>7 DEF Skip
<1>8. CASE Odd(line) \/ Shifted(line)
  BY <1>3, <1>8 DEF Odd, Shifted, Fails
<1>9. CASE Whole(line)
  BY <1>2, <1>3, <1>5, <1>9 DEF Whole, Adds
<1>10. CASE Row(line)
  BY <1>2, <1>3, <1>5, <1>10 DEF Row, Adds
<1>11. CASE Split(line)
  BY <1>2, <1>5, <1>11 DEF Split, Adds
<1>12. CASE Stale(line)
  <2>1. CASE last = {}
    BY <1>3, <1>12, <2>1 DEF Stale, Fails
  <2>2. CASE last # {}
    <3>1. PICK e \in last : Adds([e EXCEPT !.split = TRUE]) /\ fill' = Fills(e)
      BY <1>12, <2>2 DEF Stale
    <3>2. e \in Entry /\ [e EXCEPT !.split = TRUE] \in Entry
      BY <1>1, <1>4, ChangedEntry
    <3> QED
      BY <1>5, <1>12, <3>1, <3>2 DEF Stale, Adds
  <2> QED
    BY <2>1, <2>2
<1> QED
  BY <1>6, <1>7, <1>8, <1>9, <1>10, <1>11, <1>12 DEF Read

LEMMA InitType == Init => TypeInv
  BY EmptySeq, MacAssumption DEF Init, TypeInv, AtMostOne

LEMMA ReturnedType ==
    ASSUME TypeInv
    PROVE  Returned \subseteq { table[t] : t \in 1..Len(table) }
  BY LenProperties DEF TypeInv, Returned, First, Found

LEMMA NextType == TypeInv /\ [Next]_vars => TypeInv'
<1> SUFFICES ASSUME TypeInv, [Next]_vars PROVE TypeInv'
  OBVIOUS
<1>1. CASE UNCHANGED vars
  BY <1>1 DEF vars, TypeInv
<1>2. ASSUME NEW line \in Lines, Read(line) PROVE TypeInv'
  <2>1. /\ outcome' \in {"reading", "error"}
        /\ UNCHANGED <<os, short, asked, result, server>>
        /\ AtMostOne(last)' /\ AtMostOne(fill)'
    BY <1>2, ReadAdds DEF AtMostOne
  <2>2. printed' \in Seq(Lines) /\ Len(printed') <= MaxLines
    <3>1. printed' = Append(printed, line) /\ Len(printed) < MaxLines
      BY <1>2, ReadAdds
    <3>2. Len(printed') = Len(printed) + 1 /\ printed' \in Seq(Lines) /\ Len(printed) \in Nat
      BY <3>1, AppendProperties, LenProperties DEF TypeInv
    <3> QED
      BY <3>1, <3>2, MacAssumption
  <2>3. table' \in Seq(Entry)
    <3>1. CASE table' = table
      BY <3>1 DEF TypeInv
    <3>2. ASSUME NEW e \in Entry, table' = Append(table, e) PROVE table' \in Seq(Entry)
      BY <3>2, AppendProperties DEF TypeInv
    <3> QED
      BY <1>2, <3>1, <3>2, ReadAdds
  <2> QED
    BY <2>1, <2>2, <2>3 DEF TypeInv
<1>3. CASE EndRead
  <2>1. result' \subseteq Entry
    <3>1. \A t \in 1..Len(table) : table[t] \in Entry
      BY ElementOfSeq DEF TypeInv
    <3>2. result' = Returned
      BY <1>3 DEF EndRead
    <3> QED
      BY <3>1, <3>2, ReturnedType
  <2> QED
    BY <1>3, <2>1 DEF EndRead, TypeInv, AtMostOne
<1>4. CASE CheckMac
  BY <1>4 DEF CheckMac, TypeInv, AtMostOne
<1> QED
  BY <1>1, <1>2, <1>3, <1>4 DEF Next

\* Whatever a switch prints, the table and the variables that outlive a line
\* hold entries, and at most one each.
THEOREM TypeCorrect == Spec => []TypeOK
<1>1. TypeInv => TypeOK
  BY Cards DEF TypeInv, TypeOK
<1> QED
  BY <1>1, InitType, NextType, PTL DEF Spec


-----------------------------------------------------------------------------
(* Lines and the entries they belong to.                                   *)

\* A line belongs to one entry.
LEMMA OneOwner ==
    ASSUME NEW p, NEW i \in Nat, NEW j \in 1..i,
           p[j].shape # "fill", \A k \in j+1..i : p[k].shape = "fill"
    PROVE  (CHOOSE h \in 1..i : /\ p[h].shape # "fill"
                                /\ \A k \in h+1..i : p[k].shape = "fill") = j
<1> DEFINE P(h) == p[h].shape # "fill" /\ \A k \in h+1..i : p[k].shape = "fill"
<1>1. ASSUME NEW h \in 1..i, P(h) PROVE h = j
  <2>1. ~(h < j)
    BY <1>1
  <2>2. ~(j < h)
    BY <1>1
  <2> QED
    BY <2>1, <2>2
<1>2. P(j)
  OBVIOUS
<1> HIDE DEF P
<1>3. (CHOOSE h \in 1..i : P(h)) = j
  BY <1>1, <1>2
<1> QED
  BY <1>3 DEF P

\* Reading appends a line.
LEMMA ReadAppends ==
    ASSUME TypeInv, NEW line \in Lines, Read(line)
    PROVE  /\ Len(printed) \in Nat /\ Len(printed') = Len(printed) + 1
           /\ DOMAIN printed = 1..Len(printed) /\ DOMAIN printed' = 1..Len(printed')
           /\ \A i \in 1..Len(printed) : printed'[i] = printed[i]
           /\ printed'[Len(printed')] = line
           /\ printed' # <<>>
           /\ printed = <<>> => Len(printed) = 0
<1>1. printed \in Seq(Lines) /\ printed' = Append(printed, line)
  BY ReadAdds DEF TypeInv
<1>2. printed' \in Seq(Lines)
  BY <1>1, AppendProperties
<1> QED
  BY <1>1, <1>2, AppendProperties, LenProperties, EmptySeq

\* The lines before keep their owners.
LEMMA OwnersKept ==
    ASSUME TypeInv, PrintedInv, NEW line \in Lines, Read(line), NEW i \in 1..Len(printed)
    PROVE  /\ \A j : OwnedBy(i, j) => OwnedBy(i, j)' /\ Owner(i) = j
           /\ Owner(i)' = Owner(i) /\ Owner(i) \in 1..i
           /\ printed'[Owner(i)] = printed[Owner(i)]
<1>1. \A k \in 1..Len(printed) : printed'[k] = printed[k]
  BY ReadAppends
<1>2. Len(printed) \in Nat
  BY ReadAppends
<1>3. ASSUME NEW j, OwnedBy(i, j) PROVE OwnedBy(i, j)' /\ Owner(i) = j /\ Owner(i)' = j
  <2>1. j \in 1..i /\ i \in Nat
    BY <1>2, <1>3 DEF OwnedBy
  <2>2. OwnedBy(i, j)'
    BY <1>1, <1>2, <1>3 DEF OwnedBy
  <2>3. Owner(i) = j
    BY <1>3, <2>1, OneOwner DEF OwnedBy, Owner
  <2>4. Owner(i)' = j
    BY <2>1, <2>2, OneOwner DEF OwnedBy, Owner
  <2> QED
    BY <2>2, <2>3, <2>4
<1>4. PICK j \in 1..i : OwnedBy(i, j)
  BY DEF PrintedInv
<1> QED
  BY <1>1, <1>2, <1>3, <1>4

\* The new line is its own owner, or the one before it has its owner, too.
LEMMA NewOwner ==
    ASSUME TypeInv, PrintedInv, NEW line \in Lines, Read(line),
           NEW m, m = Len(printed), NEW n, n = Len(printed')
    PROVE  \E j \in 1..n :
              /\ OwnedBy(n, j)' /\ Owner(n)' = j
              /\ line.shape # "fill" => j = n
              /\ line.shape = "fill" => /\ printed # <<>> /\ m \in 1..m
                                        /\ Owner(m) = j /\ j \in 1..m
                                        /\ printed[j].shape = "entry"
<1>1. /\ m \in Nat /\ n = m + 1 /\ n \in Nat /\ printed'[n] = line
      /\ \A i \in 1..m : printed'[i] = printed[i]
      /\ printed = <<>> => m = 0
  BY ReadAppends
<1>2. CASE line.shape # "fill"
  <2>1. OwnedBy(n, n)'
    BY <1>1, <1>2 DEF OwnedBy
  <2>2. Owner(n)' = n
    BY <1>1, <2>1, OneOwner DEF OwnedBy, Owner
  <2> QED
    BY <1>1, <1>2, <2>1, <2>2
<1>3. CASE line.shape = "fill"
  <2>1. printed # <<>> /\ printed[m].shape \in {"entry", "fill"}
    BY <1>3, ReadAdds DEF Prints
  <2>2. m \in 1..m
    <3>1. m # 0
      BY <2>1, EmptySeq DEF TypeInv
    <3> QED
      BY <1>1, <3>1
  <2>3. PICK j \in 1..m : OwnedBy(m, j) /\ (printed[m].shape = "fill" => printed[j].shape = "entry")
    BY <2>2 DEF PrintedInv
  <2>4. OwnedBy(m, j)' /\ Owner(m) = j
    BY <2>2, <2>3, OwnersKept
  <2>5. OwnedBy(n, j)'
    BY <1>1, <1>3, <2>3, <2>4 DEF OwnedBy
  <2>6. Owner(n)' = j
    BY <1>1, <2>3, <2>5, OneOwner DEF OwnedBy, Owner
  <2>7. printed[j].shape = "entry"
    BY <1>1, <2>1, <2>2, <2>3 DEF OwnedBy
  <2> QED
    BY <1>1, <1>3, <2>1, <2>2, <2>3, <2>4, <2>5, <2>6, <2>7
<1> QED
  BY <1>2, <1>3

LEMMA PrintedKept ==
    ASSUME TypeInv, PrintedInv, NEW line \in Lines, Read(line)
    PROVE  PrintedInv'
<1>m. PICK m : m = Len(printed)
  OBVIOUS
<1>n. PICK n : n = Len(printed')
  OBVIOUS
<1>1. /\ m \in Nat /\ n = m + 1 /\ n \in Nat /\ printed'[n] = line
      /\ \A i \in 1..m : printed'[i] = printed[i]
  BY <1>m, <1>n, ReadAppends
<1>2. UNCHANGED <<os, asked>> /\ Text' = Text
  BY ReadAdds DEF Text
<1>3. ASSUME NEW i \in 1..m
      PROVE  /\ Text' <=> printed'[i].shape # "row"
             /\ os' = "junos" \/ (os' = "nxos" /\ asked' = NoVlan) => This \in printed'[i].ports
             /\ \E j \in 1..i :
                   /\ OwnedBy(i, j)'
                   /\ printed'[i].shape = "fill" => printed'[j].shape = "entry"
  <2>1. PICK j \in 1..i : OwnedBy(i, j) /\ (printed[i].shape = "fill" => printed[j].shape = "entry")
    BY <1>m DEF PrintedInv
  <2>2. OwnedBy(i, j)'
    BY <1>m, <2>1, OwnersKept
  <2>3. printed'[i] = printed[i] /\ printed'[j] = printed[j]
    BY <1>1
  <2> QED
    BY <1>m, <1>1, <1>2, <2>1, <2>2, <2>3 DEF PrintedInv
<1>4. Text <=> line.shape # "row"
  BY ReadAdds DEF Prints
<1>5. os = "junos" \/ (os = "nxos" /\ asked = NoVlan) => This \in line.ports
  BY <1>4, ReadAdds DEF Prints, Text
<1>6. \E j \in 1..n : OwnedBy(n, j)' /\ (line.shape = "fill" => printed'[j].shape = "entry")
  <2>1. PICK j \in 1..n :
           /\ OwnedBy(n, j)'
           /\ line.shape = "fill" => j \in 1..m /\ printed[j].shape = "entry"
    BY <1>m, <1>n, NewOwner
  <2> QED
    BY <1>1, <2>1
<1>7. \A i \in 1..n : i \in 1..m \/ i = n
  BY <1>1
<1> QED
  BY <1>n, <1>1, <1>2, <1>3, <1>4, <1>5, <1>6, <1>7 DEF PrintedInv


-----------------------------------------------------------------------------
(* What the lines are read as.                                             *)

\* A table that is misread stays so.
LEMMA MisreadStays ==
    ASSUME TypeInv, PrintedInv, NEW line \in Lines, Read(line), Misread
    PROVE  Misread'
<1>1. /\ DOMAIN printed = 1..Len(printed) /\ DOMAIN printed' = 1..Len(printed')
      /\ 1..Len(printed) \subseteq 1..Len(printed')
      /\ \A i \in 1..Len(printed) : printed'[i] = printed[i]
      /\ Widths' = Widths
  BY ReadAppends, ReadAdds DEF Widths
<1>2. PICK i \in 1..Len(printed) :
         \/ printed[i].shape = "entry" /\ printed[i].words > 7 /\ printed[i].words \notin Widths
         \/ /\ printed[i].shape = "fill"
            /\ Cardinality(printed[Owner(i)].ports) < 2 \/ printed[Owner(i)].words = 5
  BY <1>1 DEF Misread
<1>3. Owner(i)' = Owner(i) /\ printed'[Owner(i)] = printed[Owner(i)]
  BY <1>2, OwnersKept
<1>4. \/ printed'[i].shape = "entry" /\ printed'[i].words > 7 /\ printed'[i].words \notin Widths'
      \/ /\ printed'[i].shape = "fill"
         /\ Cardinality(printed'[Owner(i)'].ports) < 2 \/ printed'[Owner(i)'].words = 5
  BY <1>1, <1>2, <1>3
<1> QED
  BY <1>1, <1>2, <1>4 DEF Misread

\* What a line gave it still gives.
LEMMA GivesKept ==
    ASSUME TypeInv, PrintedInv, NEW line \in Lines, Read(line),
           NEW i \in 1..Len(printed), NEW e, Gives(e, i)
    PROVE  Gives(e, i)'
<1>1. printed'[i] = printed[i] /\ Owner(i)' = Owner(i) /\ printed'[Owner(i)] = printed[Owner(i)]
  BY ReadAppends, OwnersKept
<1> QED
  BY <1>1 DEF Gives

\* A line without content adds nothing, any other adds what it gives.
LEMMA TableKept ==
    ASSUME TypeInv, PrintedInv, NEW line \in Lines, Read(line), Sound, Complete,
           NEW n, n = Len(printed'),
           \/ line.shape \notin Content /\ table' = table
           \/ \E e \in Entry : table' = Append(table, e) /\ Gives(e, n)'
    PROVE  Sound' /\ Complete'
<1>1. /\ n \in Nat /\ Len(printed) = n - 1 /\ printed'[n] = line
      /\ \A i \in 1..Len(printed) : printed'[i] = printed[i]
      /\ \A i \in 1..n : i \in 1..Len(printed) \/ i = n
      /\ \A i \in 1..Len(printed) : i \in 1..n
  BY ReadAppends
<1>2. CASE line.shape \notin Content /\ table' = table
  <2>1. Sound'
    <3> SUFFICES ASSUME NEW t \in 1..Len(table), NEW d, d = table[t]
                 PROVE  \E i \in 1..n : Gives(d, i)'
      BY <1>2 DEF Sound
    <3>1. PICK i \in 1..Len(printed) : Gives(d, i)
      BY DEF Sound
    <3> QED
      BY <1>1, <3>1, GivesKept
  <2>2. Complete'
    <3> SUFFICES ASSUME NEW i \in 1..n, printed'[i].shape \in Content
                 PROVE  \E d : \E t \in 1..Len(table) : d = table[t] /\ Gives(d, i)'
      BY <1>2 DEF Complete
    <3>1. i \in 1..Len(printed) /\ printed[i].shape \in Content
      BY <1>1, <1>2
    <3>2. PICK t \in 1..Len(table) : Gives(table[t], i)
      BY <3>1 DEF Complete
    <3>3. PICK d : d = table[t]
      OBVIOUS
    <3>4. Gives(d, i)'
      BY <3>1, <3>2, <3>3, GivesKept
    <3> QED
      BY <3>3, <3>4
  <2> QED
    BY <2>1, <2>2
<1>3. ASSUME NEW e \in Entry, table' = Append(table, e), Gives(e, n)'
      PROVE  Sound' /\ Complete'
  <2>1. /\ Len(table) \in Nat /\ Len(table') = Len(table) + 1
        /\ \A t \in 1..Len(table) : table'[t] = table[t]
        /\ table'[Len(table')] = e
    BY <1>3, AppendProperties, LenProperties DEF TypeInv
  <2>2. /\ \A t \in 1..Len(table') : t \in 1..Len(table) \/ t = Len(table')
        /\ \A t \in 1..Len(table) : t \in 1..Len(table')
        /\ Len(table') \in 1..Len(table')
    BY <2>1
  <2>3. n \in 1..n
    BY <1>1, ReadAppends
  <2>4. Sound'
    <3> SUFFICES ASSUME NEW t \in 1..Len(table'), NEW d, d = table'[t]
                 PROVE  \E i \in 1..n : Gives(d, i)'
      BY DEF Sound
    <3>1. CASE t \in 1..Len(table)
      <4>1. PICK i \in 1..Len(printed) : Gives(d, i)
        BY <2>1, <3>1 DEF Sound
      <4>2. Gives(d, i)'
        BY <4>1, GivesKept
      <4> QED
        BY <1>1, <4>2
    <3> QED
      BY <1>3, <2>1, <2>2, <2>3, <3>1
  <2>5. Complete'
    <3> SUFFICES ASSUME NEW i \in 1..n, printed'[i].shape \in Content
                 PROVE  \E d : \E t \in 1..Len(table') : d = table'[t] /\ Gives(d, i)'
      BY DEF Complete
    <3>1. CASE i \in 1..Len(printed)
      <4>1. PICK t \in 1..Len(table) : Gives(table[t], i)
        BY <1>1, <3>1 DEF Complete
      <4>2. PICK d : d = table[t]
        OBVIOUS
      <4>3. Gives(d, i)'
        BY <3>1, <4>1, <4>2, GivesKept
      <4>4. t \in 1..Len(table') /\ d = table'[t]
        BY <2>1, <2>2, <4>2
      <4> QED
        BY <4>3, <4>4
    <3>2. CASE i = n
      BY <1>3, <2>1, <2>2, <3>2
    <3> QED
      BY <1>1, <3>1, <3>2
  <2> QED
    BY <2>4, <2>5
<1> QED
  BY <1>2, <1>3


\* An entry as the code finds it in a line is what the line gives.
LEMMA OfGives ==
    ASSUME NEW line, NEW split \in BOOLEAN, line.shape \in Content \ {"fill"},
           split \/ WholeLine(line),
           NEW n, printed'[n] = line, Owner(n)' = n
    PROVE  Gives(Of(line, split), n)'
<1>1. /\ Of(line, split).mac = line.mac /\ Of(line, split).ports = line.ports
      /\ Of(line, split).split = split
  BY DEF Of
<1>2. PICK e : e = Of(line, split)
  OBVIOUS
<1>3. Gives(e, n)'
  BY <1>1, <1>2 DEF Gives
<1> QED
  BY <1>2, <1>3 DEF Of

\* A line of ports that is not misread continues the entry in fill_down_*.
LEMMA FillKept ==
    ASSUME TypeInv, PrintedInv, FillInv, NEW line \in Lines, Read(line), FillDown(line),
           outcome' # "error", ~Misread', NEW n, n = Len(printed')
    PROVE  \E e \in Entry : table' = Append(table, e) /\ Gives(e, n)' /\ FillInv'
<1>m. PICK m : m = Len(printed)
  OBVIOUS
<1>0. line.shape = "fill" /\ line.ports \in SUBSET Ports
  BY MacAssumption DEF FillDown, NextLine, Line
<1>1. n \in Nat /\ n = m + 1 /\ m \in Nat /\ printed'[n] = line /\ DOMAIN printed' = 1..n
      /\ \A i \in 1..m : printed'[i] = printed[i]
  BY <1>m, ReadAppends
<1>2. PICK j \in 1..m : /\ Owner(n)' = j /\ Owner(m) = j /\ printed # <<>>
                        /\ printed[j].shape = "entry"
  BY <1>0, <1>m, NewOwner
<1>3. printed'[j] = printed[j] /\ n \in 1..n
  BY <1>1
<1>4. ~(Cardinality(printed[j].ports) < 2 \/ printed[j].words = 5)
  BY <1>0, <1>1, <1>2, <1>3 DEF Misread
<1>5. PICK e \in Entry : fill = {e} /\ e.mac = printed[j].mac
  BY <1>m, <1>2, <1>4 DEF FillInv
<1>6. PICK d : d = [e EXCEPT !.ports = line.ports, !.split = TRUE]
  OBVIOUS
<1>7. d \in Entry /\ d.mac = e.mac /\ d.ports = line.ports /\ d.split
  BY <1>0, <1>6, ChangedEntry
<1>8. table' = Append(table, d) /\ fill' = fill
  BY <1>5, <1>6 DEF FillDown
<1>9. Gives(d, n)'
  BY <1>0, <1>1, <1>2, <1>3, <1>5, <1>7 DEF Gives, Content
<1>10. FillInv'
  BY <1>1, <1>2, <1>3, <1>5, <1>8 DEF FillInv
<1> QED
  BY <1>7, <1>8, <1>9, <1>10

\* Every other line begins an entry, or has no content.
LEMMA EntryKept ==
    ASSUME TypeInv, PrintedInv, NEW line \in Lines, Read(line), ~FillDown(line),
           outcome' # "error", ~Misread', NEW n, n = Len(printed')
    PROVE  /\ \/ line.shape \notin Content /\ table' = table
              \/ \E e \in Entry : table' = Append(table, e) /\ Gives(e, n)'
           /\ FillInv'
<1> USE DEF NextLine
<1>1. /\ n \in Nat /\ n \in 1..n /\ printed'[n] = line
      /\ DOMAIN printed' = 1..n
  BY ReadAppends
<1>2. line \in Line /\ line.ports \in SUBSET Ports /\ line.words \in Nat
  BY MacAssumption DEF Line
<1>m. PICK m : m = Len(printed)
  OBVIOUS
<1>3. line.shape # "fill" => Owner(n)' = n
  BY <1>m, NewOwner
<1>4. line.shape # "fill" /\ (line.shape = "entry" /\ line.words # 5 /\ ~(Cardinality(line.ports) < 2) =>
         \E e \in Entry : fill' = {e} /\ e.mac = line.mac) => FillInv'
  BY <1>1, <1>3 DEF FillInv
<1>5. /\ Of(line, TRUE) \in Entry /\ Of(line, FALSE) \in Entry
      /\ Of(line, TRUE).mac = line.mac /\ Of(line, TRUE).ports = line.ports
  BY <1>2, OfType DEF Of
<1>6. CASE Skip(line)
  BY <1>4, <1>6 DEF Skip, Content
<1>7. CASE Whole(line)
  <2>1. /\ line.shape = "macfirst" \/ (line.shape = "entry" /\ line.words = 5)
        /\ table' = Append(table, Of(line, FALSE))
    BY <1>7 DEF Whole, Adds
  <2>2. Gives(Of(line, FALSE), n)'
    BY <1>1, <1>3, <2>1, OfGives DEF Content, WholeLine
  <2> QED
    BY <1>4, <1>5, <2>1, <2>2
<1>8. CASE Row(line)
  <2>1. line.shape = "row" /\ table' = Append(table, Of(line, FALSE))
    BY <1>8 DEF Row, Adds
  <2>2. Gives(Of(line, FALSE), n)'
    BY <1>1, <1>3, <2>1, OfGives DEF Content, WholeLine
  <2> QED
    BY <1>4, <1>5, <2>1, <2>2
<1>9. CASE Split(line)
  <2>1. line.shape = "entry" /\ table' = Append(table, Of(line, TRUE)) /\ fill' = Fills(Of(line, TRUE))
    BY <1>9 DEF Split, Adds
  <2>2. Gives(Of(line, TRUE), n)'
    BY <1>1, <1>3, <2>1, OfGives DEF Content
  <2>3. Cardinality(line.ports) \in Nat
    BY <1>2, PortCount
  <2>4. ~(Cardinality(line.ports) < 2) => fill' = {Of(line, TRUE)}
    <3>1. ~(Cardinality(line.ports) < 2) => Cardinality(line.ports) > 1
      BY <2>3
    <3>2. Of(line, TRUE).ports = line.ports
      BY <1>5
    <3> QED
      BY <2>1, <3>1, <3>2, Zenon DEF Fills
  <2> QED
    BY <1>4, <1>5, <2>1, <2>2, <2>4
<1>10. CASE Stale(line)
  <2>1. line.shape = "entry" /\ line.words > 7 /\ line.words \notin Widths /\ Widths' = Widths
    BY <1>2, <1>10, ReadAdds DEF Stale, Widths
  <2> QED
    BY <1>1, <2>1 DEF Misread
<1>11. CASE Odd(line) \/ Shifted(line)
  BY <1>11 DEF Odd, Shifted, Fails
<1> QED
  BY <1>6, <1>7, <1>8, <1>9, <1>10, <1>11 DEF Read

LEMMA ReadKept ==
    ASSUME TypeInv, PrintedInv, ReadInv, NEW line \in Lines, Read(line)
    PROVE  ReadInv'
<1> SUFFICES ASSUME outcome' # "error", ~Misread' PROVE Sound' /\ Complete' /\ FillInv'
  BY DEF ReadInv
<1>1. Sound /\ Complete /\ FillInv
  BY ReadAdds, MisreadStays DEF ReadInv
<1>2. PICK n : n = Len(printed')
  OBVIOUS
<1>3. CASE FillDown(line)
  BY <1>1, <1>2, <1>3, FillKept, TableKept
<1>4. CASE ~FillDown(line)
  BY <1>1, <1>2, <1>4, EntryKept, TableKept
<1> QED
  BY <1>3, <1>4


-----------------------------------------------------------------------------
(* The end of the table.                                                   *)

\* The first entry of the port stays the first as entries are added.
LEMMA FirstKept ==
    ASSUME TypeInv, FirstInv, NEW line \in Lines, Read(line)
    PROVE  FirstInv'
<1>0. short' = short
  BY ReadAdds
<1>1. CASE table' = table
  <2>1. Found' = Found
    BY <1>0, <1>1 DEF Found, Matches
  <2> QED
    BY <2>1 DEF FirstInv, First
<1>2. ASSUME NEW e \in Entry, table' = Append(table, e) PROVE FirstInv'
  <2>1. PICK n : n = Len(table')
    OBVIOUS
  <2>2. /\ n \in Nat /\ Len(table) = n - 1
        /\ DOMAIN table = 1..n - 1 /\ DOMAIN table' = 1..n
        /\ \A t \in 1..n - 1 : table'[t] = table[t]
    <3>1. Append(table, e) \in Seq(Entry) /\ Len(Append(table, e)) = Len(table) + 1
          /\ \A t \in 1..Len(table) : Append(table, e)[t] = table[t]
      BY AppendProperties DEF TypeInv
    <3>2. Len(table) \in Nat /\ DOMAIN table = 1..Len(table)
          /\ DOMAIN Append(table, e) = 1..Len(Append(table, e))
      BY <3>1, LenProperties DEF TypeInv
    <3> QED
      BY <1>2, <2>1, <3>1, <3>2
  <2>3. \A t \in 1..n - 1 : t \in Found' <=> t \in Found
    BY <1>0, <2>2 DEF Found, Matches
  <2>4. Found \subseteq 1..n - 1 /\ Found' \subseteq 1..n
    BY <2>2 DEF Found
  <2>5. CASE Found # {}
    <3>1. PICK t \in Found : \A j \in Found : t <= j
      BY <2>5 DEF FirstInv, First
    <3>2. \A j \in Found' : t <= j
      BY <2>2, <2>3, <2>4, <3>1
    <3> QED
      BY <2>3, <2>4, <3>1, <3>2 DEF FirstInv, First
  <2>6. CASE Found = {}
    <3>1. Found' \subseteq {n}
      BY <2>2, <2>3, <2>4, <2>6
    <3>2. n <= n
      BY <2>2
    <3> QED
      BY <3>1, <3>2 DEF FirstInv, First
  <2> QED
    BY <2>5, <2>6
<1> QED
  BY <1>1, <1>2, ReadAdds

LEMMA InitMac == Init => MacInv
<1> SUFFICES ASSUME Init PROVE MacInv
  OBVIOUS
<1>1. TypeInv
  BY InitType
<1>2. Len(printed) = 0 /\ Len(table) = 0 /\ 1..0 = {}
  BY EmptySeq DEF Init
<1>3. PrintedInv /\ ReadInv
  BY <1>2 DEF Init, PrintedInv, ReadInv, Sound, Complete, FillInv
<1>4. Found = {}
  BY <1>1, <1>2, LenProperties DEF TypeInv, Found
<1>5. FirstInv /\ ResultInv /\ CheckInv
  BY <1>4 DEF Init, FirstInv, ResultInv, CheckInv, Answered
<1> QED
  BY <1>1, <1>3, <1>5 DEF MacInv

LEMMA NextMac == MacInv /\ [Next]_vars => MacInv'
<1> SUFFICES ASSUME MacInv, [Next]_vars PROVE MacInv'
  OBVIOUS
<1>t. TypeInv /\ TypeInv'
  BY NextType DEF MacInv
\* What a step that reads no line leaves alone.
<1>f. ASSUME UNCHANGED <<os, short, asked, printed, table, last, fill, server>>,
             outcome' = "error" => outcome = "error" \/ outcome = "read"
      PROVE  /\ PrintedInv' /\ FirstInv' /\ Returned' = Returned
             /\ outcome # "error" => ReadInv'
  <2>1. Text' = Text /\ Widths' = Widths /\ Found' = Found /\ First' = First
    BY <1>f DEF Text, Widths, Found, First, Matches
  <2>2. PrintedInv' /\ FirstInv' /\ Returned' = Returned
    BY <1>f, <2>1 DEF MacInv, PrintedInv, FirstInv, Returned, OwnedBy, Text
  <2>3. Misread' = Misread
    BY <1>f, <2>1 DEF Misread, Owner
  <2>4. Sound' = Sound /\ Complete' = Complete /\ FillInv' = FillInv
    BY <1>f DEF Sound, Complete, FillInv, Gives, Owner
  <2> QED
    BY <2>2, <2>3, <2>4 DEF MacInv, ReadInv
<1>1. CASE UNCHANGED vars
  <2>1. Accepts' = Accepts /\ Answered' = Answered
    BY <1>1 DEF vars, Accepts, Addresses, Answered
  <2>2. PrintedInv' /\ FirstInv' /\ Returned' = Returned /\ (outcome # "error" => ReadInv')
    BY <1>1, <1>f DEF vars
  <2>3. ReadInv'
    BY <1>1, <2>2 DEF vars, ReadInv
  <2> QED
    BY <1>1, <1>t, <2>1, <2>2, <2>3 DEF vars, MacInv, ResultInv, CheckInv
<1>2. ASSUME NEW line \in Lines, Read(line) PROVE MacInv'
  <2>1. outcome' \in {"reading", "error"}
    BY <1>t, <1>2, ReadAdds
  <2>2. ResultInv' /\ CheckInv'
    BY <2>1 DEF ResultInv, CheckInv, Answered
  <2> QED
    BY <1>2, <1>t, <2>2, PrintedKept, ReadKept, FirstKept DEF MacInv
<1>3. CASE EndRead
  <2>1. PrintedInv' /\ FirstInv' /\ Returned' = Returned /\ ReadInv'
    BY <1>3, <1>f DEF EndRead
  <2>2. ResultInv' /\ CheckInv'
    BY <1>3, <2>1 DEF EndRead, ResultInv, CheckInv
  <2> QED
    BY <1>t, <2>1, <2>2 DEF MacInv
<1>4. CASE CheckMac
  <2>1. PrintedInv' /\ FirstInv' /\ Returned' = Returned /\ ReadInv'
    BY <1>4, <1>f DEF CheckMac
  <2>2. Accepts' = Accepts /\ result = Returned
    BY <1>4 DEF CheckMac, Accepts, Addresses, MacInv, ResultInv, Answered
  <2>3. ResultInv' /\ CheckInv'
    BY <1>4, <2>1, <2>2 DEF CheckMac, ResultInv, CheckInv
  <2> QED
    BY <1>t, <2>1, <2>3 DEF MacInv
<1> QED
  BY <1>1, <1>2, <1>3, <1>4 DEF Next


-----------------------------------------------------------------------------
(* What the addresses mean.                                                *)

\* The lines of Present.
Says(i) == printed[i].shape \in Content /\ This \in printed[i].ports

LEMMA PresentIs ==
    ASSUME TypeInv
    PROVE  Present = { printed[Owner(i)].mac : i \in { k \in 1..Len(printed) : Says(k) } }
<1>1. DOMAIN printed = 1..Len(printed)
  BY LenProperties DEF TypeInv
<1> QED
  BY <1>1 DEF Present, Says, Content

\* The rows of NX-OS and Junos are those of the port that was asked about.
LEMMA RowsOfPort ==
    ASSUME MacInv, os = "junos" \/ (os = "nxos" /\ asked = NoVlan), NEW i \in 1..Len(printed)
    PROVE  This \in printed[i].ports
  BY DEF MacInv, PrintedInv

\* The entries that are returned, in terms of what matches.
LEMMA ReturnedIs ==
    ASSUME TypeInv
    PROVE  /\ Text => Returned \subseteq { table[t] : t \in Found }
           /\ os = "eos" => Returned = { table[t] : t \in Found }
           /\ ~Text => Returned = { table[t] : t \in 1..Len(table) }
           /\ Found = { t \in 1..Len(table) : Matches(table[t]) }
<1>1. DOMAIN table = 1..Len(table)
  BY LenProperties DEF TypeInv
<1> QED
  BY <1>1 DEF Returned, Text, First, Found

LEMMA NothingForeignHolds == MacInv => NothingForeign
<1> SUFFICES ASSUME MacInv, Answered, ~Misread, ~(os = "nxos" /\ asked # NoVlan),
                    NEW e \in result
             PROVE  e.mac \in Present
  BY DEF NothingForeign, Addresses
<1>1. TypeInv /\ Sound /\ result = Returned
  BY DEF MacInv, ReadInv, ResultInv, Answered
<1>2. PICK t \in 1..Len(table) : e = table[t] /\ (Text => Matches(e))
  BY <1>1, ReturnedIs
<1>3. PICK i \in 1..Len(printed) : Gives(e, i)
  BY <1>1, <1>2 DEF Sound
<1>4. This \in e.ports
  <2>1. CASE Text
    BY <1>2, <2>1 DEF Matches
  <2>2. CASE ~Text
    <3>1. os = "junos" \/ (os = "nxos" /\ asked = NoVlan)
      BY <1>1, <2>2, MacAssumption DEF Text, TypeInv
    <3> QED
      BY <1>3, <3>1, RowsOfPort DEF Gives
  <2> QED
    BY <2>1, <2>2
<1>5. Says(i)
  BY <1>3, <1>4 DEF Gives, Says
<1> QED
  BY <1>1, <1>3, <1>5, PresentIs DEF Gives

\* An entry of the port is found, if its ports do not stay joined.
LEMMA SaidIsFound ==
    ASSUME MacInv, Answered, ~Misread, ~Joined, Text => short,
           NEW i \in 1..Len(printed), Says(i)
    PROVE  \E t \in 1..Len(table) : /\ table[t].mac = printed[Owner(i)].mac
                                    /\ Text => t \in Found
<1>1. TypeInv /\ Complete
  BY DEF MacInv, ReadInv, Answered
<1>2. PICK t \in 1..Len(table) : Gives(table[t], i)
  BY <1>1 DEF Complete, Says
<1>3. ASSUME Text PROVE Matches(table[t])
  <2>1. CASE table[t].split
    BY <1>2, <1>3, <2>1 DEF Matches, Gives, Says
  <2>2. CASE ~table[t].split
    <3>1. printed[i].shape = "macfirst" \/ (printed[i].shape = "entry" /\ printed[i].words = 5)
      BY <1>2, <1>3, <2>2 DEF Gives, WholeLine, MacInv, PrintedInv
    <3>2. DOMAIN printed = 1..Len(printed) /\ printed[i] \in Lines
      BY <1>1, LenProperties, ElementOfSeq DEF TypeInv
    <3>3. ~(Cardinality(printed[i].ports) > 1)
      BY <3>1, <3>2 DEF Joined
    <3>4. printed[i].ports \in SUBSET Ports /\ This \in printed[i].ports
      BY <3>2, MacAssumption DEF Line, Says
    <3>5. Cardinality(printed[i].ports) = 1
      <4>1. Cardinality(printed[i].ports) \in Nat /\ IsFiniteSet(printed[i].ports)
        BY <3>4, PortCount
      <4>2. Cardinality(printed[i].ports) # 0
        BY <3>4, <4>1, FS_EmptySet
      <4> QED
        BY <3>3, <4>1, <4>2
    <3>6. printed[i].ports = {This}
      BY <3>4, <3>5, PortCount, FS_Singleton
    <3> QED
      BY <1>2, <1>3, <2>2, <3>6 DEF Matches, Gives
  <2> QED
    BY <2>1, <2>2
<1> QED
  BY <1>1, <1>2, <1>3, ReturnedIs DEF Gives

LEMMA NothingMissingHolds == MacInv => NothingMissing
<1> SUFFICES ASSUME MacInv, Answered, ~Misread, ~Joined, Text => short
             PROVE  IF os = "ios" THEN Present # {} => Addresses # {} ELSE Present \subseteq Addresses
  BY DEF NothingMissing
<1>1. TypeInv /\ FirstInv /\ result = Returned
  BY DEF MacInv, ResultInv
<1>2. ASSUME NEW mac \in Present
      PROVE  \E t \in 1..Len(table) : table[t].mac = mac /\ (Text => t \in Found)
  <2>1. PICK i \in 1..Len(printed) : Says(i) /\ mac = printed[Owner(i)].mac
    BY <1>1, PresentIs
  <2> QED
    BY <2>1, SaidIsFound
<1>3. CASE os = "ios"
  <2>1. Present # {} => First # {}
    BY <1>1, <1>2, <1>3 DEF Text, FirstInv
  <2>2. Returned = { table[t] : t \in First }
    BY <1>3 DEF Returned
  <2> QED
    BY <1>1, <1>3, <2>1, <2>2 DEF Addresses
<1>4. CASE os # "ios"
  <2>1. CASE os = "eos"
    BY <1>1, <1>2, <1>4, <2>1, ReturnedIs DEF Text, Addresses
  <2>2. CASE os # "eos"
    BY <1>1, <1>2, <1>4, <2>2, ReturnedIs DEF Text, Addresses
  <2> QED
    BY <1>4, <2>1, <2>2
<1> QED
  BY <1>3, <1>4

LEMMA CheckMeansPresenceHolds == MacInv => CheckMeansPresence
<1> SUFFICES ASSUME MacInv PROVE CheckMeansPresence
  OBVIOUS
<1>1. ASSUME outcome = "refused", server \in Present, os # "ios", ~Misread, ~Joined
      PROVE  FALSE
  <2>1. Addresses # {} /\ server \notin Addresses
    BY <1>1 DEF MacInv, CheckInv, Accepts
  <2>2. Text => short
    <3>1. Text /\ ~short => Found = {}
      BY DEF Found, Matches
    <3>2. Text /\ ~short => Returned = {}
      BY <3>1, ReturnedIs DEF MacInv
    <3> QED
      BY <1>1, <2>1, <3>2 DEF MacInv, ResultInv, Answered, Addresses
  <2>3. Present \subseteq Addresses
    BY <1>1, <2>2, NothingMissingHolds DEF NothingMissing, Answered
  <2> QED
    BY <1>1, <2>1, <2>3
<1>2. ASSUME outcome = "accepted", server \notin Present, Addresses # {}, ~Misread,
             ~(os = "nxos" /\ asked # NoVlan)
      PROVE  FALSE
  <2>1. server \in Addresses
    BY <1>2 DEF MacInv, CheckInv, Accepts
  <2>2. Addresses \subseteq Present
    BY <1>2, NothingForeignHolds DEF NothingForeign, Answered
  <2> QED
    BY <1>2, <2>1, <2>2
<1> QED
  BY <1>1, <1>2 DEF CheckMeansPresence

\* Whatever lines a switch prints and in whatever order, a driver returns no
\* address of another port, but for NX-OS asked for a vlan and for misread text.
THEOREM ForeignExcluded == Spec => []NothingForeign
  BY InitMac, NextMac, NothingForeignHolds, PTL DEF Spec

\* In the layouts a driver knows it returns every address of the port, or one
\* of them if it is IOS, however long the table and its continuations.
THEOREM AllReturned == Spec => []NothingMissing
  BY InitMac, NextMac, NothingMissingHolds, PTL DEF Spec

\* What the plugin's check of a server's address says of the port is true, but
\* for the named ways in which the drivers misread, join or cut off the table.
THEOREM CheckIsMeaningful == Spec => []CheckMeansPresence
  BY InitMac, NextMac, CheckMeansPresenceHolds, PTL DEF Spec
=============================================================================
