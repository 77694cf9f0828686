-------------------------- MODULE ChangeTicket_proofs --------------------------
(***************************************************************************)
(* Theorems about ChangeTicket for any number of requests, tickets and     *)
(* retries, whatever the service and the workers do.                       *)
(***************************************************************************)
EXTENDS ChangeTicket, TLAPS

-----------------------------------------------------------------------------
(* The invariant.                                                          *)

\* What is known of a request at each of its places.
JobOK(r) ==
    LET num == job[r].num IN
    /\ job[r].pc \in {"idle", "allowed", "refused"} => num = None
    /\ job[r].pc \in {"created", "marked", "pushed", "closed"} => num # None
    /\ num # None => num \in Raised /\ tickets[num].owner = r
    /\ job[r].pc \in {"created", "marked"} => device[num] = "none"
    /\ job[r].pc \in {"pushed", "closed"} => device[num] # "none"
    /\ job[r].pc \in {"created", "marked", "pushed"} => tickets[num].status # "Complete"
    /\ job[r].pc \in {"marked", "pushed"} => tickets[num].started \/ num \in missed
    /\ job[r].pc = "allowed" /\ stop => r \in caught

JobInv == \A r \in Requests : JobOK(r)

\* What a closed ticket says, of one ticket.
Truthful(n) ==
    tickets[n].status = "Complete" =>
        /\ \/ tickets[n].close = "Completed as Planned" /\ device[n] = "ok"
           \/ tickets[n].close = "Change No Longer Needed" /\ device[n] = "failed"
        /\ tickets[n].started \/ n \in missed

\* Why a ticket is open.
Open(n) ==
    tickets[n].status # "Complete" =>
        \/ /\ job[tickets[n].owner].num = n
           /\ job[tickets[n].owner].pc \in {"created", "marked", "pushed", "dead"}
        \/ n \in missed
        \/ device[n] = "none" /\ \A q \in Requests : job[q].num # n

TicketOK(n) ==
    /\ n \notin Raised => device[n] = "none"
    /\ n \in Raised => /\ Truthful(n)
                       /\ Open(n)
                       /\ tickets[n].stopped => tickets[n].owner \in caught

TicketInv ==
    /\ device[None] = "none"
    /\ \A n \in Numbers : TicketOK(n)

IInv == TypeOK /\ JobInv /\ TicketInv

-----------------------------------------------------------------------------
(* Steps of the service and of a request.                                  *)

\* What the client has heard of has been done.
LEMMA ExchangeDone ==
    ASSUME NEW x \in Exchanges
    PROVE  /\ x.taken \in BOOLEAN
           /\ x.heard \in BOOLEAN
           /\ x.heard => x.taken
  BY DEF Exchanges

LEMMA RaisedTicket ==
    ASSUME TypeOK, NEW n \in Raised
    PROVE  n \in Numbers /\ n # None /\ tickets[n] \in Ticket
  BY TicketAssumption DEF TypeOK, Raised

\* An update changes one ticket, or it was not answered.
LEMMA UpdateEffect ==
    ASSUME TypeOK, NEW num \in Raised, NEW ticket \in Ticket, Update(num, ticket)
    PROVE  /\ tickets' \in [Numbers -> Ticket \cup {None}]
           /\ missed' \subseteq Numbers \cup {None}
           /\ missed \subseteq missed' /\ missed' \subseteq missed \cup {num}
           /\ \A n \in Numbers \ {num} : tickets'[n] = tickets[n]
           /\ tickets'[num] = ticket \/ (tickets'[num] = tickets[num] /\ num \in missed')
           /\ Raised' = Raised
<1>1. num \in Numbers /\ tickets[num] # None /\ ticket # None
  BY TicketAssumption DEF TypeOK, Raised
<1>2. PICK x \in Exchanges :
        /\ tickets' = IF x.taken /\ num \in Raised THEN [tickets EXCEPT ![num] = ticket]
                      ELSE tickets
        /\ missed' = IF x.heard THEN missed ELSE missed \cup {num}
  BY DEF Update
<1>3. CASE x.taken
  BY <1>1, <1>2, <1>3, ExchangeDone DEF TypeOK, Raised
<1>4. CASE ~x.taken
  BY <1>1, <1>2, <1>4, ExchangeDone DEF TypeOK, Raised
<1> QED
  BY <1>3, <1>4, ExchangeDone

LEMMA GoesEffect ==
    ASSUME TypeOK, NEW r \in Requests,
           NEW pc \in {"idle", "allowed", "created", "marked", "pushed", "closed", "refused", "dead"},
           Goes(r, pc)
    PROVE  /\ job' \in [Requests -> Job]
           /\ job'[r].pc = pc /\ job'[r].num = job[r].num
           /\ \A q \in Requests \ {r} : job'[q] = job[q]
  BY DEF TypeOK, Goes, Job

LEMMA GotoEffect ==
    ASSUME TypeOK, NEW r \in Requests, NEW num \in Numbers \cup {None},
           NEW pc \in {"created", "refused"},
           Goto(r, pc, num)
    PROVE  /\ job' \in [Requests -> Job]
           /\ job'[r].pc = pc /\ job'[r].num = num
           /\ \A q \in Requests \ {r} : job'[q] = job[q]
  BY DEF TypeOK, Goto, Job

\* Two requests never hold the same number.
LEMMA OwnNumber ==
    ASSUME IInv, NEW r \in Requests, NEW q \in Requests,
           job[r].num # None, job[q].num = job[r].num
    PROVE  q = r
  BY DEF IInv, JobInv, JobOK

\* A request that is alone in moving, on tickets that stay as they are, keeps
\* every other request in order.
LEMMA OthersKept ==
    ASSUME IInv, NEW r \in Requests, NEW q \in Requests \ {r}, job'[q] = job[q],
           \A n \in Raised : n # job[r].num => tickets'[n] = tickets[n] /\ device'[n] = device[n],
           Raised \subseteq Raised', missed \subseteq missed', caught \subseteq caught',
           stop' = stop
    PROVE  JobOK(q)'
<1>1. JobOK(q)
  BY DEF IInv, JobInv
<1>2. job[q].num # None => job[q].num # job[r].num
  BY OwnNumber
<1>3. CASE job[q].num = None
  BY <1>1, <1>3 DEF JobOK
<1>4. CASE job[q].num # None
  <2> DEFINE num == job[q].num
  <2>1. num \in Raised /\ num # job[r].num
    BY <1>1, <1>2, <1>4 DEF JobOK
  <2>2. tickets'[num] = tickets[num] /\ device'[num] = device[num] /\ num \in Raised'
    BY <2>1
  <2> QED
    BY <1>1, <1>4, <2>1, <2>2 DEF JobOK
<1> QED
  BY <1>3, <1>4

\* A ticket that stays as it is, and is not that of the request that moves, stays
\* in order.
LEMMA TicketKept ==
    ASSUME IInv, NEW r \in Requests, NEW n \in Numbers,
           n \in Raised <=> n \in Raised', tickets'[n] = tickets[n], device'[n] = device[n],
           missed \subseteq missed', caught \subseteq caught',
           \A q \in Requests \ {r} : job'[q] = job[q],
           job[r].num # n, job'[r].num # n
    PROVE  TicketOK(n)'
<1>1. TicketOK(n)
  BY DEF IInv, TicketInv
<1>2. \A q \in Requests : job[q].num # n => job'[q].num # n
  OBVIOUS
<1>3. n \in Raised => tickets[n].owner \in Requests
  BY RaisedTicket DEF IInv, Ticket
<1>4. n \in Raised /\ Open(n) => Open(n)'
  BY <1>2, <1>3 DEF Open
<1> QED
  BY <1>1, <1>4 DEF TicketOK, Truthful

-----------------------------------------------------------------------------
(* Each step preserves the invariant.                                      *)

LEMMA InitInv == Init => IInv
<1> SUFFICES ASSUME Init PROVE IInv
  OBVIOUS
<1>1. TypeOK
  BY TicketAssumption DEF Init, TypeOK, Job, Answers
<1>2. JobInv
  BY DEF Init, JobInv, JobOK
<1>3. Raised = {}
  BY DEF Init, Raised
<1>4. TicketInv
  BY <1>3, TicketAssumption DEF Init, TicketInv, TicketOK
<1> QED
  BY <1>1, <1>2, <1>4 DEF IInv

LEMMA CheckAllowedInv ==
    ASSUME IInv, NEW r \in Requests, CheckAllowed(r)
    PROVE  IInv'
<1>1. PICK pc \in {"allowed", "refused"} : Goes(r, pc) /\ (pc = "allowed" => ~stop)
  <2>1. PICK x \in Exchanges : Goes(r, IF x.heard /\ ~stop THEN "allowed" ELSE "refused")
    BY DEF CheckAllowed
  <2>2. CASE x.heard /\ ~stop
    BY <2>1, <2>2
  <2>3. CASE ~(x.heard /\ ~stop)
    BY <2>1, <2>3
  <2> QED
    BY <2>2, <2>3
<1>2. /\ job' \in [Requests -> Job]
      /\ job'[r].pc = pc /\ job'[r].num = job[r].num
      /\ \A q \in Requests \ {r} : job'[q] = job[q]
  BY <1>1, GoesEffect DEF IInv
<1>3. UNCHANGED <<stop, tickets, device, caught, missed>> /\ job[r].pc = "idle" /\ Raised' = Raised
  BY DEF CheckAllowed, At, Raised
<1>4. TypeOK'
  BY <1>2, <1>3 DEF IInv, TypeOK
<1>5. job[r].num = None
  BY <1>3 DEF IInv, JobInv, JobOK
<1>6. JobOK(r)'
  BY <1>1, <1>2, <1>3, <1>5 DEF JobOK
<1>7. JobInv'
  BY <1>2, <1>3, <1>6, OthersKept DEF JobInv
<1>8. ASSUME NEW n \in Numbers PROVE TicketOK(n)'
  <2>1. n # None
    BY TicketAssumption
  <2> QED
    BY <1>2, <1>3, <1>5, <2>1, TicketKept
<1>9. TicketInv'
  BY <1>3, <1>8 DEF TicketInv, IInv
<1> QED
  BY <1>4, <1>7, <1>9 DEF IInv

LEMMA CreateTicketInv ==
    ASSUME IInv, NEW r \in Requests, CreateTicket(r)
    PROVE  IInv'
<1>1. PICK x \in Exchanges, n \in Numbers \ Raised, told \in BOOLEAN :
        /\ tickets' = IF x.taken THEN [tickets EXCEPT ![n] = Fresh(r)] ELSE tickets
        /\ LET num == IF told THEN n ELSE None
           IN IF NumberHeard(num, x.heard) THEN Goto(r, "created", num)
              ELSE Goto(r, "refused", None)
  BY DEF CreateTicket
<1>2. UNCHANGED <<stop, device, caught, missed>> /\ job[r].pc = "allowed"
  BY DEF CreateTicket, At
<1>3. /\ x.taken \in BOOLEAN
      /\ x.heard \in BOOLEAN
      /\ x.heard => x.taken
  BY ExchangeDone
<1>4. n \in Numbers /\ n # None /\ n \notin Raised /\ tickets[n] = None
  BY TicketAssumption DEF Raised
<1>5. PICK pc \in {"created", "refused"}, num \in {n, None} :
        /\ Goto(r, pc, num)
        /\ pc = "created" => num = n /\ x.taken
        /\ pc = "refused" => num = None
  <2>1. CASE told /\ x.heard
    BY <1>1, <1>3, <1>4, <2>1 DEF NumberHeard
  <2>2. CASE ~(told /\ x.heard)
    <3>1. ~NumberHeard(IF told THEN n ELSE None, x.heard)
      BY <2>2, <1>3 DEF NumberHeard
    <3> QED
      BY <1>1, <3>1
  <2> QED
    BY <2>1, <2>2
<1>6. /\ job' \in [Requests -> Job]
      /\ job'[r].pc = pc /\ job'[r].num = num
      /\ \A q \in Requests \ {r} : job'[q] = job[q]
  BY <1>4, <1>5, GotoEffect DEF IInv
<1>7. /\ Fresh(r) \in Ticket
      /\ Fresh(r).owner = r /\ Fresh(r).status = "Approved" /\ Fresh(r).stopped = stop
      /\ Fresh(r) # None
  <2>1. stop \in BOOLEAN
    BY DEF IInv, TypeOK
  <2>2. Fresh(r) \in Ticket
    BY <2>1 DEF Fresh, Ticket, Statuses, Closes
  <2>3. Fresh(r) # None
    BY <2>2, TicketAssumption
  <2> QED
    BY <2>2, <2>3 DEF Fresh
<1>8. /\ tickets' \in [Numbers -> Ticket \cup {None}]
      /\ \A m \in Numbers \ {n} : tickets'[m] = tickets[m]
      /\ x.taken => tickets'[n] = Fresh(r)
      /\ ~x.taken => tickets'[n] = tickets[n]
  BY <1>1, <1>3, <1>4, <1>7 DEF IInv, TypeOK
<1>9. /\ Raised \subseteq Raised'
      /\ Raised' \subseteq Raised \cup {n}
      /\ x.taken => n \in Raised'
      /\ ~x.taken => n \notin Raised'
  BY <1>3, <1>4, <1>7, <1>8 DEF Raised
<1>10. job[r].num = None /\ device[n] = "none" /\ (stop => r \in caught)
  BY <1>2, <1>4 DEF IInv, JobInv, JobOK, TicketInv, TicketOK
<1>11. TypeOK'
  BY <1>2, <1>6, <1>8 DEF IInv, TypeOK
<1>12. JobOK(r)'
  <2>1. CASE pc = "created"
    BY <1>2, <1>4, <1>5, <1>6, <1>7, <1>8, <1>9, <1>10, <2>1 DEF JobOK
  <2>2. CASE pc = "refused"
    BY <1>5, <1>6, <2>2 DEF JobOK
  <2> QED
    BY <2>1, <2>2
<1>13. JobInv'
  <2>1. \A m \in Raised : tickets'[m] = tickets[m] /\ device'[m] = device[m]
    BY <1>2, <1>4, <1>8 DEF Raised
  <2> QED
    BY <1>2, <1>6, <1>9, <1>12, <2>1, OthersKept DEF JobInv
<1>14. ASSUME NEW m \in Numbers \ {n} PROVE TicketOK(m)'
  <2>1. m # None
    BY TicketAssumption
  <2> QED
    BY <1>2, <1>5, <1>6, <1>8, <1>9, <1>10, <2>1, TicketKept
<1>15. TicketOK(n)'
  <2>1. CASE ~x.taken
    BY <1>2, <1>9, <1>10, <2>1 DEF TicketOK
  <2>2. CASE x.taken
    <3>1. tickets'[n].status = "Approved" /\ tickets'[n].owner = r /\ tickets'[n].stopped = stop
      BY <1>7, <1>8, <2>2
    <3>2. Open(n)'
      <4>1. CASE pc = "created"
        BY <1>5, <1>6, <3>1, <4>1 DEF Open
      <4>2. CASE pc = "refused"
        <5>1. \A q \in Requests : job[q].num # n
          BY <1>4 DEF IInv, JobInv, JobOK
        <5>2. \A q \in Requests : job'[q].num # n
          BY <1>4, <1>5, <1>6, <4>2, <5>1
        <5> QED
          BY <1>2, <1>10, <5>2 DEF Open
      <4> QED
        BY <4>1, <4>2
    <3> QED
      BY <1>2, <1>9, <1>10, <2>2, <3>1, <3>2 DEF TicketOK, Truthful
  <2> QED
    BY <1>3, <2>1, <2>2
<1>16. TicketInv'
  BY <1>2, <1>14, <1>15 DEF IInv, TicketInv
<1> QED
  BY <1>11, <1>13, <1>16 DEF IInv

LEMMA MarkReadyInv ==
    ASSUME IInv, NEW r \in Requests, MarkReady(r)
    PROVE  IInv'
<1> DEFINE num == job[r].num
           ticket == [tickets[num] EXCEPT !.status = "ReadyToStart", !.started = TRUE]
<1>1. /\ job[r].pc = "created"
      /\ Update(num, ticket) /\ Goes(r, "marked")
      /\ UNCHANGED <<stop, device, caught>>
  BY DEF MarkReady, At
<1>2. /\ num \in Raised /\ num # None /\ tickets[num].owner = r
      /\ device[num] = "none" /\ tickets[num].status # "Complete"
  BY <1>1 DEF IInv, JobInv, JobOK
<1>3. num \in Numbers /\ tickets[num] \in Ticket
  BY <1>2, RaisedTicket DEF IInv
<1>4. /\ ticket \in Ticket
      /\ ticket.status # "Complete" /\ ticket.started /\ ticket.owner = r
      /\ ticket.stopped = tickets[num].stopped
  BY <1>2, <1>3 DEF Ticket, Statuses
<1>5. /\ tickets' \in [Numbers -> Ticket \cup {None}]
      /\ missed' \subseteq Numbers \cup {None}
      /\ missed \subseteq missed'
      /\ \A n \in Numbers \ {num} : tickets'[n] = tickets[n]
      /\ tickets'[num] = ticket \/ (tickets'[num] = tickets[num] /\ num \in missed')
      /\ Raised' = Raised
  <2> HIDE DEF ticket
  <2> QED
    BY <1>1, <1>2, <1>4, UpdateEffect DEF IInv
<1>6. /\ job' \in [Requests -> Job]
      /\ job'[r].pc = "marked" /\ job'[r].num = num
      /\ \A q \in Requests \ {r} : job'[q] = job[q]
  BY <1>1, GoesEffect DEF IInv
<1> HIDE DEF num, ticket
<1>7. TypeOK'
  BY <1>1, <1>5, <1>6 DEF IInv, TypeOK
<1>8. JobOK(r)'
  BY <1>1, <1>2, <1>4, <1>5, <1>6 DEF JobOK
<1>9. JobInv'
  <2>1. \A n \in Raised : n # num => tickets'[n] = tickets[n] /\ device'[n] = device[n]
    BY <1>1, <1>5 DEF Raised
  <2> QED
    BY <1>1, <1>5, <1>6, <1>8, <2>1, OthersKept DEF JobInv, num
<1>10. ASSUME NEW n \in Numbers PROVE TicketOK(n)'
  <2>1. CASE n # num
    BY <1>1, <1>5, <1>6, <2>1, TicketKept DEF num
  <2>2. CASE n = num
    <3>1. TicketOK(num)
      BY <1>3 DEF IInv, TicketInv
    <3>2. /\ tickets'[num].status # "Complete" /\ tickets'[num].owner = r
          /\ tickets'[num].stopped = tickets[num].stopped
      BY <1>2, <1>4, <1>5
    <3> QED
      BY <1>1, <1>2, <1>5, <1>6, <2>2, <3>1, <3>2 DEF TicketOK, Truthful, Open
  <2> QED
    BY <2>1, <2>2
<1>11. TicketInv'
  BY <1>1, <1>10 DEF IInv, TicketInv
<1> QED
  BY <1>7, <1>9, <1>11 DEF IInv

LEMMA PushInv ==
    ASSUME IInv, NEW r \in Requests, Push(r)
    PROVE  IInv'
<1> DEFINE num == job[r].num
<1>1. /\ job[r].pc = "marked" /\ Goes(r, "pushed")
      /\ UNCHANGED <<stop, tickets, caught, missed>> /\ Raised' = Raised
  BY DEF Push, At, Raised
<1>2. PICK a \in {"ok", "failed"} : device' = [device EXCEPT ![num] = a]
  BY DEF Push
<1>3. /\ num \in Raised /\ num # None /\ tickets[num].owner = r
      /\ tickets[num].status # "Complete" /\ (tickets[num].started \/ num \in missed)
  BY <1>1 DEF IInv, JobInv, JobOK
<1>4. num \in Numbers /\ tickets[num] \in Ticket
  BY <1>3, RaisedTicket DEF IInv
<1>5. /\ device' \in [Numbers \cup {None} -> Answers]
      /\ device'[num] = a /\ device'[None] = device[None]
      /\ \A n \in Numbers \ {num} : device'[n] = device[n]
  BY <1>2, <1>3, <1>4 DEF IInv, TypeOK, Answers
<1>6. /\ job' \in [Requests -> Job]
      /\ job'[r].pc = "pushed" /\ job'[r].num = num
      /\ \A q \in Requests \ {r} : job'[q] = job[q]
  BY <1>1, GoesEffect DEF IInv
<1> HIDE DEF num
<1>7. TypeOK'
  BY <1>1, <1>5, <1>6 DEF IInv, TypeOK
<1>8. JobOK(r)'
  BY <1>1, <1>3, <1>5, <1>6 DEF JobOK
<1>9. JobInv'
  <2>1. \A n \in Raised : n # num => tickets'[n] = tickets[n] /\ device'[n] = device[n]
    BY <1>1, <1>5 DEF Raised
  <2> QED
    BY <1>1, <1>6, <1>8, <2>1, OthersKept DEF JobInv, num
<1>10. ASSUME NEW n \in Numbers PROVE TicketOK(n)'
  <2>1. CASE n # num
    BY <1>1, <1>5, <1>6, <2>1, TicketKept DEF num
  <2>2. CASE n = num
    <3>1. TicketOK(num)
      BY <1>4 DEF IInv, TicketInv
    <3> QED
      BY <1>1, <1>3, <1>6, <2>2, <3>1 DEF TicketOK, Truthful, Open
  <2> QED
    BY <2>1, <2>2
<1>11. TicketInv'
  BY <1>5, <1>10 DEF IInv, TicketInv
<1> QED
  BY <1>7, <1>9, <1>11 DEF IInv

LEMMA CloseInv ==
    ASSUME IInv, NEW r \in Requests, Close(r)
    PROVE  IInv'
<1> DEFINE num == job[r].num
           code == CloseCode(device[num])
           ticket == ClosedTicket(tickets[num], code)
<1>1. /\ job[r].pc = "pushed"
      /\ Update(num, ticket) /\ Goes(r, "closed")
      /\ UNCHANGED <<stop, device, caught>>
  BY DEF Close, At
<1>2. /\ num \in Raised /\ num # None /\ tickets[num].owner = r
      /\ device[num] # "none" /\ tickets[num].status # "Complete"
      /\ tickets[num].started \/ num \in missed
  BY <1>1 DEF IInv, JobInv, JobOK
<1>3. num \in Numbers /\ tickets[num] \in Ticket /\ device[num] \in {"ok", "failed"}
  BY <1>2, RaisedTicket DEF IInv, TypeOK, Answers
<1>4. /\ code \in Closes
      /\ \/ code = "Completed as Planned" /\ device[num] = "ok"
         \/ code = "Change No Longer Needed" /\ device[num] = "failed"
  BY <1>3 DEF CloseCode, Closes
<1> HIDE DEF code
<1>5. /\ ticket \in Ticket
      /\ ticket.status = "Complete" /\ ticket.close = code /\ ticket.owner = r
      /\ ticket.started = tickets[num].started /\ ticket.stopped = tickets[num].stopped
  BY <1>2, <1>3, <1>4 DEF Ticket, Statuses, ClosedTicket
<1>6. /\ tickets' \in [Numbers -> Ticket \cup {None}]
      /\ missed' \subseteq Numbers \cup {None}
      /\ missed \subseteq missed'
      /\ \A n \in Numbers \ {num} : tickets'[n] = tickets[n]
      /\ tickets'[num] = ticket \/ (tickets'[num] = tickets[num] /\ num \in missed')
      /\ Raised' = Raised
  <2> HIDE DEF ticket
  <2> QED
    BY <1>1, <1>2, <1>5, UpdateEffect DEF IInv
<1>7. /\ job' \in [Requests -> Job]
      /\ job'[r].pc = "closed" /\ job'[r].num = num
      /\ \A q \in Requests \ {r} : job'[q] = job[q]
  BY <1>1, GoesEffect DEF IInv
<1> HIDE DEF num, ticket
<1>8. TypeOK'
  BY <1>1, <1>6, <1>7 DEF IInv, TypeOK
<1>9. JobOK(r)'
  BY <1>1, <1>2, <1>5, <1>6, <1>7 DEF JobOK
<1>10. JobInv'
  <2>1. \A n \in Raised : n # num => tickets'[n] = tickets[n] /\ device'[n] = device[n]
    BY <1>1, <1>6 DEF Raised
  <2> QED
    BY <1>1, <1>6, <1>7, <1>9, <2>1, OthersKept DEF JobInv, num
<1>11. ASSUME NEW n \in Numbers PROVE TicketOK(n)'
  <2>1. CASE n # num
    BY <1>1, <1>6, <1>7, <2>1, TicketKept DEF num
  <2>2. CASE n = num
    <3>1. TicketOK(num)
      BY <1>3 DEF IInv, TicketInv
    <3>2. CASE tickets'[num] = ticket
      BY <1>1, <1>2, <1>4, <1>5, <1>6, <2>2, <3>1, <3>2 DEF TicketOK, Truthful, Open
    <3>3. CASE tickets'[num] = tickets[num] /\ num \in missed'
      BY <1>1, <1>2, <1>6, <2>2, <3>1, <3>3 DEF TicketOK, Truthful, Open
    <3> QED
      BY <1>6, <3>2, <3>3
  <2> QED
    BY <2>1, <2>2
<1>12. TicketInv'
  BY <1>1, <1>11 DEF IInv, TicketInv
<1> QED
  BY <1>8, <1>10, <1>12 DEF IInv

LEMMA RetryInv ==
    ASSUME IInv, NEW r \in Requests, Retry(r)
    PROVE  IInv'
<1> DEFINE num == job[r].num
<1>1. /\ job[r].pc = "closed" /\ device[num] = "ok" /\ job[r].tries < MaxTries
      /\ job' = [job EXCEPT ![r] = [pc |-> "idle", num |-> None, tries |-> job[r].tries + 1]]
      /\ UNCHANGED <<stop, tickets, device, caught, missed>> /\ Raised' = Raised
  BY DEF Retry, At, Again, Raised
<1>2. /\ num \in Raised /\ num # None /\ tickets[num].owner = r
  BY <1>1 DEF IInv, JobInv, JobOK
<1>3. job[r].tries + 1 \in 1..MaxTries
  BY <1>1, TicketAssumption DEF IInv, TypeOK, Job
<1>4. /\ job' \in [Requests -> Job]
      /\ job'[r].pc = "idle" /\ job'[r].num = None
      /\ \A q \in Requests \ {r} : job'[q] = job[q]
  <2> DEFINE new == [pc |-> "idle", num |-> None, tries |-> job[r].tries + 1]
  <2>1. new \in Job /\ new.pc = "idle" /\ new.num = None
    BY <1>3 DEF Job
  <2> HIDE DEF new
  <2> QED
    BY <1>1, <2>1 DEF IInv, TypeOK, new
<1> HIDE DEF num
<1>5. TypeOK'
  BY <1>1, <1>4 DEF IInv, TypeOK
<1>6. JobOK(r)'
  BY <1>4 DEF JobOK
<1>7. JobInv'
  BY <1>1, <1>4, <1>6, OthersKept DEF JobInv
<1>8. ASSUME NEW n \in Numbers PROVE TicketOK(n)'
  <2>1. n # None
    BY TicketAssumption
  <2>2. CASE n # num
    BY <1>1, <1>4, <2>1, <2>2, TicketKept DEF num
  <2>3. CASE n = num
    <3>1. TicketOK(num)
      BY <2>3 DEF IInv, TicketInv
    <3>2. tickets[num].status # "Complete" => num \in missed
      BY <1>1, <1>2, <3>1 DEF TicketOK, Open, num
    <3> QED
      BY <1>1, <1>2, <2>3, <3>1, <3>2 DEF TicketOK, Truthful, Open
  <2> QED
    BY <2>2, <2>3
<1>9. TicketInv'
  BY <1>1, <1>8 DEF IInv, TicketInv
<1> QED
  BY <1>5, <1>7, <1>9 DEF IInv

LEMMA CrashInv ==
    ASSUME IInv, NEW r \in Requests, Crash(r)
    PROVE  IInv'
<1>1. /\ Goes(r, "dead")
      /\ UNCHANGED <<stop, tickets, device, caught, missed>> /\ Raised' = Raised
  BY DEF Crash, Raised
<1>2. /\ job' \in [Requests -> Job]
      /\ job'[r].pc = "dead" /\ job'[r].num = job[r].num
      /\ \A q \in Requests \ {r} : job'[q] = job[q]
  BY <1>1, GoesEffect DEF IInv
<1>3. TypeOK'
  BY <1>1, <1>2 DEF IInv, TypeOK
<1>4. JobOK(r)'
  BY <1>1, <1>2 DEF IInv, JobInv, JobOK
<1>5. JobInv'
  BY <1>1, <1>2, <1>4, OthersKept DEF JobInv
<1>6. ASSUME NEW n \in Numbers PROVE TicketOK(n)'
  <2>1. CASE n # job[r].num
    BY <1>1, <1>2, <2>1, TicketKept
  <2>2. CASE n = job[r].num
    <3>1. TicketOK(n)
      BY DEF IInv, TicketInv
    <3>2. n # None /\ tickets[n].owner = r
      BY <2>2, TicketAssumption DEF IInv, JobInv, JobOK
    <3> QED
      BY <1>1, <1>2, <2>2, <3>1, <3>2 DEF TicketOK, Truthful, Open
  <2> QED
    BY <2>1, <2>2
<1>7. TicketInv'
  BY <1>1, <1>6 DEF IInv, TicketInv
<1> QED
  BY <1>3, <1>5, <1>7 DEF IInv

LEMMA SetStopInv ==
    ASSUME IInv, SetStop
    PROVE  IInv'
<1>1. /\ stop' = ~stop
      /\ caught' = IF stop THEN caught ELSE caught \cup { r \in Requests : job[r].pc = "allowed" }
      /\ UNCHANGED <<tickets, job, device, missed>> /\ Raised' = Raised
  BY DEF SetStop, At, Raised
<1>2. stop \in BOOLEAN /\ caught \subseteq Requests
  BY DEF IInv, TypeOK
<1>3. caught \subseteq caught' /\ caught' \subseteq Requests
  BY <1>1, <1>2
<1>4. TypeOK'
  BY <1>1, <1>2, <1>3 DEF IInv, TypeOK
<1>5. ASSUME NEW r \in Requests PROVE JobOK(r)'
  <2>1. JobOK(r)
    BY DEF IInv, JobInv
  <2>2. job[r].pc = "allowed" /\ stop' => r \in caught'
    BY <1>1, <1>2
  <2> QED
    BY <1>1, <2>1, <2>2 DEF JobOK
<1>6. ASSUME NEW n \in Numbers PROVE TicketOK(n)'
  BY <1>1, <1>3 DEF IInv, TicketInv, TicketOK, Truthful, Open
<1> QED
  BY <1>1, <1>4, <1>5, <1>6 DEF IInv, JobInv, TicketInv

\* No step of the service, of a request or of those who stop changes breaks it.
LEMMA StepInv == IInv /\ [Next]_vars => IInv'
<1> SUFFICES ASSUME IInv, [Next]_vars PROVE IInv'
  OBVIOUS
<1>1. CASE \E r \in Requests : Serve(r)
  <2> PICK r \in Requests : Serve(r)
    BY <1>1
  <2> QED
    BY CheckAllowedInv, CreateTicketInv, MarkReadyInv, PushInv, CloseInv, RetryInv, CrashInv
       DEF Serve
<1>2. CASE SetStop
  BY <1>2, SetStopInv
<1>3. CASE UNCHANGED vars
  BY <1>3 DEF vars, IInv, TypeOK, JobInv, JobOK, TicketInv, TicketOK, Truthful, Open, Raised
<1> QED
  BY <1>1, <1>2, <1>3 DEF Next

THEOREM Inductive == Spec => []IInv
  BY InitInv, StepInv, PTL DEF Spec

-----------------------------------------------------------------------------
(* The theorems.                                                           *)

\* The service's tickets, the requests and the switches keep their types
\* (ticketWorkFlow.py, ticket_api_client.py).
THEOREM TypeCorrect == Spec => []TypeOK
<1>1. IInv => TypeOK
  BY DEF IInv
<1> QED
  BY Inductive, <1>1, PTL

\* Whatever replies are lost and whichever workers die, each change on a switch
\* has a ticket of its own, that the service knows (create_cr before the driver).
THEOREM ChangesTicketed == Spec => []ChangeHasTicket
<1>1. ASSUME IInv PROVE ChangeHasTicket
  <2>1. \A n \in Numbers : device[n] # "none" => n \in Raised
    BY <1>1 DEF IInv, TicketInv, TicketOK
  <2>2. device[None] = "none"
    BY <1>1 DEF IInv, TicketInv
  <2>3. \A r \in Requests : job[r].num # None =>
            /\ job[r].num \in Raised /\ tickets[job[r].num].owner = r
            /\ job[r].pc \in {"created", "marked"} => device[job[r].num] = "none"
    BY <1>1 DEF IInv, JobInv, JobOK
  <2> QED
    BY <2>1, <2>2, <2>3 DEF ChangeHasTicket, At
<1> QED
  BY Inductive, <1>1, PTL

\* A closed ticket tells what the switch answered, and was started unless an
\* update of it was not answered (complete_cr, cancel_cr).
THEOREM TicketsTruthful == Spec => []ClosedTruthfully
<1>1. IInv => ClosedTruthfully
  BY DEF IInv, TicketInv, TicketOK, Truthful, ClosedTruthfully, Raised
<1> QED
  BY Inductive, <1>1, PTL

\* A ticket that no request works on any more stays open only after a lost reply
\* or the death of a worker (update_cr).
THEOREM OpenExplained == Spec => []LeftOpenExplained
<1>1. ASSUME IInv PROVE LeftOpenExplained
  <2>1. \A n \in Raised : Open(n)
    BY <1>1 DEF IInv, TicketInv, TicketOK, Raised
  <2> QED
    BY <2>1 DEF LeftOpenExplained, Open
<1> QED
  BY Inductive, <1>1, PTL

\* A stop is passed only by those who had been let through when it began
\* (_is_change_creation_allowed, create_ticket).
THEOREM StopRespected == Spec => []StopExplained
<1>1. IInv => StopExplained
  BY DEF IInv, TicketInv, TicketOK, StopExplained, Raised
<1> QED
  BY Inductive, <1>1, PTL
=============================================================================
