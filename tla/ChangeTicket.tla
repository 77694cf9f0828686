----------------------------- MODULE ChangeTicket -----------------------------
(***************************************************************************)
(* Change tickets: create_cr, complete_cr and cancel_cr of ticketWorkFlow, *)
(* the client that sends them, and the ticket service as the client uses   *)
(* it.  A request raises a ticket before it calls the switch and closes it *)
(* after the call: the places are those where the plugin names these calls *)
(* (netforce_plugin.py 495, 505, 519, 526), which it carries as comments   *)
(* because they are meant for a site's own ticket system.                  *)
(*                                                                         *)
(* Each call of the service is one POST that nobody repeats.  Its reply    *)
(* may be an error or be lost, and the worker may die between two calls.   *)
(* A ticket is the record the service keeps.                               *)
(***************************************************************************)
EXTENDS Naturals, FiniteSets

CONSTANTS
    Requests,   \* update_port requests
    Numbers,    \* ticket numbers
    None,       \* no number
    Faults,     \* "refused", "lost_reply", "no_number", "crash"
    MaxTries    \* bound on the attempts of wrap_db_retry

Statuses == {"Approved", "ReadyToStart", "Complete"}
Closes == {"none", "Completed as Planned", "Change No Longer Needed"}

Ticket == [owner : Requests, status : Statuses, close : Closes, started : BOOLEAN, stopped : BOOLEAN]

ASSUME TicketAssumption ==
    /\ None \notin Numbers \cup Ticket
    /\ Faults \subseteq {"refused", "lost_reply", "no_number", "crash"}
    /\ MaxTries \in Nat \ {0}

VARIABLES
    stop,       \* the service has a stop on changes
    tickets,    \* Numbers -> the ticket of this number, or None
    job,        \* Requests -> where the request stands
    device,     \* Numbers \cup {None} -> what the switch answered under it
    caught,     \* the requests that had been let through when a stop began
    missed      \* the tickets an update of which was not answered

vars == <<stop, tickets, job, device, caught, missed>>

Answers == {"none", "ok", "failed"}

\* `num` is ticket_num.
Job ==
    [pc : {"idle", "allowed", "created", "marked", "pushed", "closed", "refused", "dead"},
     num : Numbers \cup {None}, tries : 1..MaxTries]

TypeOK ==
    /\ stop \in BOOLEAN
    /\ tickets \in [Numbers -> Ticket \cup {None}]
    /\ job \in [Requests -> Job]
    /\ device \in [Numbers \cup {None} -> Answers]
    /\ caught \subseteq Requests
    /\ missed \subseteq Numbers \cup {None}

Init ==
    /\ stop \in BOOLEAN
    /\ tickets = [n \in Numbers |-> None]
    /\ job = [r \in Requests |-> [pc |-> "idle", num |-> None, tries |-> 1]]
    /\ device = [n \in Numbers \cup {None} |-> "none"]
    /\ caught = {}
    /\ missed = {}

Raised == { n \in Numbers : tickets[n] # None }

At(r, pc) == job[r].pc = pc

Goes(r, pc) == job' = [job EXCEPT ![r].pc = pc]

Goto(r, pc, num) == job' = [job EXCEPT ![r].pc = pc, ![r].num = num]

\* An exchange with the service: whether the service acted on the request, and
\* whether the client got an answer with a 2xx status that it can use.
Exchanges ==
    { x \in [taken : BOOLEAN, heard : BOOLEAN] :
        /\ x.heard => x.taken
        /\ ~x.taken => "refused" \in Faults
        /\ x.taken /\ ~x.heard => "lost_reply" \in Faults }

-----------------------------------------------------------------------------
(* Raising a ticket: create_ticket and the decorator around it.            *)

\* _is_change_creation_allowed.  Every failure becomes a BadRequest.
CheckAllowed(r) ==
    /\ At(r, "idle")
    /\ \E x \in Exchanges : Goes(r, IF x.heard /\ ~stop THEN "allowed" ELSE "refused")
    /\ UNCHANGED <<stop, tickets, device, caught, missed>>

\* A ticket is approved as soon as it exists.
Fresh(r) ==
    [owner |-> r, status |-> "Approved", close |-> "none", started |-> FALSE, stopped |-> stop]

\* Mutant: a reply without a number is taken.
NumberHeardAny(num, heard) == heard

\* `if not ticket_num`
NumberHeard(num, heard) == heard /\ num # None

\* The stop is not looked at again.  The service may answer without a number.
CreateTicket(r) ==
    /\ At(r, "allowed")
    /\ \E x \in Exchanges, n \in Numbers \ Raised, told \in BOOLEAN :
        /\ told \/ "no_number" \in Faults
        /\ tickets' = IF x.taken THEN [tickets EXCEPT ![n] = Fresh(r)] ELSE tickets
        /\ LET num == IF told THEN n ELSE None
           IN IF NumberHeard(num, x.heard) THEN Goto(r, "created", num)
              ELSE Goto(r, "refused", None)
    /\ UNCHANGED <<stop, device, caught, missed>>

\* update_cr: one POST; whatever goes wrong is logged and forgotten.  The service
\* knows only the numbers it gave.
Update(num, ticket) ==
    \E x \in Exchanges :
        /\ tickets' = IF x.taken /\ num \in Raised THEN [tickets EXCEPT ![num] = ticket]
                      ELSE tickets
        /\ missed' = IF x.heard THEN missed ELSE missed \cup {num}

\* "Take the CR to ReadyToStart after create".
MarkReady(r) ==
    /\ At(r, "created")
    /\ LET num == job[r].num
       IN Update(num, [tickets[num] EXCEPT !.status = "ReadyToStart", !.started = TRUE])
    /\ Goes(r, "marked")
    /\ UNCHANGED <<stop, device, caught>>

-----------------------------------------------------------------------------
(* The change.                                                             *)

\* The call of the vendor driver.
Push(r) ==
    /\ At(r, "marked")
    /\ \E a \in {"ok", "failed"} : device' = [device EXCEPT ![job[r].num] = a]
    /\ Goes(r, "pushed")
    /\ UNCHANGED <<stop, tickets, caught, missed>>

\* Mutant: the handlers complete the ticket as well.
CloseCodeAlways(answer) == "Completed as Planned"

\* Mutant: message and close code change places.
CloseCodeSwapped(answer) == answer

\* complete_cr after the call, cancel_cr in the handlers.
CloseCode(answer) ==
    IF answer = "ok" THEN "Completed as Planned" ELSE "Change No Longer Needed"

\* Mutant: the ticket keeps its status.
ClosedTicketOpen(ticket, code) == [ticket EXCEPT !.close = code]

\* Both close a ticket with the status "Complete".
ClosedTicket(ticket, code) == [ticket EXCEPT !.status = "Complete", !.close = code]

Close(r) ==
    /\ At(r, "pushed")
    /\ LET num == job[r].num
       IN Update(num, ClosedTicket(tickets[num], CloseCode(device[num])))
    /\ Goes(r, "closed")
    /\ UNCHANGED <<stop, device, caught>>

\* Mutant: the second attempt keeps the number and does not ask again.
AgainKeeps(r) == job' = [job EXCEPT ![r].pc = "allowed", ![r].tries = @ + 1]

\* A new attempt of update_port starts from nothing, and raises a new ticket.
Again(r) == job' = [job EXCEPT ![r] = [pc |-> "idle", num |-> None, tries |-> job[r].tries + 1]]

\* The transaction around the call is rolled back by a deadlock after the
\* ticket has been completed, and wrap_db_retry runs update_port once more.
Retry(r) ==
    /\ At(r, "closed")
    /\ device[job[r].num] = "ok"
    /\ job[r].tries < MaxTries
    /\ Again(r)
    /\ UNCHANGED <<stop, tickets, device, caught, missed>>

Crash(r) ==
    /\ "crash" \in Faults
    /\ ~At(r, "closed") /\ ~At(r, "refused") /\ ~At(r, "dead")
    /\ Goes(r, "dead")
    /\ UNCHANGED <<stop, tickets, device, caught, missed>>

-----------------------------------------------------------------------------

\* Somebody begins a stop on changes, or ends it.
SetStop ==
    /\ stop' = ~stop
    /\ caught' = IF stop THEN caught ELSE caught \cup { r \in Requests : At(r, "allowed") }
    /\ UNCHANGED <<tickets, job, device, missed>>

Serve(r) ==
    \/ CheckAllowed(r) \/ CreateTicket(r) \/ MarkReady(r)
    \/ Push(r) \/ Close(r) \/ Retry(r) \/ Crash(r)

Next ==
    \/ \E r \in Requests : Serve(r)
    \/ SetStop

Spec == Init /\ [][Next]_vars
-----------------------------------------------------------------------------
(* Properties.                                                             *)

\* Each change on a switch has a ticket of its own: no switch is called without
\* a number, or under a number the service does not know, two attempts never
\* share a number, and a number belongs to the request that uses it
\* (the comment at netforce_plugin.py:1134).
ChangeHasTicket ==
    /\ device[None] = "none"
    /\ \A n \in Numbers : device[n] # "none" => n \in Raised
    /\ \A r \in Requests : job[r].num # None => /\ job[r].num \in Raised
                                                /\ tickets[job[r].num].owner = r
                                                /\ At(r, "created") \/ At(r, "marked") =>
                                                        device[job[r].num] = "none"

\* What a closed ticket says is true: "Completed as Planned" only after the
\* switch accepted the change, "Change No Longer Needed" only after the driver
\* failed.  It was started before it was closed, unless an update of it was not
\* answered (complete_cr, cancel_cr; "Need to call update twice as per the CR
\* workflow", ticket_api_client.py:263).
ClosedTruthfully ==
    \A n \in Raised : tickets[n].status = "Complete" =>
        /\ \/ tickets[n].close = "Completed as Planned" /\ device[n] = "ok"
           \/ tickets[n].close = "Change No Longer Needed" /\ device[n] = "failed"
        /\ tickets[n].started \/ n \in missed

\* A ticket stays open only while its request works on it, or when the reply
\* that carried its number was lost, an update of it was not answered, or the
\* worker died (update_cr gives up after one attempt).
LeftOpenExplained ==
    \A n \in Raised : tickets[n].status # "Complete" =>
        LET r == tickets[n].owner
        IN \/ job[r].num = n /\ job[r].pc \in {"created", "marked", "pushed", "dead"}
           \/ n \in missed
           \/ device[n] = "none" /\ ~\E q \in Requests : job[q].num = n

\* A ticket is raised during a stop only by a request that had been let through
\* when the stop began (_is_change_creation_allowed, create_ticket).
StopExplained ==
    \A n \in Raised : tickets[n].stopped => tickets[n].owner \in caught
=============================================================================
