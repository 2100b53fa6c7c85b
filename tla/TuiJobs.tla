------------------------------ MODULE TuiJobs ------------------------------
(***************************************************************************)
(* The terminal interface (src/tui/app.rs): one loop that drains the       *)
(* channel of its workers, draws and takes one input event, and worker     *)
(* threads that work on the workspace meanwhile.  What the operator sees   *)
(* and confirms is a copy; the queue and the configuration on disk belong  *)
(* to whoever writes them last.                                            *)
(***************************************************************************)
EXTENDS Naturals, FiniteSets, Sequences

CONSTANTS
    Reviews,       \* ids of review items
    Destinations,  \* endpoints a configuration may name
    MaxJobs, MaxOutside  \* bounds

ASSUME TuiAssumption == Reviews \subseteq Nat \ {0} /\ 0 \notin Destinations

Local == 0  \* a provider without an endpoint

VARIABLES
    queue,     \* status of each item on disk
    destination,  \* of the configuration on disk
    screen,    \* reviews, filtered, selected, checked_reviews, include_resolved, filter
    modal,     \* show_help, propose_dialog or confirmation
    job,       \* JobState, or NoAction
    workers,   \* the spawned threads
    events,    \* the channel
    quit,      \* should_quit
    phase,     \* of run_loop
    jobs, outside,
    current,   \* history: the lists on the screen were read, after the last outside change
    sent       \* history: the operations that sent code to an endpoint

tuiVars == <<queue, destination, screen, modal, job, workers, events, quit, phase,
             jobs, outside, current, sent>>

NoAction == [kind |-> "none", ids |-> {}, endpoint |-> FALSE, named |-> "nothing"]
NoModal == [kind |-> "none", action |-> NoAction, required |-> FALSE]
Action(kind) == [NoAction EXCEPT !.kind = kind]

Statuses == {"absent", "pending", "resolved"}

Pending(list) == {i \in Reviews : list[i] = "pending"}

\* list_review: pending items, or all of them.
Listed(all) == [i \in Reviews |-> IF queue[i] = "resolved" /\ ~all THEN "absent" ELSE queue[i]]

\* Item 1 alone answers to the filter.
Filtered(s) == {i \in Reviews : s.list[i] # "absent" /\ (s.filter => i = 1)}
Selected(s) == {i \in Filtered(s) : Cardinality({j \in Filtered(s) : j < i}) = s.selected}
Clamped(s) ==
    [s EXCEPT !.selected = IF @ < Cardinality(Filtered(s)) THEN @
                           ELSE IF Filtered(s) = {} THEN 0 ELSE Cardinality(Filtered(s)) - 1]

\* refresh_reviews: a check survives only on an item that is pending; a queue
\* that cannot be read is shown as an empty one.
Reread(s) == Clamped([s EXCEPT !.list = Listed(s.all)])
Relisted(s, list) == Clamped([s EXCEPT !.list = list, !.checked = @ \cap Pending(list)])
Refreshed(s) == Relisted(s, Listed(s.all))
Refresh(s) ==
    \/ screen' = Refreshed(s) /\ current' = TRUE /\ UNCHANGED outside
    \/ /\ outside < MaxOutside /\ outside' = outside + 1
       /\ screen' = Relisted(s, [i \in Reviews |-> "absent"]) /\ current' = FALSE

TuiInit ==
    /\ queue \in [Reviews -> {"absent", "pending"}]
    /\ destination \in {Local} \cup Destinations
    /\ screen = [list |-> queue, selected |-> 0, checked |-> {}, all |-> FALSE, filter |-> FALSE]
    /\ modal = NoModal /\ job = NoAction /\ workers = {} /\ events = <<>>
    /\ quit = FALSE /\ phase = "input" /\ jobs = 0 /\ outside = 0
    /\ current = TRUE /\ sent = {}

-----------------------------------------------------------------------------
(* The loop                                                                *)

\* poll_workers: every event in the channel; a Finished clears the job and
\* reads the queue again.
PollWorkers ==
    /\ phase = "poll" /\ ~quit
    /\ IF events = <<>> THEN UNCHANGED <<job, screen, current, outside>>
       ELSE job' = NoAction /\ Refresh(screen)
    /\ events' = <<>> /\ phase' = "input"
    /\ UNCHANGED <<queue, destination, modal, workers, quit, jobs, sent>>

OnScreen == UNCHANGED <<queue, destination, workers, events, jobs, outside, sent>>
Input == phase = "input" /\ ~quit /\ phase' = "poll"
NoInput == Input /\ UNCHANGED <<screen, modal, job, quit, current>> /\ OnScreen
FreeInput == Input /\ modal.kind = "none"

\* Keys, clicks and typed commands that move over the lists.
Browse ==
    /\ FreeInput
    /\ \/ \E k \in {1, 2} :  \* j and k
             screen' = Clamped([screen EXCEPT !.selected =
                                    IF k = 1 THEN @ + 1 ELSE IF @ = 0 THEN 0 ELSE @ - 1])
       \/ \E i \in Filtered(screen) :  \* the box of a pending row
             /\ screen.list[i] = "pending"
             /\ screen' = [screen EXCEPT
                    !.checked = IF i \in @ THEN @ \ {i} ELSE @ \cup {i},
                    !.selected = Cardinality({j \in Filtered(screen) : j < i})]
       \/ LET shown == Filtered(screen) \cap Pending(screen.list)
          IN  screen' = [screen EXCEPT !.checked = IF shown \subseteq @ THEN @ \ shown
                                                   ELSE @ \cup shown]
       \/ screen' = Clamped([screen EXCEPT !.filter = ~@])
    /\ UNCHANGED <<modal, job, quit, current>> /\ OnScreen

\* "refresh", "review" and "review all"
Reload ==
    /\ FreeInput
    /\ \E all \in BOOLEAN : Refresh([screen EXCEPT !.all = all])
    /\ UNCHANGED <<modal, job, quit, queue, destination, workers, events, jobs, sent>>

Help ==
    /\ Input /\ modal.kind \in {"none", "help"}
    /\ modal' = IF modal.kind = "help" THEN NoModal ELSE [NoModal EXCEPT !.kind = "help"]
    /\ UNCHANGED <<screen, job, quit, current>> /\ OnScreen

RequestQuit ==
    /\ FreeInput /\ quit' = (job = NoAction)
    /\ UNCHANGED <<screen, modal, job, current>> /\ OnScreen

-----------------------------------------------------------------------------
(* Operations                                                              *)

\* start_action spawns a thread whatever runs already.
StartAction(action) ==
    /\ jobs < MaxJobs /\ jobs' = jobs + 1
    /\ job' = action
    /\ workers' = workers \cup {[action |-> action, left |-> action.ids, n |-> jobs]}
    /\ modal' = NoModal

DoNothing == UNCHANGED <<job, workers, modal, jobs>>
Confirm(action) ==
    /\ modal' = [NoModal EXCEPT !.kind = "confirm", !.action = action]
    /\ UNCHANGED <<job, workers, jobs>>

\* request_action
RequestAtOnce(action) == IF action.kind = "index" THEN StartAction(action) ELSE Confirm(action)
RequestAction(action) ==
    IF job # NoAction THEN DoNothing
    ELSE IF action.kind = "index" THEN StartAction(action) ELSE Confirm(action)

OffScreen == UNCHANGED <<queue, destination, screen, events, quit, outside, current, sent>>

\* index, verify and init run unasked.
RequestIndex == FreeInput /\ RequestAction(Action("index")) /\ OffScreen

\* approval_ids: the checked items, hidden by the filter or not, else the
\* selected one.
ApprovalIds ==
    LET checked == screen.checked \cap Pending(screen.list)
    IN  IF checked # {} THEN checked ELSE Selected(screen) \cap Pending(screen.list)

RequestSelected ==
    /\ FreeInput
    /\ \/ ApprovalIds # {} /\ RequestAction([Action("approve") EXCEPT !.ids = ApprovalIds])
       \/ \E i \in Selected(screen) \cap Pending(screen.list) :
             RequestAction([Action("reject") EXCEPT !.ids = {i}])
    /\ OffScreen

\* "approve <id>" and "reject <id>"
RequestById ==
    /\ FreeInput
    /\ \E i \in Reviews, kind \in {"approve", "reject"} :
          RequestAction([Action(kind) EXCEPT !.ids = {i}])
    /\ OffScreen

\* "propose": to confirm it is to consent to any endpoint.
RequestPropose ==
    /\ FreeInput
    /\ RequestAction([Action("propose") EXCEPT !.endpoint = TRUE])
    /\ OffScreen

AcceptConfirmation ==
    /\ Input /\ modal.kind = "confirm"
    /\ StartAction(modal.action) /\ OffScreen

Cancel ==
    /\ Input /\ modal.kind \in {"confirm", "dialog"}
    /\ modal' = NoModal /\ UNCHANGED <<job, workers, jobs>> /\ OffScreen

\* The dialog asks for consent when the provider has an endpoint.
OpenProposeDialog ==
    /\ FreeInput
    /\ IF job # NoAction THEN DoNothing
       ELSE /\ modal' = [kind |-> "dialog", required |-> destination # Local,
                         action |-> [Action("propose") EXCEPT
                                        !.named = IF destination = Local THEN "local"
                                                  ELSE "endpoint"]]
            /\ UNCHANGED <<job, workers, jobs>>
    /\ OffScreen

ToggleEndpoint ==
    /\ Input /\ modal.kind = "dialog" /\ modal.required
    /\ modal' = [modal EXCEPT !.action.endpoint = ~@]
    /\ UNCHANGED <<job, workers, jobs>> /\ OffScreen

\* ProposeDialog::action
DialogAction == modal.action
CanRun == ~modal.required \/ modal.action.endpoint
SubmitDialog ==
    /\ Input /\ modal.kind = "dialog"
    /\ IF CanRun THEN StartAction(DialogAction) ELSE DoNothing
    /\ OffScreen

TuiInput ==
    \/ NoInput \/ Browse \/ Reload \/ Help \/ RequestQuit \/ RequestIndex \/ RequestSelected
    \/ RequestById \/ RequestPropose \/ AcceptConfirmation \/ Cancel
    \/ OpenProposeDialog \/ ToggleEndpoint \/ SubmitDialog

-----------------------------------------------------------------------------
(* The workers and the world outside                                       *)

WorkerOnly == UNCHANGED <<destination, screen, modal, job, quit, phase, jobs, outside>>

\* run_action: items are resolved one by one, a scan queues new ones and
\* talks to the endpoint if it was allowed to.
WorkerActs ==
    \E w \in workers :
        /\ \/ \E i \in w.left :
                /\ queue' = [queue EXCEPT ![i] = IF @ = "pending" THEN "resolved" ELSE @]
                /\ workers' = (workers \ {w}) \cup {[w EXCEPT !.left = @ \ {i}]}
                /\ UNCHANGED sent
           \/ /\ w.action.kind = "propose" /\ (destination = Local \/ w.action.endpoint)
              /\ \E i \in Reviews :
                    /\ queue[i] = "absent" /\ queue' = [queue EXCEPT ![i] = "pending"]
              /\ sent' = IF destination = Local THEN sent ELSE sent \cup {w.action}
              /\ UNCHANGED workers
        /\ UNCHANGED <<events, current>> /\ WorkerOnly

\* Done, or failed with some items left: the thread's last event.
WorkerFinishesQuietly ==
    \E w \in workers :
        /\ workers' = workers \ {w}
        /\ events' = IF w.left = {} THEN Append(events, "finished") ELSE events
        /\ UNCHANGED <<queue, sent, current>> /\ WorkerOnly
WorkerFinishes ==
    \E w \in workers :
        /\ workers' = workers \ {w}
        /\ events' = Append(events, "finished")
        /\ UNCHANGED <<queue, sent, current>> /\ WorkerOnly

\* Another process resolves an item, queues one again or edits the
\* configuration.
OutsideChange ==
    /\ outside < MaxOutside /\ outside' = outside + 1 /\ ~quit
    /\ \/ /\ \E i \in Reviews, status \in {"pending", "resolved"} :
                queue[i] # status /\ queue' = [queue EXCEPT ![i] = status]
          /\ current' = FALSE /\ UNCHANGED destination
       \/ /\ \E d \in {Local} \cup Destinations : d # destination /\ destination' = d
          /\ UNCHANGED <<queue, current>>
    /\ UNCHANGED <<screen, modal, job, workers, events, quit, phase, jobs, sent>>

TuiRest == quit /\ workers = {} /\ UNCHANGED tuiVars

WorkerStep == WorkerActs \/ WorkerFinishes
TuiNext == PollWorkers \/ TuiInput \/ WorkerStep \/ OutsideChange \/ TuiRest

\* The loop wakes every 80 milliseconds, and a worker's calls all return.
TuiSpec == TuiInit /\ [][TuiNext]_tuiVars
           /\ WF_tuiVars(PollWorkers) /\ WF_tuiVars(NoInput) /\ WF_tuiVars(WorkerFinishes)

-----------------------------------------------------------------------------
(* Properties                                                              *)

\* One operation at a time, though start_action never looks: the job on the
\* screen is there exactly as long as a thread works or its last event waits,
\* and leaving the interface kills no thread in the middle of its work.
OneOperation ==
    /\ Cardinality(workers) + Len(events) = IF job = NoAction THEN 0 ELSE 1
    /\ quit => workers = {}

\* When no operation runs, no other process wrote and the queue was read, the
\* operator looks at it as it is.
ShownIsCurrent ==
    job = NoAction /\ current => screen.list = Listed(screen.all)

\* A check never outlives the pending item it was put on: an item that is
\* resolved and queued again under its id is approved only after another look.
ChecksArePending == screen.checked \subseteq Pending(screen.list)

\* A scan from a dialog that named a local provider, where the operator was
\* not even asked, sends nothing to the endpoint the configuration names by
\* the time the thread runs.
SentWithConsent == \A action \in sent : action.named # "local"

\* Nothing is decided but what the operator saw: not over an old list, not by
\* a check put on another item, not for an endpoint nobody named.
OperatorDecides == ShownIsCurrent /\ ChecksArePending /\ SentWithConsent

\* The interface becomes usable again after every operation.
JobEnds == job # NoAction ~> job = NoAction
=============================================================================
