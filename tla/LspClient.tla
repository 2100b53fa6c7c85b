----------------------------- MODULE LspClient -----------------------------
(***************************************************************************)
(* The language server client (src/lsp.rs) with clangd at the other end of *)
(* the pipe: reference batches and renames through one cached server, and  *)
(* the rule by which an answer given during background indexing is or is   *)
(* not believed.                                                           *)
(*                                                                         *)
(* A call holds the client's mutex, so calls are one after another; what   *)
(* an abandoned call left behind (requests at the server, messages in the  *)
(* pipe, an open document) meets the next one.  One poll round is a unit   *)
(* of time: deadlines and graces pass in the waits of the code.            *)
(***************************************************************************)
EXTENDS Naturals, FiniteSets, FiniteSetsExt, Sequences, SequencesExt

CONSTANTS
    Stable,      \* REFERENCE_STABLE_POLLS
    Attempts,    \* REFERENCE_READY_ATTEMPTS
    Retries,     \* attempts after "content modified"
    BatchSize,   \* requests of a batch, of each call
    Minima,      \* minimum_references a batch may have, of each call
    MaxOdd       \* bound of collisions, modifications and reader errors together

\* How many references an answer holds: null, an incomplete list that meets
\* the minimum of the semantic index, all of them.
Null == 0
Part == 1
Full == 2
NoId == <<>>

ASSUME LspAssumption ==
    /\ Stable \in Nat \ {0} /\ Attempts \in Nat /\ Attempts >= Stable /\ Retries \in Nat
    /\ BatchSize \in Seq(Nat) /\ Minima \in [DOMAIN BatchSize -> SUBSET {Null, Part}]

VARIABLES
    server,   \* clangd
    pipe,     \* the messages of its stdout, and of the reader thread's channel
    client,   \* the cached Client
    call,     \* the call that holds it
    poll,     \* PollState of each request of the call
    generation,  \* lsp_workspace_generation
    calls, asks, modified  \* bounds

lspVars == <<server, pipe, client, call, poll, generation, calls, asks, modified>>

\* heard: the reader thread is at its stdout
Fresh == [alive |-> TRUE, heard |-> TRUE, index |-> "cold", announced |-> "no",
          asked |-> {}, open |-> FALSE]
NoClient == [generation |-> 0, active |-> FALSE, ended |-> "never"]
NoCall == [pc |-> "idle", kind |-> "batch", minimum |-> Part, waiting |-> {},
           attempt |-> 0]
Unseen == [of |-> NoId, value |-> Null, polls |-> 0, since |-> "never",
           retries |-> 0, done |-> FALSE]

LspInit ==
    /\ server = [Fresh EXCEPT !.alive = FALSE] /\ pipe = <<>>
    /\ client = NoClient /\ call = NoCall /\ poll = <<>>
    /\ generation = 1 /\ calls = 0 /\ asks = 0 /\ modified = 0

Items == DOMAIN poll
SawProgress == client.active \/ client.ended # "never"
Message(kind, id, of, value) == [kind |-> kind, id |-> id, of |-> of, value |-> value]

-----------------------------------------------------------------------------
(* clangd                                                                  *)

\* While the client waits in order to read, it reads first: what clangd does
\* behind an unread message is as well done after it, or in the next pause.
Listening ==
    \/ call.pc = "sleep"
    \/ call.pc \in {"ready", "await"} /\ pipe = <<>>
    \/ call.pc = "round" /\ client.active /\ pipe = <<>>
ServerOnly == Listening /\ UNCHANGED <<client, call, poll, generation, calls>>

\* What clangd does when nobody reads makes no difference.
Heard == server.alive /\ server.heard

\* The background index starts; clangd asks for a progress token first.
StartIndexing ==
    /\ Heard /\ server.index = "cold" /\ server.open
    /\ server' = [server EXCEPT !.index = "running", !.announced = "asked"]
    /\ pipe' = Append(pipe, Message("token", NoId, NoId, Null))
    /\ UNCHANGED <<asks, modified>> /\ ServerOnly

BeginProgress ==
    /\ Heard /\ server.index = "running" /\ server.announced = "granted"
    /\ server' = [server EXCEPT !.announced = "begun"]
    /\ pipe' = Append(pipe, Message("begin", NoId, NoId, Null))
    /\ UNCHANGED <<asks, modified>> /\ ServerOnly

FinishIndexing ==
    /\ Heard /\ server.index = "running"
    /\ server' = [server EXCEPT !.index = "done"]
    /\ pipe' = IF server.announced = "begun" THEN Append(pipe, Message("end", NoId, NoId, Null))
               ELSE pipe
    /\ UNCHANGED <<asks, modified>> /\ ServerOnly

\* Another request of the server, numbered by the server.
ServerAsks ==
    /\ Heard /\ asks + modified < MaxOdd /\ asks' = asks + 1
    /\ \E id \in {w[1] : w \in {x \in call.waiting : x[2] = 1}} :
          pipe' = Append(pipe, Message("ask", id, NoId, Null))
    /\ UNCHANGED <<server, modified>> /\ ServerOnly

\* Requests are answered in any order, from what is indexed so far; what an
\* abandoned one is answered makes no difference.
Awaited(request) == \E w \in call.waiting : w[1] = request[1]
Reply ==
    \E request \in server.asked :
        /\ Heard
        /\ server' = [server EXCEPT !.asked = @ \ {request}]
        /\ \/ /\ \E value \in IF server.index = "done" THEN {Full}
                             ELSE IF Awaited(request) THEN {Null, Part} ELSE {Part} :
                    pipe' = Append(pipe, Message("answer", request[1], request[2], value))
              /\ UNCHANGED modified
           \/ /\ asks + modified < MaxOdd /\ Awaited(request) /\ modified' = modified + 1
              /\ pipe' = Append(pipe, Message("modified", request[1], request[2], Null))
        /\ UNCHANGED asks /\ ServerOnly

\* A message is malformed or too long: the reader thread hands on the error and
\* ends, though clangd goes on.
ReaderFails ==
    /\ Heard /\ asks + modified < MaxOdd /\ asks' = asks + 1
    /\ server' = [server EXCEPT !.heard = FALSE]
    /\ pipe' = Append(pipe, Message("error", NoId, NoId, Null))
    /\ UNCHANGED modified /\ ServerOnly

\* What is in the channel is still read after it.
ServerDies ==
    /\ server.alive /\ server' = [server EXCEPT !.alive = FALSE, !.asked = {}]
    /\ UNCHANGED <<pipe, asks, modified>> /\ ServerOnly

\* The semantic documents or the compilation database change.
WorkspaceMoves ==
    /\ call.pc = "idle" /\ calls > 0 /\ generation = 1 /\ generation' = 2
    /\ UNCHANGED <<server, pipe, client, call, poll, calls, asks, modified>>

-----------------------------------------------------------------------------
(* The call                                                                *)

CallOnly == UNCHANGED <<generation, calls, asks, modified>>

\* next_id: a number that no earlier request of the client had.
PerCallId(i) == <<0, call.attempt, i, poll[i].retries>>
NextId(i) == <<calls, call.attempt, i, poll[i].retries>>

\* A client of another generation is replaced, and its server killed.  The
\* review of proposals and the refresh of compiler aliases ask for references
\* with a minimum of none, renames and the tool of the agent with the count of
\* the semantic index.
StartCall ==
    /\ call.pc = "idle" /\ calls < Len(BatchSize) /\ calls' = calls + 1
    /\ \E kind \in {"batch", "rename"} :
          /\ \E minimum \in IF kind = "batch" THEN Minima[calls'] ELSE {Part} :
                call' = [NoCall EXCEPT !.pc = "open", !.kind = kind, !.minimum = minimum]
          /\ poll' = [i \in 1 .. IF kind = "batch" THEN BatchSize[calls'] ELSE 1 |-> Unseen]
    /\ IF client.generation = generation
       THEN UNCHANGED <<client, server, pipe>>
       ELSE /\ client' = [NoClient EXCEPT !.generation = generation]
            /\ server' = Fresh /\ pipe' = <<>>
    /\ UNCHANGED <<generation, asks, modified>>

CloseDocument(s) == [s EXCEPT !.open = FALSE]

\* A batch that has come to its first round closes its document however the
\* rounds end.  One that fails before, and a rename that fails, return without
\* a didClose.
Asked == call.attempt > 0
Close(outcome) ==
    server' = IF outcome = "ok" \/ (call.kind = "batch" /\ Asked) THEN CloseDocument(server)
              ELSE server

FinishWith(outcome, answers) ==
    /\ Close(outcome)
    /\ call' = [call EXCEPT !.waiting = {},
                            !.pc = IF outcome = "ok" THEN "answered" ELSE "refused"]
    /\ poll' = answers
Finish(outcome) == FinishWith(outcome, IF outcome = "ok" THEN poll ELSE <<>>)

\* Leaving the answer to the caller.
Return ==
    /\ call.pc \in {"answered", "refused"}
    /\ call' = NoCall /\ poll' = <<>>
    /\ UNCHANGED <<server, pipe, client>> /\ CallOnly

\* didOpen goes into a broken pipe when the server is dead.
OpenDocument ==
    /\ call.pc = "open"
    /\ IF server.alive
       THEN /\ server' = [server EXCEPT !.open = TRUE]
            /\ call' = [call EXCEPT !.pc = "ready"] /\ UNCHANGED poll
       ELSE Finish("failed")
    /\ UNCHANGED <<pipe, client>> /\ CallOnly

\* observe_notification
Observed(m) ==
    CASE m.kind = "begin" -> [client EXCEPT !.active = TRUE]
      [] m.kind = "end" -> [client EXCEPT !.active = FALSE, !.ended = "now"]
      [] OTHER -> client

\* respond_to_server_request; clangd's first one was for the progress token.
Responded(m) ==
    IF m.kind = "token" THEN [server EXCEPT !.announced = "granted"] ELSE server

\* The reader's error, and a request that cannot be responded to.
Breaks(m) == m.kind = "error" \/ (m.kind \in {"token", "ask"} /\ ~server.alive)

\* A message that the call does not await is observed, or responded to.
Hear(m) ==
    IF Breaks(m) THEN Finish("failed") /\ UNCHANGED client
    ELSE server' = Responded(m) /\ client' = Observed(m) /\ UNCHANGED <<call, poll>>

Disconnected == pipe = <<>> /\ ~Heard

\* wait_for_documents: until the diagnostics are read or ten seconds passed.
\* A batch fails then if a declaration does not lie in its source.
Ready == [call EXCEPT !.pc = "round", !.attempt = 1]

AwaitDocument ==
    /\ call.pc = "ready"
    /\ \/ pipe # <<>> /\ pipe' = Tail(pipe) /\ Hear(Head(pipe))
       \/ /\ server.alive /\ ~Disconnected
          /\ call' = Ready /\ UNCHANGED <<server, pipe, client, poll>>
       \/ /\ Disconnected \/ call.kind = "batch"
          /\ Finish("failed") /\ UNCHANGED <<pipe, client>>
    /\ CallOnly

\* wait_for_clangd_background_quiescence, which a rename does without.
Settled == ~client.active /\ client.ended # "now"
Quiescent == call.kind = "rename" \/ Settled

AwaitQuiescence ==
    /\ call.pc = "round" /\ ~Quiescent
    /\ \/ pipe # <<>> /\ pipe' = Tail(pipe) /\ Hear(Head(pipe))
       \/ /\ pipe = <<>> /\ Heard /\ client.ended = "now"
          /\ client' = [client EXCEPT !.ended = "before"]
          /\ UNCHANGED <<server, pipe, call, poll>>
       \/ Finish("failed") /\ UNCHANGED <<pipe, client>>
    /\ CallOnly

\* One request for every item that is not done.
Outstanding == {i \in Items : ~poll[i].done}

Request ==
    /\ call.pc = "round" /\ Quiescent
    /\ IF server.alive
       THEN /\ server' = [server EXCEPT !.asked =
                   @ \cup {<<NextId(i), <<calls, i>>>> : i \in Outstanding}]
            /\ call' = [call EXCEPT !.pc = "await",
                                    !.waiting = {<<NextId(i), i>> : i \in Outstanding}]
            /\ UNCHANGED poll
       ELSE Finish("failed")
    /\ UNCHANGED <<pipe, client>> /\ CallOnly

\* What an answer does to its item.
Record(p, of, value) ==
    [p EXCEPT !.of = of, !.value = value, !.retries = 0,
              !.polls = IF p.polls > 0 /\ p.value = value
                        THEN (IF @ < Stable THEN @ + 1 ELSE @) ELSE 1,
              !.since = IF value < call.minimum THEN "never"
                        ELSE IF @ = "never" THEN "now" ELSE @]

SkipRound(left) ==
    /\ call' = [call EXCEPT !.waiting = left, !.pc = IF left = {} THEN "judge" ELSE "await"]
    /\ UNCHANGED <<server, client>>

\* A single request is asked again when its content was modified; an item of
\* a batch waits for the next round.
AskAgain(i) ==
    LET id == <<calls, call.attempt, i, poll[i].retries + 1>>
    IN  /\ call' = [call EXCEPT !.waiting = {<<id, i>>}]
        /\ server' = [server EXCEPT !.asked = @ \cup (IF server.alive THEN {<<id, <<calls, i>>>>}
                                                     ELSE {})]
        /\ UNCHANGED client

\* A message whose id is awaited is taken for its response, a request of the
\* server with that number too: it holds no result, which is null.
Receive ==
    /\ call.pc = "await" /\ pipe # <<>>
    /\ pipe' = Tail(pipe)
    /\ LET m == Head(pipe)
           mine == {w \in call.waiting : w[1] = m.id /\ m.kind \in {"ask", "answer", "modified"}}
           left == call.waiting \ mine
       IN  IF mine = {} THEN Hear(m)
           ELSE \E w \in mine :
                  IF m.kind = "modified" /\ poll[w[2]].retries = Retries
                  THEN Finish("failed") /\ UNCHANGED client
                  ELSE IF m.kind = "modified"
                  THEN /\ poll' = [poll EXCEPT ![w[2]].retries = @ + 1]
                       /\ IF call.kind = "rename" THEN AskAgain(w[2]) ELSE SkipRound(left)
                  ELSE /\ poll' = [poll EXCEPT ![w[2]] = Record(@, m.of, m.value)]
                       /\ SkipRound(left)
    /\ CallOnly

\* recv_timeout, on a slow server or a closed channel.
ReceiveWaits ==
    /\ call.pc = "await" /\ Disconnected
    /\ Finish("failed") /\ UNCHANGED <<pipe, client>> /\ CallOnly
ReceiveTimesOut ==
    /\ call.pc = "await" /\ pipe = <<>>
    /\ Finish("failed") /\ UNCHANGED <<pipe, client>> /\ CallOnly

Inactive(i) == IF SawProgress THEN ~client.active ELSE poll[i].since = "graced"
ProgressReady(i) == IF SawProgress THEN Settled ELSE poll[i].since = "graced"
Believed(i) ==
    /\ poll[i].polls >= Stable /\ poll[i].since # "never" /\ ProgressReady(i)

Judge ==
    /\ call.pc = "judge"
    /\ LET judged == [i \in Items |-> [poll[i] EXCEPT !.done = @ \/ Believed(i)]]
       IN  IF \A i \in Items : judged[i].done
           THEN IF call.kind = "batch" THEN FinishWith("ok", judged)
                ELSE /\ call' = [call EXCEPT !.pc = "rename"] /\ poll' = judged
                     /\ UNCHANGED server
           ELSE IF call.attempt = Attempts THEN Finish("failed")
           ELSE call' = [call EXCEPT !.pc = "sleep"] /\ poll' = judged /\ UNCHANGED server
    /\ UNCHANGED <<pipe, client>> /\ CallOnly

\* A quarter of a second.  The grace of two seconds passes in such waits, and
\* by then clangd has begun to report an index that is still running.
GraceHolds == server.index = "done" \/ server.announced = "begun"
SleepBetweenPolls ==
    /\ call.pc = "sleep"
    /\ \E graced \in {{}} \cup (IF GraceHolds THEN {{i \in Items : poll[i].since = "now"}}
                               ELSE {}) :
          poll' = [i \in Items |-> IF i \in graced THEN [poll[i] EXCEPT !.since = "graced"]
                                   ELSE poll[i]]
    /\ client' = [client EXCEPT !.ended = IF @ = "now" THEN "before" ELSE @]
    /\ call' = [call EXCEPT !.pc = "round", !.attempt = @ + 1]
    /\ UNCHANGED <<server, pipe>> /\ CallOnly

\* The rename itself is asked once the references are believed.
Rename ==
    /\ call.pc = "rename"
    /\ \E outcome \in (IF server.alive THEN {"ok"} ELSE {}) \cup {"failed"} : Finish(outcome)
    /\ UNCHANGED <<pipe, client>> /\ CallOnly

CallStep ==
    \/ OpenDocument \/ AwaitDocument \/ AwaitQuiescence \/ Request \/ Receive
    \/ ReceiveTimesOut \/ Judge \/ SleepBetweenPolls \/ Rename \/ Return

ServerStep ==
    \/ StartIndexing \/ BeginProgress \/ FinishIndexing \/ ServerAsks \/ Reply
    \/ ReaderFails \/ ServerDies

LspRest == call.pc = "idle" /\ UNCHANGED lspVars

LspNext == StartCall \/ CallStep \/ ServerStep \/ WorkspaceMoves \/ LspRest

\* Nothing is assumed of the server: every wait of the client has a deadline.
LspSpec == LspInit /\ [][LspNext]_lspVars /\ WF_lspVars(CallStep)

-----------------------------------------------------------------------------
(* Properties                                                              *)

Answered == call.pc = "answered"

\* An item whose last answer was a request of the server that had its number.
Collided(i) == poll[i].of = NoId

\* A reference list is taken over only when it was computed from the whole
\* background index, although the client never learns more than answers,
\* progress reports and the time they took ("refusing incomplete result"):
\* not while indexing runs, not from rounds before it began to be reported,
\* and not in the moment it ended.  Excepted are an item that was answered
\* last that its content is being modified, and in a call that asks for no
\* minimum one that collided.
AcceptedIsComplete ==
    Answered => \A i \in Items :
      \/ poll[i].value = Full \/ poll[i].retries > 0
      \/ call.minimum = Null /\ Collided(i)

\* "Every result still has to remain stable until the same background-index
\* quiescence rule used by single requests is satisfied" (lsp.rs,
\* references_batch): that holds as well for an item whose answer of the last
\* round was that the content is being modified.
StableToTheEnd ==
    Answered => \A i \in Items :
      \/ poll[i].value = Full
      \/ call.minimum = Null /\ Collided(i)

\* The same of an item that collided.
NoneIsComplete ==
    Answered => \A i \in Items : poll[i].value = Full \/ poll[i].retries > 0

\* What an item was answered is the server's answer to a request this call
\* made for this item, whatever earlier calls abandoned and whatever numbers
\* the server gives its own requests: such a request is taken for an answer,
\* but for one of no reference.
AnswersAreForTheirRequests ==
    \A i \in Items : poll[i].polls > 0 =>
      \/ poll[i].of = <<calls, i>>
      \/ Collided(i) /\ poll[i].value = Null

\* A batch that came to ask leaves no document open in the server it shares
\* with later calls.
BatchClosesItsDocuments ==
    call.pc \in {"answered", "refused"} /\ call.kind = "batch" /\ Asked /\ server.alive
        => ~server.open

\* A call neither takes what an earlier one left behind nor leaves its own.
CallsAreSeparate == AnswersAreForTheirRequests /\ BatchClosesItsDocuments

\* Every call ends, with a server that never answers, never stops indexing or
\* is gone.
CallEnds == call.pc = "open" ~> call.pc \in {"answered", "refused"}
=============================================================================
