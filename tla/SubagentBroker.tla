--------------------------- MODULE SubagentBroker ---------------------------
(***************************************************************************)
(* The message broker of pi-subagents: the loopback server through which   *)
(* the main agent and its child agents exchange requests and responses.    *)
(*                                                                         *)
(* Source: packages/pi-subagents/src/message-broker.ts, and the child's    *)
(* client in child-communication-bridge.ts.                                *)
(*                                                                         *)
(* The server runs on one Node.js thread, so a handler that does not await *)
(* is one step.  What interleaves is everything between handlers: frames   *)
(* of several connections, the flush callback of a response, the client    *)
(* that gives up while its answer is on the way, the close of a socket,    *)
(* the timers, and the calls the runtime makes for the main agent.         *)
(***************************************************************************)
EXTENDS Naturals, FiniteSets

CONSTANTS
    Jobs,            \* job identities; the runtime never reuses one
    Conns,           \* connection slots; a slot is reused after its close
    MainWaits,       \* calls of subagent_wait made by the main agent
    Replies,         \* response texts, told apart only by identity
    NoConn,          \* request.waiter === undefined
    NoReply,         \* request.response === undefined
    MaxOutstanding,  \* MAX_OUTSTANDING_REQUESTS
    MaxRetained,     \* MAX_RETAINED_CONSUMED_REQUESTS
    MaxConnections,  \* MAX_CONNECTIONS
    MaxRequests,     \* bound of the model: requests ever accepted
    MaxClock         \* bound of the model: distinct values of now()

ASSUME BrokerAssumption ==
    /\ Jobs # {}
    /\ NoConn \notin Conns
    /\ NoReply \notin Replies
    /\ MaxOutstanding \in Nat \ {0}
    /\ MaxRetained \in Nat
    /\ MaxConnections \in Nat
    /\ MaxRequests \in Nat
    /\ MaxClock \in Nat \ {0}

VARIABLES
    service,   \* server, address, failure and starting, as one lifecycle
    jobState,  \* tokenByJob / jobsByToken: a token is issued, then revoked
    nextId,    \* the next request identity; ids follow the Map's insertion order
    live,      \* keys of the requests Map
    req,       \* the records; the record of a deleted request stays as history
    clock,     \* now(), in the milliseconds that consumedAt is compared in
    conn,      \* one record per connection, its server end and its client
    pendingInboundResponse,  \* a response arrived while no main wait listened
    listeners, \* inboundMessageListeners: main waits that are suspended
    received   \* history: the response text each child request got back

vars == <<service, jobState, nextId, live, req, clock, conn,
          pendingInboundResponse, listeners, received>>

-----------------------------------------------------------------------------

ReqIds == 1..MaxRequests

\* 0 stands for "no request" wherever a request identity is optional.
OptionalId == 0..MaxRequests

(***************************************************************************)
(* RequestRecord.  expectedResponder is the other side of origin, and the  *)
(* generation is that of the job, whose identity is never reused.          *)
(***************************************************************************)
Request == [job : Jobs,
            origin : {"main", "child"},
            response : Replies \cup {NoReply},
            consumedAt : 0..MaxClock,      \* 0 is undefined
            queued : BOOLEAN,              \* deliveryQueued
            waiter : Conns \cup {NoConn}]

(***************************************************************************)
(* A connection carries one frame of a child: a new request, the reply to  *)
(* a main request, or a wait.                                              *)
(*   open      accepted, frame not handled yet                             *)
(*   parked    a wait registered as the waiter of its request              *)
(*   answered  the server called socket.end, or found the socket destroyed *)
(* client is the child's end: it waits for the answer, or is gone because  *)
(* it got it, was aborted, or timed out.  flush is the request that the    *)
(* callback of socket.end will mark consumed.                              *)
(***************************************************************************)
Connection == [st : {"closed", "open", "parked", "answered"},
               job : Jobs,
               op : {"request", "reply", "wait"},
               id : OptionalId,
               timed : BOOLEAN,
               client : {"waiting", "gone"},
               reply : Replies \cup {NoReply},
               flush : OptionalId]

TypeOK ==
    /\ service \in {"down", "starting", "superseded", "ready", "failed"}
    /\ jobState \in [Jobs -> {"new", "active", "revoked"}]
    /\ nextId \in 1..(MaxRequests + 1)
    /\ live \in SUBSET ReqIds
    /\ req \in [ReqIds -> Request]
    /\ clock \in 1..MaxClock
    /\ conn \in [Conns -> Connection]
    /\ pendingInboundResponse \in BOOLEAN
    /\ listeners \in SUBSET MainWaits
    /\ received \in [ReqIds -> Replies \cup {NoReply}]

\* Any job: the field of a record that is not in use.
SomeJob == CHOOSE j \in Jobs : TRUE

BlankRequest == [job |-> SomeJob, origin |-> "main", response |-> NoReply,
                 consumedAt |-> 0, queued |-> FALSE, waiter |-> NoConn]

Closed == [st |-> "closed", job |-> SomeJob, op |-> "request", id |-> 0,
           timed |-> FALSE, client |-> "gone", reply |-> NoReply, flush |-> 0]

Init ==
    /\ service = "down"
    /\ jobState = [j \in Jobs |-> "new"]
    /\ nextId = 1
    /\ live = {}
    /\ req = [r \in ReqIds |-> BlankRequest]
    /\ clock = 1
    /\ conn = [c \in Conns |-> Closed]
    /\ pendingInboundResponse = FALSE
    /\ listeners = {}
    /\ received = [r \in ReqIds |-> NoReply]

-----------------------------------------------------------------------------
(***************************************************************************)
(* Questions the handlers ask of the requests Map.                         *)
(***************************************************************************)
Answered(r) == req[r].response # NoReply

Consumed(r) == req[r].consumedAt # 0

RequestsOf(j) == {r \in live : req[r].job = j}

Outstanding(j) == {r \in RequestsOf(j) : ~Consumed(r)}

OpenConns == {c \in Conns : conn[c].st # "closed"}

\* hasPendingMainRequest: some child waits for an answer of the main agent.
HasPendingMainRequest ==
    \E r \in live : req[r].origin = "child" /\ ~Answered(r)

\* hasQueuedRequestForChild: a steering message is in the child's queue.
HasQueuedRequestForChild(j) ==
    \E r \in RequestsOf(j) : /\ req[r].origin = "main"
                             /\ req[r].queued
                             /\ ~Answered(r)

(***************************************************************************)
(* markConsumed, for a request still in the Map.  The consumed requests of *)
(* the job are sorted by consumedAt, and by insertion where the clock did  *)
(* not advance; all but the last MaxRetained are deleted.                  *)
(***************************************************************************)
Stamped(f, r) ==
    [f EXCEPT ![r].consumedAt = IF @ = 0 THEN clock ELSE @]

Later(f, x, y) ==
    \/ f[x].consumedAt > f[y].consumedAt
    \/ f[x].consumedAt = f[y].consumedAt /\ x > y

\* Mutant: one request more is kept.
EvictedLate(f, j) ==
    LET consumed == {r \in live : f[r].job = j /\ f[r].consumedAt # 0}
    IN  {y \in consumed :
            Cardinality({x \in consumed : Later(f, x, y)}) > MaxRetained}

Evicted(f, j) ==
    LET consumed == {r \in live : f[r].job = j /\ f[r].consumedAt # 0}
    IN  {y \in consumed :
            Cardinality({x \in consumed : Later(f, x, y)}) >= MaxRetained}

\* f is the Map before the call: acceptResponse has just set a response in it.
MarkConsumed(f, r) ==
    /\ req' = Stamped(f, r)
    /\ live' = live \ Evicted(Stamped(f, r), f[r].job)

(***************************************************************************)
(* respond / respondError: socket.end with one frame.  If the socket is    *)
(* already destroyed nothing is written and the flush callback is lost.    *)
(***************************************************************************)
Respond(k, m, r) == [k EXCEPT !.st = "answered", !.reply = m, !.flush = r]

\* An acknowledgement or an error, which nothing here tells apart.
AnswerPlain(k) == Respond(k, NoReply, 0)

\* The identities flush may take when k is answered with a callback for r.
FlushOf(k, r) == {r} \cup (IF k.client = "gone" THEN {0} ELSE {})

\* The connections of S answered with an error.
Refused(S) ==
    [c \in Conns |-> IF c \in S THEN AnswerPlain(conn[c]) ELSE conn[c]]

-----------------------------------------------------------------------------
(***************************************************************************)
(* The server's lifecycle.                                                 *)
(***************************************************************************)
\* start(), up to the call of listen.
Start ==
    /\ service \in {"down", "failed"}
    /\ service' = "starting"
    /\ UNCHANGED <<jobState, nextId, live, req, clock, conn,
                   pendingInboundResponse, listeners, received>>

\* The listen callback of a start that no shutdown superseded, or its error.
StartSettles ==
    /\ service = "starting"
    /\ service' \in {"ready", "failed"}
    /\ UNCHANGED <<jobState, nextId, live, req, clock, conn,
                   pendingInboundResponse, listeners, received>>

RevocableRequests(S) == {r \in live : req[r].job \in S}

\* revokeJob for the jobs of S: the tokens and the requests go together.
Revoke(S) ==
    LET dropped == RevocableRequests(S)
    IN  /\ jobState' = [j \in Jobs |-> IF j \in S THEN "revoked" ELSE jobState[j]]
        /\ live' = live \ dropped
        /\ req' = [r \in ReqIds |-> IF r \in dropped
                                    THEN [req[r] EXCEPT !.waiter = NoConn]
                                    ELSE req[r]]

ActiveJobs == {j \in Jobs : jobState[j] = "active"}

\* Every job revoked and every socket destroyed; the clients see the close.
DropEverything ==
    /\ Revoke(ActiveJobs)
    /\ conn' = [c \in Conns |-> Closed]

(***************************************************************************)
(* shutdown() of a broker that is not starting, and the rest of a shutdown *)
(* that had to wait for a start in progress, which it superseded.          *)
(***************************************************************************)
Purge ==
    /\ service' = "down"
    /\ DropEverything
    /\ listeners' = {}
    /\ pendingInboundResponse' = FALSE
    /\ UNCHANGED <<nextId, clock, received>>

Shutdown ==
    \/ service \in {"ready", "failed"} /\ Purge
    \/ /\ service = "starting"
       /\ service' = "superseded"
       /\ UNCHANGED <<jobState, nextId, live, req, clock, conn,
                      pendingInboundResponse, listeners, received>>

ShutdownFinishes == service = "superseded" /\ Purge

\* fail(): the server reported an error after it was listening.
Fail ==
    /\ service = "ready"
    /\ service' = "failed"
    /\ DropEverything
    /\ UNCHANGED <<nextId, clock, pendingInboundResponse, listeners, received>>

Tick ==
    /\ clock < MaxClock
    /\ clock' = clock + 1
    /\ UNCHANGED <<service, jobState, nextId, live, req, conn,
                   pendingInboundResponse, listeners, received>>

-----------------------------------------------------------------------------
(***************************************************************************)
(* Calls of the runtime, for the main agent.                               *)
(***************************************************************************)
IssueCredentials(j) ==
    /\ service = "ready"
    /\ jobState[j] = "new"
    /\ jobState' = [jobState EXCEPT ![j] = "active"]
    /\ UNCHANGED <<service, nextId, live, req, clock, conn,
                   pendingInboundResponse, listeners, received>>

\* The long polls suspended on a request of the jobs of S.
Waiters(S) == {c \in Conns : \E r \in RevocableRequests(S) : req[r].waiter = c}

\* revokeJob for one job, which ends or is stopped, or for all that a session
\* shutdown stops in one turn.
RevokeJobs(S) ==
    /\ S # {}
    /\ S \subseteq ActiveJobs
    /\ Revoke(S)
    /\ conn' = Refused(Waiters(S))
    /\ UNCHANGED <<service, nextId, clock, pendingInboundResponse, listeners,
                   received>>

\* createRequest, once the outstanding requests of the job leave room for it.
CreateRequest(j, origin) ==
    /\ nextId <= MaxRequests
    /\ Cardinality(Outstanding(j)) < MaxOutstanding
    /\ nextId' = nextId + 1
    /\ live' = live \cup {nextId}
    /\ req' = [req EXCEPT ![nextId] =
                 [BlankRequest EXCEPT !.job = j, !.origin = origin]]

CreateMainRequest(j) ==
    /\ service = "ready"
    /\ jobState[j] = "active"
    /\ CreateRequest(j, "main")
    /\ UNCHANGED <<service, jobState, clock, conn, pendingInboundResponse,
                   listeners, received>>

\* Mutant: the origin of the request is not looked at.
UnansweredAnyOrigin(r) == r \in live /\ ~Answered(r)

CanRollBack(r) == r \in live /\ req[r].origin = "main" /\ ~Answered(r)

RollbackMainRequest(r) ==
    /\ CanRollBack(r)
    /\ live' = live \ {r}
    /\ req' = [req EXCEPT ![r].waiter = NoConn]
    /\ UNCHANGED <<service, jobState, nextId, clock, conn,
                   pendingInboundResponse, listeners, received>>

\* Mutant: only the waits with a timer are interrupted.
InterruptedTimed(j) ==
    {c \in Conns : conn[c].timed /\ \E r \in RequestsOf(j) : req[r].waiter = c}

\* The waits that interruptChildWaits answers.
Interrupted(j) ==
    {c \in Conns : \E r \in RequestsOf(j) : /\ req[r].origin = "child"
                                            /\ req[r].waiter = c}

(***************************************************************************)
(* The steering message of r was accepted by the child's Pi process:       *)
(* markMainRequestQueued, then interruptChildWaits unless the child has    *)
(* answered already.  The runtime makes both calls in one step.            *)
(***************************************************************************)
MarkMainRequestQueued(r) ==
    LET j == req[r].job
        interrupted == IF Answered(r) THEN {} ELSE Interrupted(j)
    IN  /\ r \in live
        /\ req[r].origin = "main"
        /\ req' = [x \in ReqIds |->
                     IF x = r THEN [req[x] EXCEPT !.queued = TRUE]
                     ELSE IF x \in RequestsOf(j) /\ req[x].waiter \in interrupted
                          THEN [req[x] EXCEPT !.waiter = NoConn]
                          ELSE req[x]]
        /\ conn' = Refused(interrupted)
        /\ UNCHANGED <<service, jobState, nextId, live, clock,
                       pendingInboundResponse, listeners, received>>

AwaitsMain(r) == r \in live /\ req[r].origin = "child" /\ ~Answered(r)

(***************************************************************************)
(* replyFromMain: the first response to r.  A parked wait is answered with *)
(* it at once; the request counts as consumed when that answer is flushed. *)
(***************************************************************************)
ReplyFromMain(r, m) ==
    LET c == req[r].waiter
    IN  /\ service = "ready"
        /\ AwaitsMain(r)
        /\ req' = [req EXCEPT ![r].response = m, ![r].waiter = NoConn]
        /\ IF c = NoConn
           THEN UNCHANGED conn
           ELSE \E f \in FlushOf(conn[c], r) :
                   conn' = [conn EXCEPT ![c] = Respond(@, m, f)]
        /\ UNCHANGED <<service, jobState, nextId, live, clock,
                       pendingInboundResponse, listeners, received>>

(***************************************************************************)
(* subagent_wait of the main agent: it returns at once if a child's answer *)
(* is pending or a child waits for one, and listens otherwise.             *)
(***************************************************************************)
BeginMainWait(w) ==
    /\ w \notin listeners
    /\ pendingInboundResponse' = FALSE
    /\ listeners' = IF pendingInboundResponse \/ HasPendingMainRequest
                    THEN listeners ELSE listeners \cup {w}
    /\ UNCHANGED <<service, jobState, nextId, live, req, clock, conn, received>>

\* The wait timed out, was aborted, or its job became terminal.
EndMainWait(w) ==
    /\ w \in listeners
    /\ listeners' = listeners \ {w}
    /\ UNCHANGED <<service, jobState, nextId, live, req, clock, conn,
                   pendingInboundResponse, received>>

\* Mutant: a request of a child does not wake the main agent's waits.
DeliverOnlyResponses(kind) ==
    /\ pendingInboundResponse' =
          (pendingInboundResponse \/ (kind = "response" /\ listeners = {}))
    /\ listeners' = IF kind = "response" THEN {} ELSE listeners

\* deliverInbound, when onMessage did not throw: every main wait returns.
DeliverInbound(kind) ==
    /\ pendingInboundResponse' =
          (pendingInboundResponse \/ (kind = "response" /\ listeners = {}))
    /\ listeners' = {}

-----------------------------------------------------------------------------
(***************************************************************************)
(* Connections of the children.                                            *)
(***************************************************************************)
\* The client connects with its frame ready, and the server accepts it.
Connect(c, j, op, r, timed) ==
    /\ service = "ready"
    /\ Cardinality(OpenConns) < MaxConnections
    /\ conn[c].st = "closed"
    /\ jobState[j] # "new"
    /\ op = "request" <=> r = 0
    /\ r < nextId
    /\ timed => op = "wait"
    /\ conn' = [conn EXCEPT ![c] =
                  [Closed EXCEPT !.st = "open", !.job = j, !.op = op, !.id = r,
                                 !.timed = timed, !.client = "waiting"]]
    /\ UNCHANGED <<service, jobState, nextId, live, req, clock,
                   pendingInboundResponse, listeners, received>>

\* handleFrame reaches handleSend or handleWait: the token is still known.
Authenticated(c, op) ==
    /\ conn[c].st = "open"
    /\ conn[c].op = op
    /\ jobState[conn[c].job] = "active"

(***************************************************************************)
(* A frame that is answered and changes nothing else: its token was        *)
(* revoked, the job has too many outstanding requests, the delivery to the *)
(* main agent threw (the request or the response is then taken back), the  *)
(* request is unknown or has its response already, or a wait must give way *)
(* to a queued steering message or to another wait.                        *)
(***************************************************************************)
\* Mutant: a second wait replaces the first one.
WaitReplaced(c) ==
    LET r == conn[c].id
    IN  \/ r \notin RequestsOf(conn[c].job)
        \/ req[r].origin # "child"
        \/ ~Answered(r) /\ HasQueuedRequestForChild(conn[c].job)

WaitRefused(c) ==
    LET r == conn[c].id
    IN  \/ r \notin RequestsOf(conn[c].job)
        \/ req[r].origin # "child"
        \/ /\ ~Answered(r)
           /\ \/ HasQueuedRequestForChild(conn[c].job)
              \/ req[r].waiter # NoConn

RejectFrame(c) ==
    /\ conn[c].st = "open"
    /\ conn[c].op = "wait" /\ jobState[conn[c].job] = "active" => WaitRefused(c)
    /\ conn' = [conn EXCEPT ![c] = AnswerPlain(@)]
    /\ UNCHANGED <<service, jobState, nextId, live, req, clock,
                   pendingInboundResponse, listeners, received>>

FrameTimesOut(c) ==
    /\ conn[c].st = "open"
    /\ conn' = [conn EXCEPT ![c] = AnswerPlain(@)]
    /\ UNCHANGED <<service, jobState, nextId, live, req, clock,
                   pendingInboundResponse, listeners, received>>

\* handleSend with recipient "main".
ChildRequest(c) ==
    /\ Authenticated(c, "request")
    /\ CreateRequest(conn[c].job, "child")
    /\ DeliverInbound("request")
    /\ conn' = [conn EXCEPT ![c] = AnswerPlain(@)]
    /\ UNCHANGED <<service, jobState, clock, received>>

\* handleSend with a requestId: the first response to a main request.
ChildReply(c, m) ==
    LET r == conn[c].id
    IN  /\ Authenticated(c, "reply")
        /\ r \in RequestsOf(conn[c].job)
        /\ req[r].origin = "main"
        /\ ~Answered(r)
        /\ MarkConsumed([req EXCEPT ![r].response = m], r)
        /\ DeliverInbound("response")
        /\ conn' = [conn EXCEPT ![c] = AnswerPlain(@)]
        /\ UNCHANGED <<service, jobState, nextId, clock, received>>

\* handleWait for a response that is there: a replay once it was consumed.
ChildWaitAnswered(c) ==
    LET r == conn[c].id
    IN  /\ Authenticated(c, "wait")
        /\ r \in RequestsOf(conn[c].job)
        /\ req[r].origin = "child"
        /\ Answered(r)
        /\ \E f \in IF Consumed(r) THEN {0} ELSE FlushOf(conn[c], r) :
              conn' = [conn EXCEPT ![c] = Respond(@, req[r].response, f)]
        /\ UNCHANGED <<service, jobState, nextId, live, req, clock,
                       pendingInboundResponse, listeners, received>>

\* handleWait for a response still to come: the socket becomes the waiter.
ChildWaitParks(c) ==
    LET r == conn[c].id
    IN  /\ Authenticated(c, "wait")
        /\ ~WaitRefused(c)
        /\ ~Answered(r)
        /\ req' = [req EXCEPT ![r].waiter = c]
        /\ conn' = [conn EXCEPT ![c].st = "parked"]
        /\ UNCHANGED <<service, jobState, nextId, live, clock,
                       pendingInboundResponse, listeners, received>>

\* The timer of a parked wait; it checks that it is still the waiter.
WaitTimesOut(c) ==
    LET r == conn[c].id
    IN  /\ conn[c].timed
        /\ r \in ReqIds
        /\ req[r].waiter = c
        /\ req' = [req EXCEPT ![r].waiter = NoConn]
        /\ conn' = [conn EXCEPT ![c] = AnswerPlain(@)]
        /\ UNCHANGED <<service, jobState, nextId, live, clock,
                       pendingInboundResponse, listeners, received>>

\* The callback of socket.end: called on flush, and on the socket's error.
Flushed(c) ==
    LET r == conn[c].flush
    IN  /\ conn[c].flush # 0
        /\ IF r \in live THEN MarkConsumed(req, r) ELSE UNCHANGED <<live, req>>
        /\ conn' = [conn EXCEPT ![c].flush = 0]
        /\ UNCHANGED <<service, jobState, nextId, clock,
                       pendingInboundResponse, listeners, received>>

\* The child's client gets the answer and destroys its socket.
ClientReceives(c) ==
    /\ conn[c].st = "answered"
    /\ conn[c].client = "waiting"
    /\ received' = IF conn[c].reply = NoReply THEN received
                   ELSE [received EXCEPT ![conn[c].id] = conn[c].reply]
    /\ conn' = [conn EXCEPT ![c].client = "gone"]
    /\ UNCHANGED <<service, jobState, nextId, live, req, clock,
                   pendingInboundResponse, listeners>>

\* The tool call is aborted, or the client's own timer fires.
ClientGivesUp(c) ==
    /\ conn[c].st # "closed"
    /\ conn[c].client = "waiting"
    /\ conn' = [conn EXCEPT ![c].client = "gone"]
    /\ UNCHANGED <<service, jobState, nextId, live, req, clock,
                   pendingInboundResponse, listeners, received>>

\* cleanup, on the close or the error of the server's socket.
SocketCloses(c) ==
    /\ conn[c].st # "closed"
    /\ conn[c].client = "gone"
    /\ conn[c].flush = 0
    /\ conn' = [conn EXCEPT ![c] = Closed]
    /\ req' = [r \in ReqIds |-> IF r \in live /\ req[r].waiter = c
                                THEN [req[r] EXCEPT !.waiter = NoConn]
                                ELSE req[r]]
    /\ UNCHANGED <<service, jobState, nextId, live, clock,
                   pendingInboundResponse, listeners, received>>

-----------------------------------------------------------------------------
ServerStep == Start \/ StartSettles \/ Shutdown \/ ShutdownFinishes \/ Fail \/ Tick

MainStep ==
    \/ \E j \in Jobs : IssueCredentials(j) \/ CreateMainRequest(j)
    \/ \E S \in SUBSET Jobs : RevokeJobs(S)
    \/ \E r \in ReqIds : RollbackMainRequest(r) \/ MarkMainRequestQueued(r)
    \/ \E r \in ReqIds, m \in Replies : ReplyFromMain(r, m)
    \/ \E w \in MainWaits : BeginMainWait(w) \/ EndMainWait(w)

HandlesFrame(c) ==
    \/ RejectFrame(c) \/ FrameTimesOut(c) \/ ChildRequest(c)
    \/ \E m \in Replies : ChildReply(c, m)
    \/ ChildWaitAnswered(c) \/ ChildWaitParks(c)

ConnStep(c) ==
    \/ \E j \in Jobs, op \in {"request", "reply", "wait"}, r \in OptionalId,
          timed \in BOOLEAN : Connect(c, j, op, r, timed)
    \/ HandlesFrame(c)
    \/ WaitTimesOut(c) \/ Flushed(c)
    \/ ClientReceives(c) \/ ClientGivesUp(c) \/ SocketCloses(c)

Next == ServerStep \/ MainStep \/ \E c \in Conns : ConnStep(c)

Spec == Init /\ [][Next]_vars

-----------------------------------------------------------------------------
(***************************************************************************)
(* Safety.                                                                 *)
(***************************************************************************)
Parked == {c \in Conns : conn[c].st = "parked"}

(***************************************************************************)
(* The waiter field of a request and the suspended long poll of a child    *)
(* name each other: no poll is left hanging on a request that was          *)
(* answered, deleted or taken by another poll, and no request believes in  *)
(* a waiter that is gone.  Waiters are cleared in seven handlers.          *)
(***************************************************************************)
WaitersAreParked ==
    /\ \A c \in Parked : /\ conn[c].id \in RequestsOf(conn[c].job)
                         /\ req[conn[c].id].waiter = c
    /\ \A r \in live : req[r].waiter # NoConn =>
          /\ req[r].origin = "child"
          /\ ~Answered(r)
          /\ req[r].waiter \in Parked
          /\ conn[req[r].waiter].id = r

(***************************************************************************)
(* A child never sits in a wait while a steering message of the main agent *)
(* is queued for it: its model could not read the message before the wait  *)
(* returns, and the main agent may be waiting for the answer.              *)
(***************************************************************************)
NoWaitBehindSteering ==
    \A j \in Jobs : HasQueuedRequestForChild(j) =>
        \A c \in Parked : conn[c].job # j

(***************************************************************************)
(* The main agent and a child never wait for each other: while a main wait *)
(* is suspended, no child is suspended on a response of the main agent.    *)
(***************************************************************************)
NoMutualWait == listeners # {} => Parked = {}

(***************************************************************************)
(* The bounds on what one job may hold in the broker survive every order   *)
(* of sends, replies, flushes and evictions.                               *)
(***************************************************************************)
RequestsBounded ==
    \A j \in Jobs :
        /\ Cardinality(Outstanding(j)) <= MaxOutstanding
        /\ Cardinality({r \in RequestsOf(j) : Consumed(r)}) <= MaxRetained

(***************************************************************************)
(* Revoking a job leaves nothing of it: no request in the Map and no       *)
(* suspended wait, whatever frames and callbacks arrive late.              *)
(***************************************************************************)
RevokedJobsHoldNothing ==
    /\ \A r \in live : jobState[req[r].job] = "active"
    /\ \A c \in Parked : jobState[conn[c].job] = "active"

(***************************************************************************)
(* What a job may hold: a bounded number of requests while it is active,   *)
(* and nothing afterwards.                                                 *)
(***************************************************************************)
HoldingsAreBounded == RequestsBounded /\ RevokedJobsHoldNothing

(***************************************************************************)
(* What a child reads as the response to its request is the response the   *)
(* broker accepted for that request, also on a replay.                     *)
(***************************************************************************)
ReceivedReplyWasAccepted ==
    \A r \in ReqIds : received[r] # NoReply => received[r] = req[r].response

(***************************************************************************)
(* The first accepted response wins: no later reply, replay or eviction    *)
(* changes the response of a request that has one.                         *)
(***************************************************************************)
FirstResponseWins ==
    [][\A r \in ReqIds : Answered(r) => req'[r].response = req[r].response]_vars

(***************************************************************************)
(* A timeout, an abort or an interruption ends only the wait: an           *)
(* unanswered request of a child leaves the Map only when its job is       *)
(* revoked.                                                                *)
(***************************************************************************)
OnlyRevocationCancelsChildRequests ==
    [][\A r \in live : req[r].origin = "child" /\ ~Answered(r) /\ r \notin live'
          => jobState'[req[r].job] = "revoked"]_vars

(***************************************************************************)
(* What was said stays said: an accepted response is final, and a request  *)
(* of a child is not lost before it has one.                               *)
(***************************************************************************)
ResponsesAreFinal == FirstResponseWins /\ OnlyRevocationCancelsChildRequests

-----------------------------------------------------------------------------
(***************************************************************************)
(* The inductive invariant behind the safety properties.                   *)
(***************************************************************************)
\* Identities are given out once: nothing refers to the next one yet.
FreshIds ==
    \A r \in ReqIds : r >= nextId => r \notin live /\ ~Answered(r)

\* clearWaiter runs before every deletion of a request that has a waiter.
OnlyLiveRequestsHaveWaiters ==
    \A r \in ReqIds : req[r].waiter # NoConn => r \in live

ConsumedWereAnswered == \A r \in ReqIds : Consumed(r) => Answered(r)

FlushesFollowResponses ==
    \A c \in Conns : conn[c].flush # 0 => Answered(conn[c].flush)

\* A main wait is suspended only while no child awaits the main agent.
ListenersAwaitNothing == listeners # {} => ~HasPendingMainRequest

\* What is on its way to a child is the response its request has.
SentReplyWasAccepted ==
    \A c \in Conns : conn[c].reply # NoReply =>
        /\ conn[c].id \in ReqIds
        /\ conn[c].reply = req[conn[c].id].response

IInv ==
    /\ TypeOK
    /\ FreshIds
    /\ OnlyLiveRequestsHaveWaiters
    /\ ConsumedWereAnswered
    /\ FlushesFollowResponses
    /\ ListenersAwaitNothing
    /\ SentReplyWasAccepted
    /\ ReceivedReplyWasAccepted
    /\ WaitersAreParked
    /\ NoWaitBehindSteering
    /\ RevokedJobsHoldNothing

=============================================================================
