----------------------- MODULE SubagentRuntime_proofs -----------------------
(***************************************************************************)
(* Proofs about SubagentBroker, for any jobs, connections, responses and   *)
(* limits, and about SubagentRuntime, which extends it, for any number of  *)
(* jobs, sends and sessions.  The broker's invariant is IInv.  The         *)
(* composition implements the broker's specification, so all that is       *)
(* proved of the broker holds of it; what is proved of the runtime rests   *)
(* on RuntimeIInv and SendsIInv.                                           *)
(***************************************************************************)
EXTENDS SubagentRuntime, FiniteSetTheorems, WellFoundedInduction, SequenceTheorems, TLAPS

\* The broker

(***************************************************************************)
(* The records stay well-typed under the helpers.                          *)
(***************************************************************************)
LEMMA BlankTypes == BlankRequest \in Request /\ Closed \in Connection
  <1>1. SomeJob \in Jobs
    BY BrokerAssumption DEF SomeJob
  <1>2. BlankRequest \in Request
    BY <1>1, BrokerAssumption DEF BlankRequest, Request
  <1>3. Closed \in Connection
    BY <1>1, BrokerAssumption DEF Closed, Connection, OptionalId
  <1> QED BY <1>2, <1>3

LEMMA RespondType ==
  ASSUME NEW k \in Connection, NEW m \in Replies \cup {NoReply},
         NEW r \in OptionalId
  PROVE  Respond(k, m, r) \in Connection
  BY DEF Respond, Connection

LEMMA PlainType ==
  ASSUME NEW k \in Connection
  PROVE  AnswerPlain(k) \in Connection
  BY RespondType, BrokerAssumption DEF AnswerPlain, OptionalId

LEMMA RespondFields ==
  ASSUME NEW k \in Connection, NEW m, NEW r
  PROVE  /\ Respond(k, m, r).st = "answered"
         /\ Respond(k, m, r).reply = m
         /\ Respond(k, m, r).flush = r
         /\ Respond(k, m, r).id = k.id
         /\ Respond(k, m, r).job = k.job
  BY DEF Respond, Connection

LEMMA PlainFields ==
  ASSUME NEW k \in Connection
  PROVE  /\ AnswerPlain(k).st = "answered"
         /\ AnswerPlain(k).reply = NoReply
         /\ AnswerPlain(k).flush = 0
         /\ AnswerPlain(k).id = k.id
         /\ AnswerPlain(k).job = k.job
  BY RespondFields DEF AnswerPlain

LEMMA ClearedFields ==
  ASSUME NEW q \in Request
  PROVE  LET p == [q EXCEPT !.waiter = NoConn]
         IN  /\ p.waiter = NoConn
             /\ p.response = q.response
             /\ p.consumedAt = q.consumedAt
             /\ p.job = q.job
             /\ p.origin = q.origin
             /\ p.queued = q.queued
  BY DEF Request

LEMMA QueuedFields ==
  ASSUME NEW q \in Request
  PROVE  LET p == [q EXCEPT !.queued = TRUE]
         IN  /\ p.waiter = q.waiter
             /\ p.response = q.response
             /\ p.consumedAt = q.consumedAt
             /\ p.job = q.job
             /\ p.origin = q.origin
  BY DEF Request

LEMMA FlushOfType ==
  ASSUME NEW k, NEW r \in ReqIds
  PROVE  FlushOf(k, r) \subseteq OptionalId
  <1>1. r \in OptionalId /\ 0 \in OptionalId
    BY BrokerAssumption DEF ReqIds, OptionalId
  <1> QED BY <1>1 DEF FlushOf

LEMMA RefusedType ==
  ASSUME TypeOK, NEW S
  PROVE  Refused(S) \in [Conns -> Connection]
  BY PlainType DEF Refused, TypeOK

LEMMA MarkConsumedType ==
  ASSUME NEW f \in [ReqIds -> Request], NEW r \in ReqIds, TypeOK,
         MarkConsumed(f, r)
  PROVE  req' \in [ReqIds -> Request] /\ live' \in SUBSET ReqIds
  <1> DEFINE stamp == IF f[r].consumedAt = 0 THEN clock ELSE f[r].consumedAt
  <1>1. stamp \in 0..MaxClock
    BY DEF TypeOK, Request
  <1>2. [f[r] EXCEPT !.consumedAt = stamp] \in Request
    BY <1>1 DEF Request
  <1>3. Stamped(f, r) = [f EXCEPT ![r] = [f[r] EXCEPT !.consumedAt = stamp]]
    BY DEF Stamped
  <1>4. Stamped(f, r) \in [ReqIds -> Request]
    BY <1>2, <1>3
  <1> QED BY <1>4 DEF MarkConsumed, TypeOK

LEMMA RevokeType ==
  ASSUME TypeOK, NEW S, Revoke(S)
  PROVE  /\ jobState' \in [Jobs -> {"new", "active", "revoked"}]
         /\ live' \in SUBSET ReqIds
         /\ req' \in [ReqIds -> Request]
  <1>1. \A r \in ReqIds : [req[r] EXCEPT !.waiter = NoConn] \in Request
    BY DEF TypeOK, Request
  <1> QED BY <1>1 DEF Revoke, TypeOK

(***************************************************************************)
(* Type correctness: every step keeps every variable in its set.           *)
(***************************************************************************)
LEMMA TypeInit == Init => TypeOK
  <1> SUFFICES ASSUME Init PROVE TypeOK
    OBVIOUS
  <1>1. /\ nextId \in 1..(MaxRequests + 1)
        /\ clock \in 1..MaxClock
    BY BrokerAssumption DEF Init
  <1>2. /\ req \in [ReqIds -> Request]
        /\ conn \in [Conns -> Connection]
    BY BlankTypes DEF Init
  <1> QED BY <1>1, <1>2 DEF Init, TypeOK

LEMMA TypeServer == TypeOK /\ ServerStep => TypeOK'
  <1> SUFFICES ASSUME TypeOK, ServerStep PROVE TypeOK'
    OBVIOUS
  <1>1. CASE Start BY <1>1 DEF Start, TypeOK
  <1>2. CASE StartSettles BY <1>2 DEF StartSettles, TypeOK
  <1>3. ASSUME Purge PROVE TypeOK'
    BY <1>3, BlankTypes, RevokeType DEF Purge, DropEverything, TypeOK
  <1>4. CASE Shutdown BY <1>3, <1>4 DEF Shutdown, TypeOK
  <1>5. CASE ShutdownFinishes BY <1>3, <1>5 DEF ShutdownFinishes
  <1>6. CASE Fail BY <1>6, BlankTypes, RevokeType DEF Fail, DropEverything, TypeOK
  <1>7. CASE Tick BY <1>7, BrokerAssumption DEF Tick, TypeOK
  <1> QED BY <1>1, <1>2, <1>4, <1>5, <1>6, <1>7 DEF ServerStep

LEMMA CreateType ==
  ASSUME TypeOK, NEW j \in Jobs, NEW origin \in {"main", "child"},
         CreateRequest(j, origin)
  PROVE  /\ nextId' \in 1..(MaxRequests + 1)
         /\ live' \in SUBSET ReqIds
         /\ req' \in [ReqIds -> Request]
  <1>1. nextId \in ReqIds
    BY BrokerAssumption DEF TypeOK, CreateRequest, ReqIds
  <1>2. [BlankRequest EXCEPT !.job = j, !.origin = origin] \in Request
    BY BlankTypes DEF BlankRequest, Request
  <1> QED BY <1>1, <1>2, BrokerAssumption DEF CreateRequest, TypeOK, ReqIds

LEMMA TypeMain == TypeOK /\ MainStep => TypeOK'
  <1> SUFFICES ASSUME TypeOK, MainStep PROVE TypeOK'
    OBVIOUS
  <1>1. ASSUME NEW j \in Jobs, IssueCredentials(j) PROVE TypeOK'
    BY <1>1 DEF IssueCredentials, TypeOK
  <1>2. ASSUME NEW S \in SUBSET Jobs, RevokeJobs(S) PROVE TypeOK'
    BY <1>2, RevokeType, RefusedType DEF RevokeJobs, TypeOK
  <1>3. ASSUME NEW j \in Jobs, CreateMainRequest(j) PROVE TypeOK'
    BY <1>3, CreateType DEF CreateMainRequest, TypeOK
  <1>4. ASSUME NEW r \in ReqIds, RollbackMainRequest(r) PROVE TypeOK'
    <2>1. [req[r] EXCEPT !.waiter = NoConn] \in Request
      BY DEF TypeOK, Request
    <2> QED BY <1>4, <2>1 DEF RollbackMainRequest, TypeOK
  <1>5. ASSUME NEW r \in ReqIds, MarkMainRequestQueued(r) PROVE TypeOK'
    <2>1. \A x \in ReqIds : /\ [req[x] EXCEPT !.waiter = NoConn] \in Request
                            /\ [req[x] EXCEPT !.queued = TRUE] \in Request
      BY DEF TypeOK, Request
    <2> QED BY <1>5, <2>1, RefusedType DEF MarkMainRequestQueued, TypeOK
  <1>6. ASSUME NEW r \in ReqIds, NEW m \in Replies, ReplyFromMain(r, m)
        PROVE  TypeOK'
    <2>1. [req[r] EXCEPT !.response = m, !.waiter = NoConn] \in Request
      <3>1. req[r] \in Request
        BY DEF TypeOK
      <3> QED BY <3>1 DEF Request
    <2>2. req' = [req EXCEPT ![r] = [req[r] EXCEPT !.response = m, !.waiter = NoConn]]
      BY <1>6 DEF ReplyFromMain, TypeOK, Request
    <2>3. req' \in [ReqIds -> Request]
      BY <2>1, <2>2 DEF TypeOK
    <2>4. ASSUME NEW c \in Conns, NEW f \in FlushOf(conn[c], r)
          PROVE  Respond(conn[c], m, f) \in Connection
      BY <2>4, FlushOfType, RespondType DEF TypeOK
    <2>5. conn' \in [Conns -> Connection]
      BY <1>6, <2>4 DEF ReplyFromMain, TypeOK, Request
    <2> QED BY <1>6, <2>3, <2>5 DEF ReplyFromMain, TypeOK
  <1>7. ASSUME NEW w \in MainWaits, BeginMainWait(w) PROVE TypeOK'
    BY <1>7 DEF BeginMainWait, TypeOK
  <1>8. ASSUME NEW w \in MainWaits, EndMainWait(w) PROVE TypeOK'
    BY <1>8 DEF EndMainWait, TypeOK
  <1> QED BY <1>1, <1>2, <1>3, <1>4, <1>5, <1>6, <1>7, <1>8 DEF MainStep

LEMMA TypeConn == ASSUME TypeOK, NEW c \in Conns, ConnStep(c) PROVE TypeOK'
  <1>p. ASSUME NEW k \in Connection
        PROVE  [conn EXCEPT ![c] = k] \in [Conns -> Connection]
    BY <1>p DEF TypeOK
  <1>a. /\ conn[c] \in Connection
        /\ [conn EXCEPT ![c] = AnswerPlain(conn[c])] \in [Conns -> Connection]
    BY <1>p, PlainType DEF TypeOK
  <1>1. ASSUME NEW j \in Jobs, NEW op \in {"request", "reply", "wait"},
               NEW r \in OptionalId, NEW timed \in BOOLEAN,
               Connect(c, j, op, r, timed)
        PROVE  TypeOK'
    <2>1. [Closed EXCEPT !.st = "open", !.job = j, !.op = op, !.id = r,
                         !.timed = timed, !.client = "waiting"] \in Connection
      BY BlankTypes DEF Closed, Connection
    <2> QED BY <1>1, <1>p, <2>1 DEF Connect, TypeOK
  <1>2. CASE RejectFrame(c) BY <1>2, <1>a DEF RejectFrame, TypeOK
  <1>3. CASE FrameTimesOut(c) BY <1>3, <1>a DEF FrameTimesOut, TypeOK
  <1>4. CASE ChildRequest(c)
    <2>1. conn[c].job \in Jobs
      BY <1>a DEF Connection
    <2> QED BY <1>4, <1>a, <2>1, CreateType
            DEF ChildRequest, DeliverInbound, TypeOK
  <1>5. ASSUME NEW m \in Replies, ChildReply(c, m) PROVE TypeOK'
    <2> DEFINE r == conn[c].id
               f == [req EXCEPT ![r].response = m]
    <2>1. r \in ReqIds
      BY <1>5 DEF ChildReply, RequestsOf, TypeOK
    <2>2. [req[r] EXCEPT !.response = m] \in Request
      BY <2>1 DEF TypeOK, Request
    <2>3. f \in [ReqIds -> Request]
      BY <2>1, <2>2 DEF TypeOK
    <2>4. MarkConsumed(f, r)
      BY <1>5 DEF ChildReply
    <2> HIDE DEF f, r
    <2>5. req' \in [ReqIds -> Request] /\ live' \in SUBSET ReqIds
      BY <2>1, <2>3, <2>4, MarkConsumedType
    <2> QED BY <1>5, <1>a, <2>5 DEF ChildReply, DeliverInbound, TypeOK
  <1>6. CASE ChildWaitAnswered(c)
    <2> DEFINE r == conn[c].id
    <2>1. r \in ReqIds /\ req[r].response \in Replies \cup {NoReply}
      BY <1>6 DEF ChildWaitAnswered, RequestsOf, TypeOK, Request
    <2>2. PICK f \in OptionalId :
             conn' = [conn EXCEPT ![c] = Respond(conn[c], req[r].response, f)]
      <3>1. FlushOf(conn[c], r) \subseteq OptionalId
        BY <2>1, FlushOfType
      <3>2. 0 \in OptionalId
        BY BrokerAssumption DEF OptionalId
      <3> QED BY <1>6, <3>1, <3>2 DEF ChildWaitAnswered
    <2>3. conn' \in [Conns -> Connection]
      BY <1>p, <1>a, <2>1, <2>2, RespondType
    <2> QED BY <1>6, <2>3 DEF ChildWaitAnswered, TypeOK
  <1>7. CASE ChildWaitParks(c)
    <2> DEFINE r == conn[c].id
    <2>1. [conn[c] EXCEPT !.st = "parked"] \in Connection
      BY <1>a DEF Connection
    <2>2. r \in ReqIds
      BY <1>7 DEF ChildWaitParks, WaitRefused, RequestsOf, TypeOK
    <2>3. [req[r] EXCEPT !.waiter = c] \in Request
      BY <2>2 DEF TypeOK, Request
    <2> QED BY <1>7, <1>p, <2>1, <2>2, <2>3 DEF ChildWaitParks, TypeOK
  <1>8. CASE WaitTimesOut(c)
    <2> DEFINE r == conn[c].id
    <2>1. ASSUME r \in ReqIds PROVE [req[r] EXCEPT !.waiter = NoConn] \in Request
      BY <2>1 DEF TypeOK, Request
    <2> QED BY <1>8, <1>a, <2>1 DEF WaitTimesOut, TypeOK
  <1>9. CASE Flushed(c)
    <2> DEFINE r == conn[c].flush
    <2>1. [conn[c] EXCEPT !.flush = 0] \in Connection
      BY <1>a, BrokerAssumption DEF Connection, OptionalId
    <2>2. r \in live => r \in ReqIds
      BY DEF TypeOK
    <2>3. req' \in [ReqIds -> Request] /\ live' \in SUBSET ReqIds
      BY <1>9, <2>2, MarkConsumedType DEF Flushed, TypeOK
    <2> QED BY <1>9, <1>p, <2>1, <2>3 DEF Flushed, TypeOK
  <1>10. CASE ClientReceives(c)
    <2>1. [conn[c] EXCEPT !.client = "gone"] \in Connection
      BY <1>a DEF Connection
    <2>2. received' \in [ReqIds -> Replies \cup {NoReply}]
      BY <1>10, <1>a DEF ClientReceives, TypeOK, Connection
    <2> QED BY <1>10, <1>p, <2>1, <2>2 DEF ClientReceives, TypeOK
  <1>11. CASE ClientGivesUp(c)
    <2>1. [conn[c] EXCEPT !.client = "gone"] \in Connection
      BY <1>a DEF Connection
    <2> QED BY <1>11, <1>p, <2>1 DEF ClientGivesUp, TypeOK
  <1>12. CASE SocketCloses(c)
    <2>1. \A x \in ReqIds : [req[x] EXCEPT !.waiter = NoConn] \in Request
      BY DEF TypeOK, Request
    <2> QED BY <1>12, <1>p, <2>1, BlankTypes DEF SocketCloses, TypeOK
  <1> QED BY <1>1, <1>2, <1>3, <1>4, <1>5, <1>6, <1>7, <1>8, <1>9, <1>10,
             <1>11, <1>12
          DEF ConnStep, HandlesFrame

LEMMA TypeStep == TypeOK /\ [Next]_vars => TypeOK'
  <1> SUFFICES ASSUME TypeOK, [Next]_vars PROVE TypeOK'
    OBVIOUS
  <1>1. CASE UNCHANGED vars BY <1>1 DEF vars, TypeOK
  <1> QED BY <1>1, TypeServer, TypeMain, TypeConn DEF Next

(***************************************************************************)
(* Every reachable state of the broker is well-typed.                      *)
(***************************************************************************)
THEOREM TypeCorrect == Spec => []TypeOK
  BY TypeInit, TypeStep, PTL DEF Spec

-----------------------------------------------------------------------------
(***************************************************************************)
(* The inductive invariant.  What each step has to re-establish, once the  *)
(* types are known, is the rest of it.                                     *)
(***************************************************************************)
LEMMA InvariantInit == Init => IInv
  <1> SUFFICES ASSUME Init PROVE IInv
    OBVIOUS
  <1>1. TypeOK
    BY TypeInit
  <1>2. \A c \in Conns : conn[c] = Closed
    BY DEF Init
  <1>3. \A r \in ReqIds : req[r] = BlankRequest /\ received[r] = NoReply
    BY DEF Init
  <1> QED
    BY <1>1, <1>2, <1>3
    DEF Init, IInv, FreshIds, OnlyLiveRequestsHaveWaiters, ConsumedWereAnswered,
        FlushesFollowResponses, ListenersAwaitNothing, SentReplyWasAccepted,
        ReceivedReplyWasAccepted, WaitersAreParked, NoWaitBehindSteering,
        RevokedJobsHoldNothing, Answered, Consumed, Parked, Closed,
        BlankRequest, HasQueuedRequestForChild, RequestsOf

\* Steps that touch neither the requests nor the connections.
LEMMA FrameStep ==
  ASSUME IInv, TypeOK',
         UNCHANGED <<nextId, live, req, conn, received>>,
         \A j \in Jobs : jobState[j] = "active" => jobState'[j] = "active",
         listeners' # {} => ~HasPendingMainRequest
  PROVE  IInv'
  <1> QED
    BY DEF IInv, TypeOK, FreshIds, OnlyLiveRequestsHaveWaiters,
        ConsumedWereAnswered, FlushesFollowResponses, ListenersAwaitNothing,
        SentReplyWasAccepted, ReceivedReplyWasAccepted, WaitersAreParked,
        NoWaitBehindSteering, RevokedJobsHoldNothing, Answered, Consumed,
        Parked, HasQueuedRequestForChild, HasPendingMainRequest, RequestsOf,
        Request, Connection

\* Steps that move one connection without parking it or touching requests.
LEMMA ConnOnlyStep ==
  ASSUME IInv, TypeOK', NEW c \in Conns, NEW k \in Connection,
         conn' = [conn EXCEPT ![c] = k],
         k.st = "parked" <=> conn[c].st = "parked",
         k.st = "parked" => k.id = conn[c].id /\ k.job = conn[c].job,
         k.flush # 0 => Answered(k.flush),
         k.reply # NoReply => k.id \in ReqIds /\ k.reply = req[k.id].response,
         UNCHANGED <<jobState, nextId, live, req, listeners, received>>
  PROVE  IInv'
  <1> QED
    BY DEF IInv, TypeOK, FreshIds, OnlyLiveRequestsHaveWaiters,
        ConsumedWereAnswered, FlushesFollowResponses, ListenersAwaitNothing,
        SentReplyWasAccepted, ReceivedReplyWasAccepted, WaitersAreParked,
        NoWaitBehindSteering, RevokedJobsHoldNothing, Answered, Consumed,
        Parked, HasQueuedRequestForChild, HasPendingMainRequest, RequestsOf,
        Request

LEMMA InvariantServer == ASSUME IInv, TypeOK', ServerStep PROVE IInv'
  <1>1. CASE Start BY <1>1, FrameStep DEF Start, IInv, ListenersAwaitNothing
  <1>2. CASE StartSettles
    BY <1>2, FrameStep DEF StartSettles, IInv, ListenersAwaitNothing
  <1>3. ASSUME DropEverything, UNCHANGED <<nextId, received>>,
               listeners' # {} => listeners # {}
        PROVE  IInv'
    <2>1. live' = {}
      BY <1>3 DEF DropEverything, Revoke, RevocableRequests, ActiveJobs, IInv,
                  RevokedJobsHoldNothing, TypeOK, Request
    <2>2. \A r \in ReqIds : /\ req'[r].waiter = NoConn
                            /\ req'[r].response = req[r].response
                            /\ req'[r].consumedAt = req[r].consumedAt
      BY <1>3 DEF DropEverything, Revoke, RevocableRequests, ActiveJobs, IInv,
                  RevokedJobsHoldNothing, OnlyLiveRequestsHaveWaiters, TypeOK,
                  Request
    <2>3. \A c \in Conns : conn'[c] = Closed
      BY <1>3 DEF DropEverything
    <2> QED
      BY <1>3, <2>1, <2>2, <2>3
      DEF IInv, FreshIds, OnlyLiveRequestsHaveWaiters, ConsumedWereAnswered,
          FlushesFollowResponses, ListenersAwaitNothing, SentReplyWasAccepted,
          ReceivedReplyWasAccepted, WaitersAreParked, NoWaitBehindSteering,
          RevokedJobsHoldNothing, Answered, Consumed, Parked, Closed,
          HasQueuedRequestForChild, HasPendingMainRequest, RequestsOf
  <1>4. ASSUME Purge PROVE IInv'
    BY <1>3, <1>4 DEF Purge
  <1>5. CASE Shutdown
    BY <1>4, <1>5, FrameStep DEF Shutdown, IInv, ListenersAwaitNothing
  <1>6. CASE ShutdownFinishes BY <1>4, <1>6 DEF ShutdownFinishes
  <1>7. CASE Fail BY <1>3, <1>7 DEF Fail
  <1>8. CASE Tick BY <1>8, FrameStep DEF Tick, IInv, ListenersAwaitNothing
  <1> QED BY <1>1, <1>2, <1>5, <1>6, <1>7, <1>8 DEF ServerStep

LEMMA InvariantRevokeJobs ==
  ASSUME IInv, TypeOK', NEW S \in SUBSET Jobs, RevokeJobs(S) PROVE IInv'
  <1>1. /\ live' = {r \in live : req[r].job \notin S}
        /\ \A r \in ReqIds : /\ req'[r].response = req[r].response
                             /\ req'[r].consumedAt = req[r].consumedAt
                             /\ req'[r].job = req[r].job
                             /\ req'[r].origin = req[r].origin
                             /\ req'[r].queued = req[r].queued
                             /\ req'[r].waiter = IF r \in live /\ req[r].job \in S
                                                 THEN NoConn ELSE req[r].waiter
        /\ \A i \in Jobs : i \notin S => jobState'[i] = jobState[i]
    BY ClearedFields DEF RevokeJobs, Revoke, RevocableRequests, IInv, TypeOK
  <1>2. \A c \in Conns :
          /\ conn'[c].st = IF c \in Waiters(S) THEN "answered" ELSE conn[c].st
          /\ conn'[c].id = conn[c].id /\ conn'[c].job = conn[c].job
          /\ conn'[c].flush # 0 => conn'[c].flush = conn[c].flush
          /\ conn'[c].reply # NoReply => conn'[c].reply = conn[c].reply
    BY PlainFields DEF RevokeJobs, Refused, IInv, TypeOK
  <1>3. \A c \in Conns : conn[c].st = "parked" /\ conn[c].job \in S => c \in Waiters(S)
    BY DEF IInv, WaitersAreParked, Parked, RequestsOf, Waiters, RevocableRequests
  <1>4. \A c \in Waiters(S) : conn[c].st = "parked" /\ conn[c].job \in S
    BY BrokerAssumption DEF IInv, WaitersAreParked, Parked, RequestsOf, Waiters, RevocableRequests
  <1>5. WaitersAreParked'
    <2>1. ASSUME NEW c \in Conns, conn'[c].st = "parked"
          PROVE  /\ conn'[c].id \in live' /\ req'[conn'[c].id].job = conn'[c].job
                 /\ req'[conn'[c].id].waiter = c
      <3>1. conn[c].st = "parked" /\ conn[c].job \notin S
        BY <2>1, <1>2, <1>3
      <3> QED BY <3>1, <1>1, <1>2
              DEF IInv, WaitersAreParked, RequestsOf, Parked, TypeOK
    <2>2. ASSUME NEW r \in live', req'[r].waiter # NoConn
          PROVE  /\ req'[r].origin = "child" /\ req'[r].response = NoReply
                 /\ req'[r].waiter \in Conns
                 /\ conn'[req'[r].waiter].st = "parked"
                 /\ conn'[req'[r].waiter].id = r
      <3>1. r \in live /\ r \in ReqIds /\ req[r].job \notin S
        BY <1>1 DEF IInv, TypeOK
      <3>2. req'[r].waiter = req[r].waiter
        BY <3>1, <1>1
      <3>3. req[r].waiter \in Conns /\ req[r].waiter \notin Waiters(S)
        BY <2>2, <3>1, <3>2, <1>4
        DEF IInv, WaitersAreParked, Parked, RequestsOf
      <3> QED BY <2>2, <3>1, <3>2, <3>3, <1>1, <1>2
              DEF IInv, WaitersAreParked, Parked, Answered
    <2> QED BY <2>1, <2>2 DEF WaitersAreParked, RequestsOf, Parked, Answered
  <1>6. /\ \A r \in live' : r \in ReqIds /\ r \in live /\ req[r].job \in Jobs \ S
        /\ \A c \in Conns : conn'[c].st = "parked" =>
              conn[c].st = "parked" /\ conn[c].job \in Jobs \ S
    BY <1>1, <1>2, <1>3 DEF IInv, TypeOK, Request, Connection
  <1>9. NoWaitBehindSteering'
    BY <1>1, <1>2, <1>6
    DEF IInv, NoWaitBehindSteering, HasQueuedRequestForChild, RequestsOf, Parked,
        Answered
  <1>10. RevokedJobsHoldNothing'
    BY <1>1, <1>2, <1>6 DEF IInv, RevokedJobsHoldNothing, Parked
  <1>11. ListenersAwaitNothing'
    BY <1>1, <1>6
    DEF IInv, ListenersAwaitNothing, HasPendingMainRequest, Answered, RevokeJobs
  <1>7. FreshIds' /\ OnlyLiveRequestsHaveWaiters' /\ ConsumedWereAnswered'
    BY <1>1
    DEF IInv, FreshIds, OnlyLiveRequestsHaveWaiters, ConsumedWereAnswered,
        Answered, Consumed, RevokeJobs, TypeOK
  <1>8. FlushesFollowResponses'
    <2> SUFFICES ASSUME NEW c \in Conns, conn'[c].flush # 0
                 PROVE  req'[conn'[c].flush].response # NoReply
      BY DEF FlushesFollowResponses, Answered
    <2>1. conn[c].flush \in ReqIds /\ conn'[c].flush = conn[c].flush
      BY <1>2 DEF IInv, TypeOK, Connection, OptionalId, ReqIds
    <2> QED BY <2>1, <1>1 DEF IInv, FlushesFollowResponses, Answered
  <1>12. SentReplyWasAccepted'
    BY <1>1, <1>2 DEF IInv, SentReplyWasAccepted
  <1>13. ReceivedReplyWasAccepted'
    BY <1>1 DEF IInv, ReceivedReplyWasAccepted, RevokeJobs
  <1> QED BY <1>5, <1>7, <1>8, <1>9, <1>10, <1>11, <1>12, <1>13 DEF IInv

LEMMA InvariantCreate ==
  ASSUME IInv, TypeOK', NEW j \in Jobs, NEW origin \in {"main", "child"},
         CreateRequest(j, origin), jobState[j] = "active",
         NEW S \in SUBSET Conns, conn' = Refused(S),
         \A c \in S : conn[c].st = "open",
         origin = "child" => listeners' = {},
         listeners' # {} => listeners # {},
         UNCHANGED <<jobState, received>>
  PROVE  IInv'
  <1>1. nextId \in ReqIds /\ nextId \notin live /\ ~Answered(nextId)
    BY BrokerAssumption DEF CreateRequest, IInv, FreshIds, TypeOK, ReqIds
  <1>2. /\ nextId' = nextId + 1
        /\ live' = live \cup {nextId}
        /\ \A r \in ReqIds : r # nextId => req'[r] = req[r]
        /\ req'[nextId].job = j /\ req'[nextId].origin = origin
        /\ req'[nextId].response = NoReply /\ req'[nextId].consumedAt = 0
        /\ req'[nextId].queued = FALSE /\ req'[nextId].waiter = NoConn
    BY <1>1 DEF CreateRequest, BlankRequest, IInv, TypeOK
  <1>3. \A d \in Conns :
          /\ conn'[d].st = "parked" <=> conn[d].st = "parked"
          /\ conn'[d].id = conn[d].id /\ conn'[d].job = conn[d].job
          /\ conn'[d].flush # 0 => conn'[d].flush = conn[d].flush
          /\ conn'[d].reply # NoReply => conn'[d].reply = conn[d].reply
    BY PlainFields DEF Refused, IInv, TypeOK
  <1>4. /\ \A d \in Conns : conn[d].st = "parked" => conn[d].id # nextId
        /\ \A d \in Conns : conn[d].flush # 0 => conn[d].flush # nextId
        /\ \A d \in Conns : conn[d].reply # NoReply => conn[d].id # nextId
        /\ received[nextId] = NoReply
    BY <1>1, BrokerAssumption
    DEF IInv, WaitersAreParked, RequestsOf, Parked, FlushesFollowResponses,
        SentReplyWasAccepted, ReceivedReplyWasAccepted, Answered
  <1>5. ListenersAwaitNothing'
    <2> SUFFICES ASSUME listeners' # {},
                        NEW r \in live', req'[r].origin = "child",
                        req'[r].response = NoReply
                 PROVE  FALSE
      BY DEF ListenersAwaitNothing, HasPendingMainRequest, Answered
    <2>1. r # nextId
      BY <1>2
    <2> QED
      BY <2>1, <1>2
      DEF IInv, ListenersAwaitNothing, HasPendingMainRequest, Answered, TypeOK
  <1>6. WaitersAreParked'
    <2>1. ASSUME NEW d \in Conns, conn'[d].st = "parked"
          PROVE  /\ conn'[d].id \in live' /\ req'[conn'[d].id].job = conn'[d].job
                 /\ req'[conn'[d].id].waiter = d
      BY <2>1, <1>2, <1>3, <1>4
      DEF IInv, WaitersAreParked, RequestsOf, Parked, TypeOK
    <2>2. ASSUME NEW r \in live', req'[r].waiter # NoConn
          PROVE  /\ req'[r].origin = "child" /\ req'[r].response = NoReply
                 /\ req'[r].waiter \in Conns
                 /\ conn'[req'[r].waiter].st = "parked"
                 /\ conn'[req'[r].waiter].id = r
      <3>1. r \in live /\ r \in ReqIds /\ req'[r] = req[r]
        BY <2>2, <1>2 DEF IInv, TypeOK
      <3> QED BY <2>2, <3>1, <1>3
              DEF IInv, WaitersAreParked, Parked, Answered
    <2> QED BY <2>1, <2>2 DEF WaitersAreParked, RequestsOf, Parked, Answered
  <1>7. NoWaitBehindSteering'
    BY <1>1, <1>2, <1>3, <1>4
    DEF IInv, NoWaitBehindSteering, HasQueuedRequestForChild, RequestsOf,
        Parked, Answered, TypeOK
  <1>8. RevokedJobsHoldNothing'
    BY <1>1, <1>2, <1>3 DEF IInv, RevokedJobsHoldNothing, Parked, TypeOK
  <1>9. FreshIds' /\ OnlyLiveRequestsHaveWaiters' /\ ConsumedWereAnswered'
    BY <1>1, <1>2
    DEF IInv, FreshIds, OnlyLiveRequestsHaveWaiters, ConsumedWereAnswered,
        Answered, Consumed, TypeOK, ReqIds
  <1>10. FlushesFollowResponses'
    <2> SUFFICES ASSUME NEW d \in Conns, conn'[d].flush # 0
                 PROVE  req'[conn'[d].flush].response # NoReply
      BY DEF FlushesFollowResponses, Answered
    <2>1. conn[d].flush \in ReqIds /\ conn'[d].flush = conn[d].flush
      BY <1>3 DEF IInv, TypeOK, Connection, OptionalId, ReqIds
    <2> QED BY <2>1, <1>2, <1>4 DEF IInv, FlushesFollowResponses, Answered
  <1>11. SentReplyWasAccepted'
    BY <1>2, <1>3, <1>4 DEF IInv, SentReplyWasAccepted
  <1>12. ReceivedReplyWasAccepted'
    BY <1>2, <1>4 DEF IInv, ReceivedReplyWasAccepted
  <1> QED BY <1>5, <1>6, <1>7, <1>8, <1>9, <1>10, <1>11, <1>12 DEF IInv

(***************************************************************************)
(* Steps that answer requests, end waits or delete requests, seen from a   *)
(* distance: the connections of W stop waiting, and nothing starts to.     *)
(***************************************************************************)
LEMMA RequestStep ==
  ASSUME IInv, TypeOK', NEW W \in SUBSET Conns,
         UNCHANGED <<nextId, jobState, received>>,
         live' \subseteq live,
         listeners' # {} => listeners # {},
         \A r \in ReqIds :
            /\ req'[r].job = req[r].job /\ req'[r].origin = req[r].origin
            /\ Answered(r) => req'[r].response = req[r].response
            /\ r \notin live => req'[r].response = req[r].response
            /\ req'[r].consumedAt # 0 => req'[r].response # NoReply
            /\ req'[r].waiter = IF req[r].waiter \in W THEN NoConn ELSE req[r].waiter
            /\ req'[r].waiter # NoConn => r \in live' /\ req'[r].response = NoReply,
         \A c \in Conns :
            /\ conn'[c].st = "parked" <=> conn[c].st = "parked" /\ c \notin W
            /\ conn'[c].st = "parked" => /\ conn'[c].id = conn[c].id
                                         /\ conn'[c].job = conn[c].job
            /\ conn'[c].flush # 0 => req'[conn'[c].flush].response # NoReply
            /\ conn'[c].reply # NoReply =>
                  /\ conn'[c].id \in ReqIds
                  /\ conn'[c].reply = req'[conn'[c].id].response,
         \A r \in live' : req'[r].queued /\ ~req[r].queued /\ ~Answered(r) =>
            \A c \in Conns : conn'[c].st = "parked" => conn[c].job # req[r].job
  PROVE  IInv'
  <1>1. \A c \in Conns : conn'[c].st = "parked" =>
          /\ conn[c].id \in live' /\ conn[c].id \in ReqIds
          /\ conn[c].st = "parked" /\ c \notin W
          /\ req[conn[c].id].job = conn[c].job
          /\ req[conn[c].id].waiter = c /\ req'[conn[c].id].waiter = c
    BY BrokerAssumption DEF IInv, WaitersAreParked, RequestsOf, Parked, TypeOK
  <1>2. \A r \in live' : r \in live /\ r \in ReqIds
    BY DEF IInv, TypeOK
  <1>3. WaitersAreParked'
    <2>1. ASSUME NEW c \in Conns, conn'[c].st = "parked"
          PROVE  /\ conn'[c].id \in live' /\ req'[conn'[c].id].job = conn'[c].job
                 /\ req'[conn'[c].id].waiter = c
      BY <2>1, <1>1
    <2>2. ASSUME NEW r \in live', req'[r].waiter # NoConn
          PROVE  /\ req'[r].origin = "child" /\ req'[r].response = NoReply
                 /\ req'[r].waiter \in Conns
                 /\ conn'[req'[r].waiter].st = "parked"
                 /\ conn'[req'[r].waiter].id = r
      <3>1. r \in live /\ r \in ReqIds
        BY <1>2
      <3>2. req'[r].waiter = req[r].waiter /\ req[r].waiter \notin W
        BY <2>2, <3>1
      <3> QED BY <2>2, <3>1, <3>2 DEF IInv, WaitersAreParked, Parked
    <2> QED BY <2>1, <2>2 DEF WaitersAreParked, RequestsOf, Parked, Answered
  <1>4. NoWaitBehindSteering'
    <2> SUFFICES ASSUME NEW j \in Jobs, NEW r \in live', req'[r].job = j,
                        req'[r].origin = "main", req'[r].queued,
                        req'[r].response = NoReply,
                        NEW c \in Conns, conn'[c].st = "parked", conn'[c].job = j
                 PROVE  FALSE
      BY DEF NoWaitBehindSteering, HasQueuedRequestForChild, RequestsOf, Parked,
             Answered
    <2>1. ~Answered(r) /\ r \in live /\ r \in ReqIds
      BY <1>2 DEF Answered
    <2>2. CASE req[r].queued
      BY <2>1, <2>2, <1>1
      DEF IInv, NoWaitBehindSteering, HasQueuedRequestForChild, RequestsOf, Parked
    <2>3. CASE ~req[r].queued
      BY <2>1, <2>3
    <2> QED BY <2>2, <2>3
  <1>5. RevokedJobsHoldNothing'
    BY <1>1, <1>2 DEF IInv, RevokedJobsHoldNothing, Parked
  <1>6. ListenersAwaitNothing'
    BY <1>2 DEF IInv, ListenersAwaitNothing, HasPendingMainRequest, Answered
  <1>7. FreshIds'
    BY <1>2 DEF IInv, FreshIds, Answered
  <1>8. OnlyLiveRequestsHaveWaiters' /\ ConsumedWereAnswered'
    BY DEF OnlyLiveRequestsHaveWaiters, ConsumedWereAnswered, Consumed, Answered
  <1>9. FlushesFollowResponses' /\ SentReplyWasAccepted'
    BY DEF FlushesFollowResponses, SentReplyWasAccepted, Answered
  <1>10. ReceivedReplyWasAccepted'
    BY DEF IInv, ReceivedReplyWasAccepted, Answered
  <1> QED BY <1>3, <1>4, <1>5, <1>6, <1>7, <1>8, <1>9, <1>10 DEF IInv

(***************************************************************************)
(* The calls of the main agent's side.                                     *)
(***************************************************************************)
\* The fields of the requests, as a leaf needs them.
LEMMA LiveWaiters ==
  ASSUME IInv
  PROVE  \A r \in ReqIds : req[r].waiter # NoConn =>
            /\ r \in live /\ req[r].origin = "child"
            /\ req[r].response = NoReply
            /\ req[r].waiter \in Conns
            /\ conn[req[r].waiter].st = "parked"
            /\ conn[req[r].waiter].id = r
            /\ conn[req[r].waiter].job = req[r].job
  BY DEF IInv, OnlyLiveRequestsHaveWaiters, WaitersAreParked, RequestsOf, Parked,
         Answered

LEMMA InvariantMain == ASSUME IInv, TypeOK', MainStep PROVE IInv'
  <1>w. /\ \A c \in Conns : conn[c].flush # 0 => Answered(conn[c].flush)
        /\ \A c \in Conns : conn[c].flush \in OptionalId
        /\ \A c \in Conns : conn[c].reply # NoReply =>
              /\ conn[c].id \in ReqIds
              /\ conn[c].reply = req[conn[c].id].response
        /\ \A r \in ReqIds : req[r].consumedAt # 0 => req[r].response # NoReply
        /\ live \subseteq ReqIds
        /\ \A r \in ReqIds : req[r] \in Request
    BY DEF IInv, FlushesFollowResponses, SentReplyWasAccepted,
           ConsumedWereAnswered, Consumed, Answered, TypeOK, Connection
  <1>1. ASSUME NEW j \in Jobs, IssueCredentials(j) PROVE IInv'
    BY <1>1, FrameStep
    DEF IssueCredentials, IInv, ListenersAwaitNothing, TypeOK
  <1>2. ASSUME NEW S \in SUBSET Jobs, RevokeJobs(S) PROVE IInv'
    BY <1>2, InvariantRevokeJobs
  <1>3. ASSUME NEW j \in Jobs, CreateMainRequest(j) PROVE IInv'
    <2>1. conn' = Refused({})
      BY <1>3 DEF CreateMainRequest, Refused, IInv, TypeOK
    <2> QED BY <1>3, <2>1, InvariantCreate DEF CreateMainRequest
  <1>4. ASSUME NEW r \in ReqIds, RollbackMainRequest(r) PROVE IInv'
    <2>1. req[r].waiter = NoConn
      BY <1>4, LiveWaiters DEF RollbackMainRequest, CanRollBack
    <2>2. req' = req
      BY <1>4, <2>1, <1>w DEF RollbackMainRequest, IInv, TypeOK, Request
    <2>3. live' = live \ {r} /\ conn' = conn
          /\ UNCHANGED <<nextId, jobState, received, listeners>>
      BY <1>4 DEF RollbackMainRequest
    <2>4. \A x \in ReqIds :
            /\ req'[x].job = req[x].job /\ req'[x].origin = req[x].origin
            /\ Answered(x) => req'[x].response = req[x].response
            /\ x \notin live => req'[x].response = req[x].response
            /\ req'[x].consumedAt # 0 => req'[x].response # NoReply
            /\ req'[x].waiter = IF req[x].waiter \in {} THEN NoConn ELSE req[x].waiter
            /\ req'[x].waiter # NoConn => x \in live' /\ req'[x].response = NoReply
      BY <1>w, <2>1, <2>2, <2>3, LiveWaiters
    <2>5. \A c \in Conns :
            /\ conn'[c].st = "parked" <=> conn[c].st = "parked" /\ c \notin {}
            /\ conn'[c].st = "parked" => /\ conn'[c].id = conn[c].id
                                         /\ conn'[c].job = conn[c].job
            /\ conn'[c].flush # 0 => req'[conn'[c].flush].response # NoReply
            /\ conn'[c].reply # NoReply =>
                  /\ conn'[c].id \in ReqIds
                  /\ conn'[c].reply = req'[conn'[c].id].response
      BY <1>w, <2>2, <2>3 DEF Answered
    <2>6. {} \in SUBSET Conns /\ live' \subseteq live
      BY <2>3
    <2>7. \A x \in live' : ~(req'[x].queued /\ ~req[x].queued)
      BY <2>2
    <2> QED
      BY <2>3, <2>4, <2>5, <2>6, <2>7, RequestStep
  <1>5. ASSUME NEW r \in ReqIds, MarkMainRequestQueued(r) PROVE IInv'
    <2> DEFINE j == req[r].job
               W == IF Answered(r) THEN {} ELSE Interrupted(j)
    <2>1. W \in SUBSET Conns /\ NoConn \notin W
      BY BrokerAssumption DEF Interrupted
    <2>2. \A x \in ReqIds : x # r => req'[x] =
             IF x \in RequestsOf(j) /\ req[x].waiter \in W
             THEN [req[x] EXCEPT !.waiter = NoConn] ELSE req[x]
      BY <1>5 DEF MarkMainRequestQueued
    <2>3. req'[r] = [req[r] EXCEPT !.queued = TRUE] /\ r \in live
          /\ req[r].origin = "main"
      BY <1>5 DEF MarkMainRequestQueued
    <2>4. conn' = Refused(W) /\ UNCHANGED <<live, nextId, jobState, received, listeners>>
      BY <1>5 DEF MarkMainRequestQueued
    <2>5. \A c \in W : conn[c].st = "parked" /\ conn[c].job = j
      BY LiveWaiters, <1>w, BrokerAssumption DEF Interrupted, RequestsOf
    <2>6. \A x \in ReqIds : req[x].waiter \in W => x \in RequestsOf(j) /\ x # r
      BY LiveWaiters, <2>1, <2>3, <2>5 DEF RequestsOf
    <2>7. \A c \in Conns : conn[c].st = "parked" /\ conn[c].job = j =>
             \E x \in RequestsOf(j) : req[x].waiter = c /\ req[x].origin = "child"
      BY BrokerAssumption DEF IInv, WaitersAreParked, Parked, RequestsOf
    <2>8. \A c \in Conns : conn[c].st = "parked" /\ conn[c].job = j /\ ~Answered(r)
             => c \in W
      BY <2>7 DEF Interrupted
    <2> HIDE DEF W
    <2>9. \A x \in ReqIds :
            /\ req'[x].job = req[x].job /\ req'[x].origin = req[x].origin
            /\ req'[x].response = req[x].response
            /\ req'[x].consumedAt = req[x].consumedAt
            /\ req'[x].waiter = IF req[x].waiter \in W THEN NoConn ELSE req[x].waiter
            /\ x # r => req'[x].queued = req[x].queued
      <3> SUFFICES ASSUME NEW x \in ReqIds
                   PROVE  /\ req'[x].job = req[x].job /\ req'[x].origin = req[x].origin
                          /\ req'[x].response = req[x].response
                          /\ req'[x].consumedAt = req[x].consumedAt
                          /\ req'[x].waiter = IF req[x].waiter \in W THEN NoConn
                                              ELSE req[x].waiter
                          /\ x # r => req'[x].queued = req[x].queued
        OBVIOUS
      <3>1. CASE x = r
        <4>1. req[x].waiter \notin W
          BY <3>1, <2>6
        <4>2. /\ req'[r].waiter = req[r].waiter
              /\ req'[r].response = req[r].response
              /\ req'[r].consumedAt = req[r].consumedAt
              /\ req'[r].job = req[r].job
              /\ req'[r].origin = req[r].origin
          BY <2>3, <1>w, QueuedFields
        <4> QED BY <3>1, <4>1, <4>2
      <3>2. CASE x # r
        <4>1. CASE req[x].waiter \in W
          <5>1. req'[x] = [req[x] EXCEPT !.waiter = NoConn]
            BY <2>2, <2>6, <3>2, <4>1
          <5> QED BY <5>1, <4>1, <1>w, ClearedFields
        <4>2. CASE req[x].waiter \notin W
          <5>1. req'[x] = req[x]
            BY <2>2, <3>2, <4>2
          <5> QED BY <5>1, <4>2
        <4> QED BY <4>1, <4>2
      <3> QED BY <3>1, <3>2
    <2>10. \A c \in Conns :
             /\ conn'[c].st = IF c \in W THEN "answered" ELSE conn[c].st
             /\ conn'[c].id = conn[c].id /\ conn'[c].job = conn[c].job
             /\ conn'[c].flush # 0 => conn'[c].flush = conn[c].flush
             /\ conn'[c].reply # NoReply => conn'[c].reply = conn[c].reply
      BY <2>4, PlainFields DEF Refused, IInv, TypeOK
    <2>11. \A c \in Conns :
             /\ conn'[c].flush # 0 => req'[conn'[c].flush].response # NoReply
             /\ conn'[c].reply # NoReply =>
                   /\ conn'[c].id \in ReqIds
                   /\ conn'[c].reply = req'[conn'[c].id].response
      <3> SUFFICES ASSUME NEW c \in Conns
                   PROVE  /\ conn'[c].flush # 0 => req'[conn'[c].flush].response # NoReply
                          /\ conn'[c].reply # NoReply =>
                                /\ conn'[c].id \in ReqIds
                                /\ conn'[c].reply = req'[conn'[c].id].response
        OBVIOUS
      <3>1. conn[c].flush # 0 => conn[c].flush \in ReqIds
        BY <1>w DEF OptionalId, ReqIds
      <3> QED BY <1>w, <2>9, <2>10, <3>1 DEF Answered
    <2>12. \A x \in ReqIds :
            /\ req'[x].job = req[x].job /\ req'[x].origin = req[x].origin
            /\ Answered(x) => req'[x].response = req[x].response
            /\ x \notin live => req'[x].response = req[x].response
            /\ req'[x].consumedAt # 0 => req'[x].response # NoReply
            /\ req'[x].waiter = IF req[x].waiter \in W THEN NoConn ELSE req[x].waiter
            /\ req'[x].waiter # NoConn => x \in live' /\ req'[x].response = NoReply
      BY <1>w, <2>4, <2>9, LiveWaiters
    <2>13. \A x \in live' : req'[x].queued /\ ~req[x].queued /\ ~Answered(x) =>
              \A c \in Conns : conn'[c].st = "parked" => conn[c].job # req[x].job
      BY <1>w, <2>4, <2>8, <2>9, <2>10
    <2>14. \A c \in Conns :
            /\ conn'[c].st = "parked" <=> conn[c].st = "parked" /\ c \notin W
            /\ conn'[c].st = "parked" => /\ conn'[c].id = conn[c].id
                                         /\ conn'[c].job = conn[c].job
            /\ conn'[c].flush # 0 => req'[conn'[c].flush].response # NoReply
            /\ conn'[c].reply # NoReply =>
                  /\ conn'[c].id \in ReqIds
                  /\ conn'[c].reply = req'[conn'[c].id].response
      BY <2>10, <2>11
    <2> QED
      BY <2>1, <2>4, <2>12, <2>13, <2>14, RequestStep
  <1>6. ASSUME NEW r \in ReqIds, NEW m \in Replies, ReplyFromMain(r, m)
        PROVE  IInv'
    <2> DEFINE W == {c \in Conns : req[r].waiter = c}
    <2>1. /\ req'[r].response = m /\ req'[r].waiter = NoConn
          /\ req'[r].job = req[r].job /\ req'[r].origin = req[r].origin
          /\ req'[r].queued = req[r].queued /\ req'[r].consumedAt = req[r].consumedAt
          /\ \A x \in ReqIds : x # r => req'[x] = req[x]
      BY <1>6 DEF ReplyFromMain, IInv, TypeOK, Request
    <2>2. /\ req[r].response = NoReply /\ r \in live /\ m # NoReply
          /\ UNCHANGED <<live, nextId, jobState, received, listeners>>
      BY <1>6, BrokerAssumption DEF ReplyFromMain, AwaitsMain, Answered
    <2>3. \A c \in W : conn[c].st = "parked" /\ conn[c].id = r
      BY LiveWaiters, BrokerAssumption
    <2>4. \A x \in ReqIds : x # r => req[x].waiter \notin W
      BY LiveWaiters, <2>3, BrokerAssumption
    <2>5. \A c \in Conns :
            /\ c \notin W => conn'[c] = conn[c]
            /\ c \in W => \E f \in {0, r} : conn'[c] = Respond(conn[c], m, f)
      <3>1. CASE req[r].waiter = NoConn
        BY <1>6, <3>1, BrokerAssumption DEF ReplyFromMain
      <3>2. CASE req[r].waiter # NoConn
        <4>1. req[r].waiter \in Conns
          BY <3>2, LiveWaiters
        <4>2. PICK f \in FlushOf(conn[req[r].waiter], r) :
                 conn' = [conn EXCEPT ![req[r].waiter] =
                            Respond(conn[req[r].waiter], m, f)]
          BY <1>6, <3>2 DEF ReplyFromMain
        <4>3. f \in {0, r}
          BY <4>2 DEF FlushOf
        <4> QED BY <4>1, <4>2, <4>3 DEF IInv, TypeOK
      <3> QED BY <3>1, <3>2
    <2>6. \A c \in W : /\ conn'[c].st = "answered" /\ conn'[c].reply = m
                       /\ conn'[c].id = r /\ conn'[c].flush \in {0, r}
      BY <2>3, <2>5, RespondFields DEF IInv, TypeOK
    <2> HIDE DEF W
    <2>7. \A x \in ReqIds :
            /\ req'[x].job = req[x].job /\ req'[x].origin = req[x].origin
            /\ Answered(x) => req'[x].response = req[x].response
            /\ x \notin live => req'[x].response = req[x].response
            /\ req'[x].consumedAt # 0 => req'[x].response # NoReply
            /\ req'[x].waiter = IF req[x].waiter \in W THEN NoConn ELSE req[x].waiter
            /\ req'[x].waiter # NoConn => x \in live' /\ req'[x].response = NoReply
            /\ req'[x].queued = req[x].queued
      <3>1. req[r].waiter \in W \/ req[r].waiter = NoConn
        BY LiveWaiters DEF W
      <3> QED BY <1>w, <2>1, <2>2, <2>4, <3>1, LiveWaiters DEF Answered
    <2>8. W \in SUBSET Conns
      BY DEF W
    <2>9. \A c \in Conns :
            /\ conn'[c].st = "parked" <=> conn[c].st = "parked" /\ c \notin W
            /\ conn'[c].st = "parked" => /\ conn'[c].id = conn[c].id
                                         /\ conn'[c].job = conn[c].job
      BY <2>5, <2>6
    <2>10. \A c \in Conns :
            /\ conn'[c].flush # 0 => req'[conn'[c].flush].response # NoReply
            /\ conn'[c].reply # NoReply =>
                  /\ conn'[c].id \in ReqIds
                  /\ conn'[c].reply = req'[conn'[c].id].response
      <3> SUFFICES ASSUME NEW c \in Conns
                   PROVE  /\ conn'[c].flush # 0 => req'[conn'[c].flush].response # NoReply
                          /\ conn'[c].reply # NoReply =>
                                /\ conn'[c].id \in ReqIds
                                /\ conn'[c].reply = req'[conn'[c].id].response
        OBVIOUS
      <3>1. CASE c \in W
        BY <2>1, <2>2, <2>6, <3>1
      <3>2. CASE c \notin W
        <4>1. conn[c].flush # 0 => conn[c].flush \in ReqIds
          BY <1>w DEF OptionalId, ReqIds
        <4>2. conn[c].reply # NoReply => conn[c].id # r
          <5>1. conn[c].reply # NoReply => Answered(conn[c].id)
            BY <1>w DEF Answered
          <5> QED BY <1>w, <2>2
        <4> QED BY <1>w, <2>1, <2>2, <2>5, <3>2, <4>1, <4>2 DEF Answered
      <3> QED BY <3>1, <3>2
    <2> QED
      BY <2>2, <2>7, <2>8, <2>9, <2>10, <1>w, RequestStep
  <1>7. ASSUME NEW w \in MainWaits, BeginMainWait(w) PROVE IInv'
    BY <1>7, FrameStep DEF BeginMainWait, IInv, ListenersAwaitNothing
  <1>8. ASSUME NEW w \in MainWaits, EndMainWait(w) PROVE IInv'
    BY <1>8, FrameStep DEF EndMainWait, IInv, ListenersAwaitNothing
  <1> QED BY <1>1, <1>2, <1>3, <1>4, <1>5, <1>6, <1>7, <1>8 DEF MainStep

(***************************************************************************)
(* The connections.                                                        *)
(***************************************************************************)
\* markConsumed changes one stamp, and deletes consumed requests only.
LEMMA MarkConsumedFields ==
  ASSUME NEW f \in [ReqIds -> Request], NEW r \in ReqIds, MarkConsumed(f, r)
  PROVE  /\ live' \subseteq live
         /\ \A x \in ReqIds :
               /\ req'[x].job = f[x].job /\ req'[x].origin = f[x].origin
               /\ req'[x].response = f[x].response
               /\ req'[x].queued = f[x].queued
               /\ req'[x].waiter = f[x].waiter
               /\ x # r => req'[x].consumedAt = f[x].consumedAt
         /\ \A x \in live \ live' : req'[x].consumedAt # 0
  <1>1. req' = Stamped(f, r) /\ live' = live \ Evicted(Stamped(f, r), f[r].job)
    BY DEF MarkConsumed
  <1>2. \A x \in ReqIds :
               /\ req'[x].job = f[x].job /\ req'[x].origin = f[x].origin
               /\ req'[x].response = f[x].response
               /\ req'[x].queued = f[x].queued
               /\ req'[x].waiter = f[x].waiter
               /\ x # r => req'[x].consumedAt = f[x].consumedAt
    BY <1>1 DEF Stamped, Request
  <1>3. \A x \in Evicted(req', f[r].job) : req'[x].consumedAt # 0
    BY DEF Evicted
  <1> QED BY <1>1, <1>2, <1>3

LEMMA InvariantConn ==
  ASSUME IInv, TypeOK', NEW c \in Conns, ConnStep(c) PROVE IInv'
  <1>w. /\ \A d \in Conns : conn[d].flush # 0 => Answered(conn[d].flush)
        /\ \A d \in Conns : conn[d].flush # 0 => conn[d].flush \in ReqIds
        /\ \A d \in Conns : conn[d].reply # NoReply =>
              /\ conn[d].id \in ReqIds
              /\ conn[d].reply = req[conn[d].id].response
        /\ \A r \in ReqIds : req[r].consumedAt # 0 => req[r].response # NoReply
        /\ live \subseteq ReqIds
        /\ \A r \in ReqIds : req[r] \in Request
        /\ \A d \in Conns : conn[d] \in Connection
    <2>1. \A d \in Conns : conn[d] \in Connection
      BY DEF IInv, TypeOK
    <2>2. \A d \in Conns : conn[d].flush # 0 => conn[d].flush \in ReqIds
      BY <2>1 DEF Connection, OptionalId, ReqIds
    <2> QED
      BY <2>1, <2>2
      DEF IInv, FlushesFollowResponses, SentReplyWasAccepted,
          ConsumedWereAnswered, Consumed, Answered, TypeOK
  <1>n. AnswerPlain(conn[c]) \in Connection
    BY <1>w, PlainType
  <1>1. ASSUME NEW j \in Jobs, NEW op \in {"request", "reply", "wait"},
               NEW r \in OptionalId, NEW timed \in BOOLEAN,
               Connect(c, j, op, r, timed)
        PROVE  IInv'
    <2> DEFINE k == [Closed EXCEPT !.st = "open", !.job = j, !.op = op, !.id = r,
                                   !.timed = timed, !.client = "waiting"]
    <2>1. k \in Connection /\ k.st = "open" /\ k.flush = 0 /\ k.reply = NoReply
      BY BlankTypes DEF Closed, Connection
    <2>2. conn' = [conn EXCEPT ![c] = k] /\ conn[c].st = "closed"
          /\ UNCHANGED <<jobState, nextId, live, req, listeners, received>>
      BY <1>1 DEF Connect
    <2> HIDE DEF k
    <2> QED BY <2>1, <2>2, ConnOnlyStep
  <1>2. ASSUME conn[c].st = "open", conn' = [conn EXCEPT ![c] = AnswerPlain(@)],
               UNCHANGED <<jobState, nextId, live, req, listeners, received>>
        PROVE  IInv'
    BY <1>2, <1>n, <1>w, PlainFields, ConnOnlyStep
  <1>3. CASE RejectFrame(c) BY <1>2, <1>3 DEF RejectFrame
  <1>4. CASE FrameTimesOut(c) BY <1>2, <1>4 DEF FrameTimesOut
  <1>5. CASE ChildRequest(c)
    <2>1. conn' = Refused({c})
      BY <1>5, <1>w DEF ChildRequest, Refused, IInv, TypeOK
    <2>2. conn[c].job \in Jobs /\ jobState[conn[c].job] = "active"
      BY <1>5, <1>w DEF ChildRequest, Authenticated, Connection
    <2>3. /\ CreateRequest(conn[c].job, "child") /\ conn[c].st = "open"
          /\ listeners' = {} /\ UNCHANGED <<jobState, received>>
      BY <1>5 DEF ChildRequest, DeliverInbound, Authenticated
    <2>4. {c} \in SUBSET Conns /\ \A d \in {c} : conn[d].st = "open"
      BY <2>3
    <2> QED BY <2>1, <2>2, <2>3, <2>4, InvariantCreate
  <1>7. CASE ChildWaitAnswered(c)
    <2> DEFINE r == conn[c].id
    <2>1. /\ r \in ReqIds /\ Answered(r) /\ conn[c].st = "open"
          /\ UNCHANGED <<jobState, nextId, live, req, listeners, received>>
      BY <1>7, <1>w DEF ChildWaitAnswered, RequestsOf, Authenticated
    <2>2. PICK f \in {0, r} :
             conn' = [conn EXCEPT ![c] = Respond(conn[c], req[r].response, f)]
      BY <1>7 DEF ChildWaitAnswered, FlushOf
    <2>3. req[r].response \in Replies \cup {NoReply} /\ f \in OptionalId
      BY <1>w, <2>1, BrokerAssumption DEF Request, ReqIds, OptionalId
    <2>4. Respond(conn[c], req[r].response, f) \in Connection
      BY <1>w, <2>3, RespondType
    <2> DEFINE k == Respond(conn[c], req[r].response, f)
    <2>5. /\ k.st = "answered" /\ k.reply = req[r].response /\ k.flush = f
          /\ k.id = r
      BY <1>w, RespondFields
    <2>6. k.flush # 0 => Answered(k.flush)
      BY <2>1, <2>2, <2>5
    <2> HIDE DEF k
    <2> QED
      BY <1>w, <2>1, <2>2, <2>4, <2>5, <2>6, ConnOnlyStep DEF k
  <1>11. CASE ClientGivesUp(c)
    <2> DEFINE k == [conn[c] EXCEPT !.client = "gone"]
    <2>1. /\ k \in Connection /\ k.st = conn[c].st /\ k.flush = conn[c].flush
          /\ k.reply = conn[c].reply /\ k.id = conn[c].id /\ k.job = conn[c].job
      BY <1>w DEF Connection
    <2>2. conn' = [conn EXCEPT ![c] = k]
          /\ UNCHANGED <<jobState, nextId, live, req, listeners, received>>
      BY <1>11 DEF ClientGivesUp
    <2> HIDE DEF k
    <2> QED BY <1>w, <2>1, <2>2, ConnOnlyStep
  <1>12. CASE ClientReceives(c)
    <2> DEFINE k == [conn[c] EXCEPT !.client = "gone"]
    <2>1. /\ k \in Connection /\ k.st = conn[c].st /\ k.flush = conn[c].flush
          /\ k.reply = conn[c].reply /\ k.id = conn[c].id /\ k.job = conn[c].job
      BY <1>w DEF Connection
    <2>2. conn' = [conn EXCEPT ![c] = k]
          /\ UNCHANGED <<jobState, nextId, live, req, listeners>>
      BY <1>12 DEF ClientReceives
    <2> HIDE DEF k
    <2>3. ReceivedReplyWasAccepted'
      BY <1>12, <1>w, <2>2
      DEF ClientReceives, IInv, ReceivedReplyWasAccepted, TypeOK
    <2>4. \A d \in Conns : /\ conn'[d].st = conn[d].st /\ conn'[d].id = conn[d].id
                           /\ conn'[d].flush = conn[d].flush
                           /\ conn'[d].reply = conn[d].reply
                           /\ conn'[d].job = conn[d].job
      BY <2>1, <2>2 DEF IInv, TypeOK
    <2> QED
      BY <2>2, <2>3, <2>4
      DEF IInv, FreshIds, OnlyLiveRequestsHaveWaiters, ConsumedWereAnswered,
          FlushesFollowResponses, ListenersAwaitNothing, SentReplyWasAccepted,
          WaitersAreParked, NoWaitBehindSteering, RevokedJobsHoldNothing,
          Answered, Consumed, Parked, HasQueuedRequestForChild,
          HasPendingMainRequest, RequestsOf
  <1>6. ASSUME NEW m \in Replies, ChildReply(c, m) PROVE IInv'
    <2> DEFINE r == conn[c].id
               W == {}
               f == [req EXCEPT ![r].response = m]
    <2>1. /\ r \in ReqIds /\ r \in live /\ ~Answered(r) /\ conn[c].st = "open"
          /\ req[r].origin = "main" /\ m # NoReply
          /\ MarkConsumed(f, r)
      BY <1>6, <1>w, BrokerAssumption
      DEF ChildReply, RequestsOf, Authenticated
    <2>2. /\ f \in [ReqIds -> Request]
          /\ f[r].response = m /\ f[r].job = req[r].job
          /\ f[r].origin = req[r].origin /\ f[r].queued = req[r].queued
          /\ f[r].waiter = req[r].waiter
          /\ \A x \in ReqIds : x # r => f[x] = req[x]
      <3> DEFINE replied == [req[r] EXCEPT !.response = m]
      <3>1. req \in [ReqIds -> Request] /\ r \in ReqIds /\ m \in Replies
        BY <2>1, <1>w DEF IInv, TypeOK
      <3>2. /\ replied \in Request /\ replied.response = m
            /\ replied.job = req[r].job /\ replied.origin = req[r].origin
            /\ replied.queued = req[r].queued /\ replied.waiter = req[r].waiter
        BY <3>1 DEF Request
      <3>3. f = [req EXCEPT ![r] = replied]
        BY <3>1
      <3> HIDE DEF replied, f, r
      <3> QED BY <3>1, <3>2, <3>3
    <2>u. /\ UNCHANGED <<nextId, jobState, received>>
          /\ live' \subseteq live /\ listeners' = {}
          /\ W \in SUBSET Conns
      BY <1>6, <2>1, <2>2, MarkConsumedFields DEF ChildReply, DeliverInbound
    <2> HIDE DEF f
    <2>3. /\ \A x \in ReqIds : /\ req'[x].job = req[x].job
                               /\ req'[x].origin = req[x].origin
                               /\ req'[x].queued = req[x].queued
                               /\ req'[x].waiter = req[x].waiter
                               /\ x # r => req'[x].response = req[x].response
                               /\ x # r => req'[x].consumedAt = req[x].consumedAt
          /\ req'[r].response = m
          /\ \A x \in live \ live' : req'[x].consumedAt # 0
      BY <2>1, <2>2, MarkConsumedFields
    <2>4. \A x \in ReqIds : req'[x].consumedAt # 0 => req'[x].response # NoReply
      BY <1>w, <2>1, <2>3
    <2>5. req[r].waiter = NoConn
      BY <2>1, LiveWaiters
    <2>6. \A x \in ReqIds : req[x].waiter # NoConn => x \in live' /\ req'[x].response = NoReply
      BY <2>3, <2>4, <2>5, LiveWaiters
    <2>7. \A d \in Conns : /\ d # c => conn'[d] = conn[d]
                           /\ conn'[c].st = "answered" /\ conn'[c].flush = 0
                           /\ conn'[c].reply = NoReply
      BY <1>6, <1>w, PlainFields DEF ChildReply, IInv, TypeOK
    <2>8. \A d \in Conns : conn[d].reply # NoReply => conn[d].id # r
      <3>1. \A d \in Conns : conn[d].reply # NoReply => Answered(conn[d].id)
        BY <1>w DEF Answered
      <3> QED BY <2>1, <3>1
    <2>h. \A x \in ReqIds :
            /\ req'[x].job = req[x].job /\ req'[x].origin = req[x].origin
            /\ Answered(x) => req'[x].response = req[x].response
            /\ x \notin live => req'[x].response = req[x].response
            /\ req'[x].consumedAt # 0 => req'[x].response # NoReply
            /\ req'[x].waiter = IF req[x].waiter \in W THEN NoConn ELSE req[x].waiter
            /\ req'[x].waiter # NoConn => x \in live' /\ req'[x].response = NoReply
      BY <2>1, <2>3, <2>4, <2>6 DEF Answered
    <2>c. \A d \in Conns :
            /\ conn'[d].st = "parked" <=> conn[d].st = "parked" /\ d \notin W
            /\ conn'[d].st = "parked" => /\ conn'[d].id = conn[d].id
                                         /\ conn'[d].job = conn[d].job
            /\ conn'[d].flush # 0 => req'[conn'[d].flush].response # NoReply
            /\ conn'[d].reply # NoReply =>
                  /\ conn'[d].id \in ReqIds
                  /\ conn'[d].reply = req'[conn'[d].id].response
      <3> SUFFICES ASSUME NEW d \in Conns, d # c
                   PROVE
                     /\ conn'[d].st = "parked" <=> conn[d].st = "parked" /\ d \notin W
                     /\ conn'[d].st = "parked" => /\ conn'[d].id = conn[d].id
                                                           /\ conn'[d].job = conn[d].job
                     /\ conn'[d].flush # 0 => req'[conn'[d].flush].response # NoReply
                     /\ conn'[d].reply # NoReply =>
                           /\ conn'[d].id \in ReqIds
                           /\ conn'[d].reply = req'[conn'[d].id].response
        BY <2>1, <2>7
      <3>1. conn'[d] = conn[d]
        BY <2>7
      <3> QED BY <1>w, <2>1, <2>3, <2>8, <3>1 DEF Answered
    <2>q. \A x \in live' : ~(req'[x].queued /\ ~req[x].queued)
      BY <1>w, <2>u, <2>3
    <2> QED
      BY <2>u, <2>h, <2>c, <2>q, RequestStep
  <1>8. CASE ChildWaitParks(c)
    <2> DEFINE r == conn[c].id
               j == conn[c].job
    <2>1. /\ r \in ReqIds /\ r \in live /\ req[r].job = j /\ req[r].origin = "child"
          /\ req[r].response = NoReply /\ req[r].waiter = NoConn
          /\ ~HasQueuedRequestForChild(j) /\ jobState[j] = "active"
          /\ conn[c].st = "open" /\ j \in Jobs
      BY <1>8, <1>w
      DEF ChildWaitParks, WaitRefused, RequestsOf, Authenticated, Answered, Connection
    <2>2. /\ req'[r].waiter = c /\ req'[r].response = NoReply
          /\ req'[r].job = j /\ req'[r].origin = "child"
          /\ req'[r].consumedAt = req[r].consumedAt /\ req'[r].queued = req[r].queued
          /\ \A x \in ReqIds : x # r => req'[x] = req[x]
      BY <1>8, <1>w, <2>1 DEF ChildWaitParks, IInv, TypeOK, Request
    <2>3. /\ \A d \in Conns : d # c => conn'[d] = conn[d]
          /\ conn'[c].st = "parked" /\ conn'[c].id = r /\ conn'[c].job = j
          /\ conn'[c].flush = conn[c].flush /\ conn'[c].reply = conn[c].reply
      BY <1>8, <1>w DEF ChildWaitParks, IInv, TypeOK, Connection
    <2>4. UNCHANGED <<jobState, nextId, live, listeners, received>>
      BY <1>8 DEF ChildWaitParks
    <2>5. c # NoConn /\ \A x \in live : req[x].waiter # c
      BY <2>1, <1>w, LiveWaiters, BrokerAssumption
    <2>6. WaitersAreParked'
      <3>1. ASSUME NEW d \in Conns, conn'[d].st = "parked"
            PROVE  /\ conn'[d].id \in live' /\ req'[conn'[d].id].job = conn'[d].job
                   /\ req'[conn'[d].id].waiter = d
        <4>1. CASE d = c
          BY <2>1, <2>2, <2>3, <2>4, <4>1
        <4>2. CASE d # c
          <5>1. /\ conn[d].id \in live /\ req[conn[d].id].job = conn[d].job
                /\ req[conn[d].id].waiter = d /\ conn'[d] = conn[d]
            BY <2>3, <3>1, <4>2 DEF IInv, WaitersAreParked, Parked, RequestsOf
          <5>2. conn[d].id # r
            BY <2>1, <5>1, BrokerAssumption
          <5> QED BY <1>w, <2>2, <2>4, <5>1, <5>2
        <4> QED BY <4>1, <4>2
      <3>2. ASSUME NEW x \in live', req'[x].waiter # NoConn
            PROVE  /\ req'[x].origin = "child" /\ req'[x].response = NoReply
                   /\ req'[x].waiter \in Conns
                   /\ conn'[req'[x].waiter].st = "parked"
                   /\ conn'[req'[x].waiter].id = x
        <4>1. CASE x = r
          BY <2>2, <2>3, <4>1
        <4>2. CASE x # r
          <5>1. x \in ReqIds /\ x \in live /\ req'[x] = req[x]
            BY <1>w, <2>2, <2>4, <4>2
          <5> QED BY <2>3, <2>5, <3>2, <5>1, LiveWaiters
        <4> QED BY <4>1, <4>2
      <3> QED BY <3>1, <3>2 DEF WaitersAreParked, RequestsOf, Parked, Answered
    <2>7. NoWaitBehindSteering'
      BY <1>w, <2>1, <2>2, <2>3, <2>4
      DEF IInv, NoWaitBehindSteering, HasQueuedRequestForChild, RequestsOf, Parked,
          Answered
    <2>8. RevokedJobsHoldNothing'
      BY <1>w, <2>1, <2>2, <2>3, <2>4 DEF IInv, RevokedJobsHoldNothing, Parked
    <2>9. ListenersAwaitNothing'
      BY <1>w, <2>1, <2>2, <2>4
      DEF IInv, ListenersAwaitNothing, HasPendingMainRequest, Answered
    <2>10. FreshIds' /\ OnlyLiveRequestsHaveWaiters' /\ ConsumedWereAnswered'
      BY <2>1, <2>2, <2>4
      DEF IInv, FreshIds, OnlyLiveRequestsHaveWaiters, ConsumedWereAnswered,
          Answered, Consumed
    <2>11. \A x \in ReqIds : req'[x].response = req[x].response
      BY <2>1, <2>2
    <2>12. \A d \in Conns : conn'[d].flush = conn[d].flush /\ conn'[d].id = conn[d].id
                            /\ conn'[d].reply = conn[d].reply
      BY <2>3
    <2>13. FlushesFollowResponses'
      BY <1>w, <2>11, <2>12 DEF FlushesFollowResponses, Answered
    <2>14. SentReplyWasAccepted' /\ ReceivedReplyWasAccepted'
      BY <1>w, <2>4, <2>11, <2>12
      DEF IInv, SentReplyWasAccepted, ReceivedReplyWasAccepted
    <2> QED BY <2>6, <2>7, <2>8, <2>9, <2>10, <2>13, <2>14 DEF IInv
  <1>9. CASE WaitTimesOut(c)
    <2> DEFINE r == conn[c].id
               W == {c}
    <2>1. /\ r \in ReqIds /\ req[r].waiter = c /\ c # NoConn
          /\ req' = [req EXCEPT ![r].waiter = NoConn]
          /\ conn' = [conn EXCEPT ![c] = AnswerPlain(@)]
      BY <1>9, BrokerAssumption DEF WaitTimesOut
    <2>u. /\ UNCHANGED <<nextId, jobState, received, live, listeners>>
          /\ W \in SUBSET Conns /\ live' \subseteq live
      BY <1>9 DEF WaitTimesOut
    <2>2. \A x \in ReqIds : x # r => req[x].waiter # c
      BY <2>1, LiveWaiters
    <2>3. /\ \A x \in ReqIds : x # r => req'[x] = req[x]
          /\ req'[r] = [req[r] EXCEPT !.waiter = NoConn]
      BY <2>1 DEF IInv, TypeOK
    <2>4. \A x \in ReqIds : /\ req'[x].job = req[x].job
                            /\ req'[x].origin = req[x].origin
                            /\ req'[x].queued = req[x].queued
                            /\ req'[x].response = req[x].response
                            /\ req'[x].consumedAt = req[x].consumedAt
      <3>1. /\ req'[r].job = req[r].job
            /\ req'[r].origin = req[r].origin
            /\ req'[r].queued = req[r].queued
            /\ req'[r].response = req[r].response
            /\ req'[r].consumedAt = req[r].consumedAt
        BY <1>w, <2>1, <2>3, ClearedFields
      <3> QED BY <2>3, <3>1
    <2>5. req'[r].waiter = NoConn
      BY <1>w, <2>1, <2>3 DEF Request
    <2>7. \A d \in Conns : /\ d # c => conn'[d] = conn[d]
                           /\ conn'[c].st = "answered" /\ conn'[c].flush = 0
                           /\ conn'[c].reply = NoReply
      BY <1>w, <2>1, PlainFields DEF IInv, TypeOK
    <2>h. \A x \in ReqIds :
            /\ req'[x].job = req[x].job /\ req'[x].origin = req[x].origin
            /\ Answered(x) => req'[x].response = req[x].response
            /\ x \notin live => req'[x].response = req[x].response
            /\ req'[x].consumedAt # 0 => req'[x].response # NoReply
            /\ req'[x].waiter = IF req[x].waiter \in W THEN NoConn ELSE req[x].waiter
            /\ req'[x].waiter # NoConn => x \in live' /\ req'[x].response = NoReply
      BY <1>w, <2>u, <2>1, <2>2, <2>3, <2>4, <2>5, LiveWaiters
    <2>c. \A d \in Conns :
            /\ conn'[d].st = "parked" <=> conn[d].st = "parked" /\ d \notin W
            /\ conn'[d].st = "parked" => /\ conn'[d].id = conn[d].id
                                         /\ conn'[d].job = conn[d].job
            /\ conn'[d].flush # 0 => req'[conn'[d].flush].response # NoReply
            /\ conn'[d].reply # NoReply =>
                  /\ conn'[d].id \in ReqIds
                  /\ conn'[d].reply = req'[conn'[d].id].response
      BY <1>w, <2>4, <2>7 DEF Answered
    <2>q. \A x \in live' : ~(req'[x].queued /\ ~req[x].queued)
      BY <1>w, <2>u, <2>4
    <2> QED
      BY <2>u, <2>h, <2>c, <2>q, RequestStep
  <1>10. CASE Flushed(c)
    <2> DEFINE r == conn[c].flush
               W == {}
    <2>1. r \in ReqIds /\ Answered(r) /\ req \in [ReqIds -> Request]
      BY <1>10, <1>w DEF Flushed, IInv, TypeOK
    <2>2. \A d \in Conns : /\ d # c => conn'[d] = conn[d]
                           /\ conn'[c].st = conn[c].st /\ conn'[c].flush = 0
                           /\ conn'[c].reply = conn[c].reply
                           /\ conn'[c].id = conn[c].id /\ conn'[c].job = conn[c].job
      BY <1>10, <1>w DEF Flushed, IInv, TypeOK, Connection
    <2>3. /\ live' \subseteq live
          /\ \A x \in ReqIds : /\ req'[x].job = req[x].job
                               /\ req'[x].origin = req[x].origin
                               /\ req'[x].queued = req[x].queued
                               /\ req'[x].waiter = req[x].waiter
                               /\ req'[x].response = req[x].response
                               /\ x # r => req'[x].consumedAt = req[x].consumedAt
          /\ \A x \in live \ live' : req'[x].consumedAt # 0
      <3>1. CASE r \in live
        BY <1>10, <2>1, <3>1, MarkConsumedFields DEF Flushed
      <3>2. CASE r \notin live
        BY <1>10, <3>2 DEF Flushed
      <3> QED BY <3>1, <3>2
    <2>u. /\ UNCHANGED <<nextId, jobState, received, listeners>>
          /\ live' \subseteq live /\ W \in SUBSET Conns
      BY <1>10, <2>3 DEF Flushed
    <2>4. \A x \in ReqIds : req'[x].consumedAt # 0 => req'[x].response # NoReply
      BY <1>w, <2>1, <2>3 DEF Answered
    <2>5. \A x \in ReqIds : req[x].waiter # NoConn => x \in live' /\ req'[x].response = NoReply
      BY <2>3, <2>4, LiveWaiters
    <2>h. \A x \in ReqIds :
            /\ req'[x].job = req[x].job /\ req'[x].origin = req[x].origin
            /\ Answered(x) => req'[x].response = req[x].response
            /\ x \notin live => req'[x].response = req[x].response
            /\ req'[x].consumedAt # 0 => req'[x].response # NoReply
            /\ req'[x].waiter = IF req[x].waiter \in W THEN NoConn ELSE req[x].waiter
            /\ req'[x].waiter # NoConn => x \in live' /\ req'[x].response = NoReply
      BY <2>3, <2>4, <2>5
    <2>c. \A d \in Conns :
            /\ conn'[d].st = "parked" <=> conn[d].st = "parked" /\ d \notin W
            /\ conn'[d].st = "parked" => /\ conn'[d].id = conn[d].id
                                         /\ conn'[d].job = conn[d].job
            /\ conn'[d].flush # 0 => req'[conn'[d].flush].response # NoReply
            /\ conn'[d].reply # NoReply =>
                  /\ conn'[d].id \in ReqIds
                  /\ conn'[d].reply = req'[conn'[d].id].response
      BY <1>w, <2>2, <2>3 DEF Answered
    <2>q. \A x \in live' : ~(req'[x].queued /\ ~req[x].queued)
      BY <1>w, <2>u, <2>3
    <2> QED
      BY <2>u, <2>h, <2>c, <2>q, RequestStep
  <1>13. CASE SocketCloses(c)
    <2> DEFINE W == {c}
    <2>u. /\ UNCHANGED <<nextId, jobState, received, live, listeners>>
          /\ W \in SUBSET Conns /\ live' \subseteq live
      BY <1>13 DEF SocketCloses
    <2>1. \A x \in ReqIds : /\ req'[x].job = req[x].job
                            /\ req'[x].origin = req[x].origin
                            /\ req'[x].queued = req[x].queued
                            /\ req'[x].response = req[x].response
                            /\ req'[x].consumedAt = req[x].consumedAt
                            /\ req'[x].waiter = IF x \in live /\ req[x].waiter = c
                                                THEN NoConn ELSE req[x].waiter
      BY <1>13, <1>w, ClearedFields DEF SocketCloses
    <2>2. \A x \in ReqIds : req[x].waiter = c => x \in live
      BY LiveWaiters, BrokerAssumption
    <2>7. /\ \A d \in Conns : d # c => conn'[d] = conn[d]
          /\ conn'[c].st = "closed" /\ conn'[c].flush = 0 /\ conn'[c].reply = NoReply
      BY <1>13 DEF SocketCloses, Closed, IInv, TypeOK
    <2>h. \A x \in ReqIds :
            /\ req'[x].job = req[x].job /\ req'[x].origin = req[x].origin
            /\ Answered(x) => req'[x].response = req[x].response
            /\ x \notin live => req'[x].response = req[x].response
            /\ req'[x].consumedAt # 0 => req'[x].response # NoReply
            /\ req'[x].waiter = IF req[x].waiter \in W THEN NoConn ELSE req[x].waiter
            /\ req'[x].waiter # NoConn => x \in live' /\ req'[x].response = NoReply
      BY <1>w, <2>u, <2>1, <2>2, LiveWaiters
    <2>c. \A d \in Conns :
            /\ conn'[d].st = "parked" <=> conn[d].st = "parked" /\ d \notin W
            /\ conn'[d].st = "parked" => /\ conn'[d].id = conn[d].id
                                         /\ conn'[d].job = conn[d].job
            /\ conn'[d].flush # 0 => req'[conn'[d].flush].response # NoReply
            /\ conn'[d].reply # NoReply =>
                  /\ conn'[d].id \in ReqIds
                  /\ conn'[d].reply = req'[conn'[d].id].response
      BY <1>w, <2>1, <2>7 DEF Answered
    <2>q. \A x \in live' : ~(req'[x].queued /\ ~req[x].queued)
      BY <1>w, <2>u, <2>1
    <2> QED
      BY <2>u, <2>h, <2>c, <2>q, RequestStep
  <1> QED BY <1>1, <1>3, <1>4, <1>5, <1>6, <1>7, <1>8, <1>9, <1>10, <1>11,
             <1>12, <1>13
          DEF ConnStep, HandlesFrame

LEMMA InvariantStep == IInv /\ [Next]_vars => IInv'
  <1> SUFFICES ASSUME IInv, [Next]_vars PROVE IInv'
    OBVIOUS
  <1>1. TypeOK'
    BY TypeStep DEF IInv
  <1>2. CASE UNCHANGED vars
    BY <1>1, <1>2, FrameStep DEF vars, IInv, ListenersAwaitNothing
  <1> QED BY <1>1, <1>2, InvariantServer, InvariantMain, InvariantConn DEF Next

(***************************************************************************)
(* The inductive invariant holds in every reachable state.                 *)
(***************************************************************************)
THEOREM InvariantCorrect == Spec => []IInv
  BY InvariantInit, InvariantStep, PTL DEF Spec

(***************************************************************************)
(* The waiter fields and the suspended polls always name each other.       *)
(***************************************************************************)
THEOREM WaitersCorrect == Spec => []WaitersAreParked
  <1>1. IInv => WaitersAreParked
    BY DEF IInv
  <1> QED BY <1>1, InvariantCorrect, PTL

(***************************************************************************)
(* No child sits in a wait behind a queued steering message.               *)
(***************************************************************************)
THEOREM SteeringReachesChild == Spec => []NoWaitBehindSteering
  <1>1. IInv => NoWaitBehindSteering
    BY DEF IInv
  <1> QED BY <1>1, InvariantCorrect, PTL

(***************************************************************************)
(* The main agent and a child never wait for each other: the poll of a     *)
(* child hangs on a request the main agent has not answered, and the main  *)
(* agent does not suspend a wait while there is one.                       *)
(***************************************************************************)
THEOREM MutualWaitImpossible == Spec => []NoMutualWait
  <1>1. IInv => NoMutualWait
    <2> SUFFICES ASSUME IInv, listeners # {}, NEW c \in Parked PROVE FALSE
      BY DEF NoMutualWait
    <2>1. conn[c].id \in live /\ req[conn[c].id].waiter # NoConn
      BY BrokerAssumption DEF IInv, WaitersAreParked, RequestsOf, Parked
    <2>2. req[conn[c].id].origin = "child" /\ ~Answered(conn[c].id)
      BY <2>1 DEF IInv, WaitersAreParked
    <2> QED
      BY <2>1, <2>2 DEF IInv, ListenersAwaitNothing, HasPendingMainRequest
  <1> QED BY <1>1, InvariantCorrect, PTL

(***************************************************************************)
(* A revoked job keeps neither a request nor a suspended poll.             *)
(***************************************************************************)
THEOREM RevocationIsComplete == Spec => []RevokedJobsHoldNothing
  <1>1. IInv => RevokedJobsHoldNothing
    BY DEF IInv
  <1> QED BY <1>1, InvariantCorrect, PTL

(***************************************************************************)
(* A child reads only responses the broker accepted.                       *)
(***************************************************************************)
THEOREM ReceivedCorrect == Spec => []ReceivedReplyWasAccepted
  <1>1. IInv => ReceivedReplyWasAccepted
    BY DEF IInv
  <1> QED BY <1>1, InvariantCorrect, PTL

-----------------------------------------------------------------------------
(***************************************************************************)
(* How a step may change the requests: the steps that leave them alone or  *)
(* take some away, the two that create one, and the two that mark one      *)
(* consumed.                                                               *)
(***************************************************************************)
\* A step that creates no request and gives none its stamp.
Recedes ==
    /\ live' \subseteq live
    /\ \A x \in ReqIds : /\ req'[x].job = req[x].job
                         /\ req'[x].origin = req[x].origin
                         /\ req'[x].consumedAt = req[x].consumedAt
                         /\ Answered(x) => req'[x].response = req[x].response
    /\ \A x \in live \ live' :
          req[x].origin = "child" /\ ~Answered(x) => jobState'[req[x].job] = "revoked"

Creates == \E j \in Jobs, origin \in {"main", "child"} : CreateRequest(j, origin)

\* f is what markConsumed finds: ChildReply has just set the response of r.
Consumes ==
    \E f \in [ReqIds -> Request], r \in ReqIds :
        /\ MarkConsumed(f, r)
        /\ \A x \in ReqIds : x # r => f[x] = req[x]
        /\ f[r].job = req[r].job /\ f[r].consumedAt = req[r].consumedAt
        /\ f[r].origin = req[r].origin
        /\ Answered(r) => f[r].response = req[r].response
        /\ Answered(r) \/ req[r].origin = "main"

LEMMA RevokeRecedes ==
  ASSUME TypeOK, NEW S \in SUBSET Jobs, Revoke(S)
  PROVE  Recedes
  <1>1. \A x \in ReqIds : /\ req'[x].job = req[x].job
                          /\ req'[x].origin = req[x].origin
                          /\ req'[x].consumedAt = req[x].consumedAt
                          /\ req'[x].response = req[x].response
    BY ClearedFields DEF Revoke, TypeOK
  <1>2. live' \subseteq live /\ \A x \in live \ live' : req[x].job \in S
    BY DEF Revoke, RevocableRequests
  <1>3. \A x \in live : req[x].job \in Jobs
    BY DEF TypeOK, Request
  <1>4. \A j \in S : jobState'[j] = "revoked"
    BY DEF Revoke
  <1> QED BY <1>1, <1>2, <1>4 DEF Recedes

LEMMA IdleRecedes == UNCHANGED <<live, req>> => Recedes
  BY DEF Recedes

LEMMA ServerRecedes == ASSUME IInv, ServerStep PROVE Recedes
  <1>1. ASSUME DropEverything PROVE Recedes
    BY <1>1, RevokeRecedes DEF DropEverything, ActiveJobs, IInv
  <1> QED
    BY <1>1, IdleRecedes
    DEF ServerStep, Start, StartSettles, Shutdown, ShutdownFinishes, Purge,
        Fail, Tick

LEMMA MainRequests == ASSUME IInv, MainStep PROVE Recedes \/ Creates
  <1>r. \A x \in ReqIds : req[x] \in Request
    BY DEF IInv, TypeOK
  <1>1. ASSUME NEW j \in Jobs, IssueCredentials(j) PROVE Recedes
    BY <1>1, IdleRecedes DEF IssueCredentials
  <1>2. ASSUME NEW j \in Jobs, CreateMainRequest(j) PROVE Creates
    BY <1>2 DEF CreateMainRequest, Creates
  <1>3. ASSUME NEW S \in SUBSET Jobs, RevokeJobs(S) PROVE Recedes
    BY <1>3, RevokeRecedes DEF RevokeJobs, IInv
  <1>4. ASSUME NEW r \in ReqIds, RollbackMainRequest(r) PROVE Recedes
    <2>1. \A x \in ReqIds : /\ req'[x].job = req[x].job
                            /\ req'[x].origin = req[x].origin
                            /\ req'[x].consumedAt = req[x].consumedAt
                            /\ req'[x].response = req[x].response
      BY <1>4, <1>r, ClearedFields DEF RollbackMainRequest, IInv, TypeOK
    <2> QED BY <1>4, <2>1 DEF RollbackMainRequest, CanRollBack, Recedes
  <1>5. ASSUME NEW r \in ReqIds, MarkMainRequestQueued(r) PROVE Recedes
    <2>1. \A x \in ReqIds : \/ req'[x] = [req[x] EXCEPT !.queued = TRUE]
                            \/ req'[x] = [req[x] EXCEPT !.waiter = NoConn]
                            \/ req'[x] = req[x]
      BY <1>5 DEF MarkMainRequestQueued
    <2>2. ASSUME NEW x \in ReqIds
          PROVE  /\ req'[x].job = req[x].job
                 /\ req'[x].origin = req[x].origin
                 /\ req'[x].consumedAt = req[x].consumedAt
                 /\ req'[x].response = req[x].response
      <3>1. CASE req'[x] = [req[x] EXCEPT !.queued = TRUE]
        BY <1>r, <3>1, QueuedFields
      <3>2. CASE req'[x] = [req[x] EXCEPT !.waiter = NoConn]
        BY <1>r, <3>2, ClearedFields
      <3> QED BY <2>1, <3>1, <3>2
    <2>3. live' = live
      BY <1>5 DEF MarkMainRequestQueued
    <2> QED BY <2>2, <2>3 DEF Recedes
  <1>6. ASSUME NEW r \in ReqIds, NEW m \in Replies, ReplyFromMain(r, m)
        PROVE  Recedes
    <2>1. \A x \in ReqIds : /\ req'[x].job = req[x].job
                            /\ req'[x].origin = req[x].origin
                            /\ req'[x].consumedAt = req[x].consumedAt
                            /\ x # r => req'[x].response = req[x].response
      BY <1>6, <1>r DEF ReplyFromMain, IInv, TypeOK, Request
    <2>2. live' = live /\ ~Answered(r)
      BY <1>6 DEF ReplyFromMain, AwaitsMain
    <2> QED BY <2>1, <2>2 DEF Recedes
  <1>7. ASSUME NEW w \in MainWaits, BeginMainWait(w) \/ EndMainWait(w)
        PROVE  Recedes
    BY <1>7, IdleRecedes DEF BeginMainWait, EndMainWait
  <1> QED BY <1>1, <1>2, <1>3, <1>4, <1>5, <1>6, <1>7 DEF MainStep

LEMMA ConnRequests ==
  ASSUME IInv, NEW c \in Conns, ConnStep(c)
  PROVE  Recedes \/ Creates \/ Consumes
  <1>r. \A x \in ReqIds : req[x] \in Request
    BY DEF IInv, TypeOK
  <1>1. ASSUME NEW j \in Jobs, NEW op \in {"request", "reply", "wait"},
               NEW r \in OptionalId, NEW timed \in BOOLEAN,
               Connect(c, j, op, r, timed)
        PROVE  Recedes
    BY <1>1, IdleRecedes DEF Connect
  <1>2. CASE \/ RejectFrame(c) \/ FrameTimesOut(c) \/ ChildWaitAnswered(c)
             \/ ClientReceives(c) \/ ClientGivesUp(c)
    BY <1>2, IdleRecedes
    DEF RejectFrame, FrameTimesOut, ChildWaitAnswered, ClientReceives, ClientGivesUp
  <1>3. CASE ChildRequest(c)
    BY <1>3 DEF ChildRequest, Creates, IInv, TypeOK, Connection
  <1>4. ASSUME NEW m \in Replies, ChildReply(c, m) PROVE Consumes
    <2> DEFINE r == conn[c].id
               f == [req EXCEPT ![r].response = m]
    <2>1. r \in ReqIds /\ req[r].origin = "main" /\ ~Answered(r) /\ MarkConsumed(f, r)
      BY <1>4 DEF ChildReply, RequestsOf, IInv, TypeOK
    <2>2. [req[r] EXCEPT !.response = m] \in Request
      BY <1>r, <2>1 DEF Request
    <2>3. f \in [ReqIds -> Request]
      BY <2>1, <2>2 DEF IInv, TypeOK
    <2>4. \A x \in ReqIds : x # r => f[x] = req[x]
      BY DEF IInv, TypeOK
    <2>5. /\ f[r].job = req[r].job /\ f[r].consumedAt = req[r].consumedAt
          /\ f[r].origin = req[r].origin
      BY <2>1, <1>r DEF IInv, TypeOK, Request
    <2> HIDE DEF f, r
    <2> QED BY <2>1, <2>3, <2>4, <2>5 DEF Consumes
  <1>5. CASE ChildWaitParks(c)
    <2>1. \A x \in ReqIds : /\ req'[x].job = req[x].job
                            /\ req'[x].origin = req[x].origin
                            /\ req'[x].consumedAt = req[x].consumedAt
                            /\ req'[x].response = req[x].response
      BY <1>5, <1>r DEF ChildWaitParks, IInv, TypeOK, Request
    <2> QED BY <1>5, <2>1 DEF ChildWaitParks, Recedes
  <1>6. CASE WaitTimesOut(c)
    <2>1. \A x \in ReqIds : /\ req'[x].job = req[x].job
                            /\ req'[x].origin = req[x].origin
                            /\ req'[x].consumedAt = req[x].consumedAt
                            /\ req'[x].response = req[x].response
      BY <1>6, <1>r, ClearedFields DEF WaitTimesOut, IInv, TypeOK
    <2> QED BY <1>6, <2>1 DEF WaitTimesOut, Recedes
  <1>7. CASE Flushed(c)
    <2>1. CASE conn[c].flush \in live
      <3>1. conn[c].flush \in ReqIds /\ Answered(conn[c].flush)
        BY <1>7, <2>1 DEF Flushed, IInv, FlushesFollowResponses, TypeOK
      <3>2. MarkConsumed(req, conn[c].flush)
        BY <1>7, <2>1 DEF Flushed
      <3> QED BY <3>1, <3>2 DEF Consumes, IInv, TypeOK
    <2>2. CASE conn[c].flush \notin live
      BY <1>7, <2>2, IdleRecedes DEF Flushed
    <2> QED BY <2>1, <2>2
  <1>8. CASE SocketCloses(c)
    <2>1. \A x \in ReqIds : /\ req'[x].job = req[x].job
                            /\ req'[x].origin = req[x].origin
                            /\ req'[x].consumedAt = req[x].consumedAt
                            /\ req'[x].response = req[x].response
      BY <1>8, <1>r, ClearedFields DEF SocketCloses
    <2> QED BY <1>8, <2>1 DEF SocketCloses, Recedes
  <1> QED BY <1>1, <1>2, <1>3, <1>4, <1>5, <1>6, <1>7, <1>8
          DEF ConnStep, HandlesFrame

\* Every step changes the requests in one of these three ways.
LEMMA RequestChanges ==
  ASSUME IInv, [Next]_vars PROVE Recedes \/ Creates \/ Consumes
  BY ServerRecedes, MainRequests, ConnRequests, IdleRecedes DEF Next, vars

(***************************************************************************)
(* Counting.  Request identities are finitely many, and each nonempty set  *)
(* of numbers has a least one.                                             *)
(***************************************************************************)
LEMMA ReqIdsFinite ==
  ASSUME NEW S \in SUBSET ReqIds
  PROVE  IsFiniteSet(S) /\ Cardinality(S) \in Nat
  <1>1. IsFiniteSet(ReqIds)
    BY FS_Interval, BrokerAssumption DEF ReqIds
  <1>2. IsFiniteSet(S)
    BY <1>1, FS_Subset
  <1> QED BY <1>2, FS_CardinalityType

LEMMA SubsetBound ==
  ASSUME NEW S \in SUBSET ReqIds, NEW T \in SUBSET S, NEW n \in Nat,
         Cardinality(S) <= n
  PROVE  Cardinality(T) <= n
  <1>1. Cardinality(T) <= Cardinality(S)
    BY ReqIdsFinite, FS_Subset
  <1> QED BY <1>1, ReqIdsFinite

\* The numbers of a nonempty set have a first one in the order of eviction.
LEMMA EarliestExists ==
  ASSUME NEW f \in [ReqIds -> Request], NEW K \in SUBSET ReqIds, K # {}
  PROVE  \E y \in K : \A x \in K \ {y} : Later(f, x, y)
  <1> DEFINE D(y) == {x \in K : Later(f, y, x)}
             T == {D(y) : y \in K}
             R == FiniteSubsetsOf(ReqIds)
  <1>t. \A x \in ReqIds : f[x].consumedAt \in Nat /\ x \in Nat
    BY DEF Request, ReqIds
  <1>1. T \subseteq FiniteSubsetsOf(ReqIds) /\ T # {}
    BY ReqIdsFinite DEF FiniteSubsetsOf
  <1>2. IsWellFoundedOn(StrictSubsetOrdering(ReqIds), FiniteSubsetsOf(ReqIds))
    BY FS_StrictSubsetOrderingWellFounded
  <1>3. PICK d \in T : \A e \in T : ~(<<e, d>> \in StrictSubsetOrdering(ReqIds))
    BY <1>1, <1>2, WFMin
  <1>4. PICK y \in K : d = D(y)
    OBVIOUS
  <1>5. ASSUME NEW x \in K, Later(f, y, x) PROVE FALSE
    <2>1. D(x) \subseteq D(y) /\ x \in D(y) /\ x \notin D(x)
      BY <1>t, <1>5 DEF Later
    <2>2. <<D(x), D(y)>> \in StrictSubsetOrdering(ReqIds)
      BY <2>1 DEF StrictSubsetOrdering
    <2> QED BY <1>3, <1>4, <2>2
  <1> QED BY <1>t, <1>5 DEF Later

\* What an eviction leaves of the consumed requests of a job.
LEMMA EvictionBounds ==
  ASSUME NEW f \in [ReqIds -> Request], NEW j, live \in SUBSET ReqIds,
         NEW K, K = {y \in live \ Evicted(f, j) : f[y].job = j /\ f[y].consumedAt # 0}
  PROVE  Cardinality(K) <= MaxRetained
  <1> DEFINE S == {x \in live : f[x].job = j /\ f[x].consumedAt # 0}
             after(y) == {x \in S : Later(f, x, y)}
  <1>0. S \in SUBSET ReqIds /\ K \in SUBSET S
    OBVIOUS
  <1>1. CASE K = {}
    BY <1>1, FS_EmptySet, BrokerAssumption
  <1>2. CASE K # {}
    <2>1. PICK y \in K : \A x \in K \ {y} : Later(f, x, y)
      BY <1>0, <1>2, EarliestExists
    <2>2. K \ {y} \in SUBSET after(y)
      BY <1>0, <2>1
    <2>3. ~(Cardinality(after(y)) >= MaxRetained)
      BY <2>1 DEF Evicted
    <2>4. after(y) \in SUBSET ReqIds
      OBVIOUS
    <2> HIDE DEF S, after
    <2>5. Cardinality(after(y)) \in Nat /\ IsFiniteSet(after(y))
      BY <2>4, ReqIdsFinite
    <2>6. Cardinality(K \ {y}) <= Cardinality(after(y))
      BY <2>2, <2>5, FS_Subset
    <2>7. K \in SUBSET ReqIds
      BY <1>0
    <2>8. IsFiniteSet(K) /\ Cardinality(K) \in Nat
      BY <2>7, ReqIdsFinite
    <2>9. Cardinality(K \ {y}) = Cardinality(K) - 1
      BY <2>1, <2>8, FS_RemoveElement
    <2> QED BY <2>3, <2>5, <2>6, <2>8, <2>9, BrokerAssumption
  <1> QED BY <1>1, <1>2

(***************************************************************************)
(* The bounds, step by step.                                               *)
(***************************************************************************)
ConsumedOf(j) == {r \in RequestsOf(j) : Consumed(r)}

LEMMA BoundsByInclusion ==
  ASSUME TypeOK, TypeOK', RequestsBounded,
         \A j \in Jobs : /\ Outstanding(j)' \subseteq Outstanding(j)
                         /\ ConsumedOf(j)' \subseteq ConsumedOf(j)
  PROVE  RequestsBounded'
  <1> SUFFICES ASSUME NEW j \in Jobs
               PROVE  /\ Cardinality(Outstanding(j)') <= MaxOutstanding
                      /\ Cardinality(ConsumedOf(j)') <= MaxRetained
    BY DEF RequestsBounded, ConsumedOf
  <1>1. /\ Outstanding(j) \in SUBSET ReqIds /\ ConsumedOf(j) \in SUBSET ReqIds
        /\ Cardinality(Outstanding(j)) <= MaxOutstanding
        /\ Cardinality(ConsumedOf(j)) <= MaxRetained
    BY DEF RequestsBounded, ConsumedOf, Outstanding, RequestsOf, TypeOK
  <1> QED BY <1>1, SubsetBound, BrokerAssumption

LEMMA BoundsStep ==
  ASSUME IInv, IInv', RequestsBounded, [Next]_vars
  PROVE  RequestsBounded'
  <1>t. TypeOK /\ TypeOK'
    BY DEF IInv
  <1>1. CASE Recedes
    <2>1. \A j \in Jobs : /\ Outstanding(j)' \subseteq Outstanding(j)
                          /\ ConsumedOf(j)' \subseteq ConsumedOf(j)
      BY <1>1, <1>t
      DEF Recedes, Outstanding, ConsumedOf, RequestsOf, Consumed, TypeOK
    <2> QED BY <1>t, <2>1, BoundsByInclusion
  <1>2. CASE Creates
    <2>1. PICK j \in Jobs, origin \in {"main", "child"} : CreateRequest(j, origin)
      BY <1>2 DEF Creates
    <2>2. nextId \in ReqIds /\ nextId \notin live
      BY <2>1, BrokerAssumption DEF CreateRequest, IInv, FreshIds, TypeOK, ReqIds
    <2>3. /\ live' = live \cup {nextId}
          /\ \A x \in ReqIds : x # nextId => req'[x] = req[x]
          /\ req'[nextId].job = j /\ req'[nextId].consumedAt = 0
      BY <2>1, <2>2, <1>t DEF CreateRequest, BlankRequest, TypeOK
    <2>4. \A k \in Jobs : ConsumedOf(k)' = ConsumedOf(k)
      BY <2>2, <2>3, <1>t DEF ConsumedOf, RequestsOf, Consumed, TypeOK
    <2>5. \A k \in Jobs : k # j => Outstanding(k)' = Outstanding(k)
      BY <2>2, <2>3, <1>t DEF Outstanding, RequestsOf, Consumed, TypeOK
    <2>6. Outstanding(j)' = Outstanding(j) \cup {nextId} /\ nextId \notin Outstanding(j)
      BY <2>2, <2>3, <1>t DEF Outstanding, RequestsOf, Consumed, TypeOK
    <2>7. Outstanding(j) \in SUBSET ReqIds
      BY <1>t DEF Outstanding, RequestsOf, TypeOK
    <2>8. IsFiniteSet(Outstanding(j)) /\ Cardinality(Outstanding(j)) \in Nat
      BY <2>7, ReqIdsFinite
    <2>9. Cardinality(Outstanding(j)') = Cardinality(Outstanding(j)) + 1
      BY <2>6, <2>8, FS_AddElement
    <2>10. Cardinality(Outstanding(j)) < MaxOutstanding
      BY <2>1 DEF CreateRequest
    <2>11. Cardinality(Outstanding(j)') <= MaxOutstanding
      BY <2>8, <2>9, <2>10, BrokerAssumption
    <2>12. ASSUME NEW k \in Jobs
           PROVE  /\ Cardinality(Outstanding(k)') <= MaxOutstanding
                  /\ Cardinality(ConsumedOf(k)') <= MaxRetained
      BY <2>4, <2>5, <2>11 DEF RequestsBounded, ConsumedOf
    <2> QED BY <2>12 DEF RequestsBounded, ConsumedOf
  <1>3. CASE Consumes
    <2>1. PICK f \in [ReqIds -> Request], r \in ReqIds :
             /\ MarkConsumed(f, r)
             /\ \A x \in ReqIds : x # r => f[x] = req[x]
             /\ f[r].job = req[r].job /\ f[r].consumedAt = req[r].consumedAt
      BY <1>3 DEF Consumes
    <2>2. /\ req' = Stamped(f, r) /\ live' = live \ Evicted(req', f[r].job)
          /\ live' \subseteq live
      BY <2>1 DEF MarkConsumed
    <2>3. \A x \in ReqIds : /\ req'[x].job = req[x].job
                            /\ x # r => req'[x].consumedAt = req[x].consumedAt
      BY <2>1, MarkConsumedFields
    <2>4. req'[r].consumedAt = 0 => req[r].consumedAt = 0
      BY <2>1, <2>2 DEF Stamped, Request
    <2>5. \A k \in Jobs : Outstanding(k)' \subseteq Outstanding(k)
      BY <2>2, <2>3, <2>4, <1>t DEF Outstanding, RequestsOf, Consumed, TypeOK
    <2>6. \A k \in Jobs : k # f[r].job => ConsumedOf(k)' \subseteq ConsumedOf(k)
      BY <2>1, <2>2, <2>3, <1>t DEF ConsumedOf, RequestsOf, Consumed, TypeOK
    <2>7. ConsumedOf(f[r].job)' =
             {y \in live \ Evicted(req', f[r].job) :
                 req'[y].job = f[r].job /\ req'[y].consumedAt # 0}
      BY <2>2 DEF ConsumedOf, RequestsOf, Consumed
    <2>8. req' \in [ReqIds -> Request] /\ live \in SUBSET ReqIds
      BY <1>t DEF TypeOK
    <2>9. Cardinality(ConsumedOf(f[r].job)') <= MaxRetained
      BY <2>7, <2>8, EvictionBounds
    <2>10. ASSUME NEW k \in Jobs
           PROVE  /\ Cardinality(Outstanding(k)') <= MaxOutstanding
                  /\ Cardinality(ConsumedOf(k)') <= MaxRetained
      <3>1. /\ Outstanding(k) \in SUBSET ReqIds /\ ConsumedOf(k) \in SUBSET ReqIds
            /\ Cardinality(Outstanding(k)) <= MaxOutstanding
            /\ Cardinality(ConsumedOf(k)) <= MaxRetained
        BY <1>t DEF RequestsBounded, ConsumedOf, Outstanding, RequestsOf, TypeOK
      <3>2. Cardinality(Outstanding(k)') <= MaxOutstanding
        BY <2>5, <3>1, SubsetBound, BrokerAssumption
      <3>3. k # f[r].job => Cardinality(ConsumedOf(k)') <= MaxRetained
        BY <2>6, <3>1, SubsetBound, BrokerAssumption
      <3> QED BY <2>9, <3>2, <3>3
    <2> QED BY <2>10 DEF RequestsBounded, ConsumedOf
  <1> QED BY <1>1, <1>2, <1>3, RequestChanges

LEMMA BoundsInit == Init => RequestsBounded
  <1> SUFFICES ASSUME Init, NEW j \in Jobs
               PROVE  /\ Cardinality(Outstanding(j)) <= MaxOutstanding
                      /\ Cardinality(ConsumedOf(j)) <= MaxRetained
    BY DEF RequestsBounded, ConsumedOf
  <1>1. Outstanding(j) = {} /\ ConsumedOf(j) = {}
    BY DEF Init, Outstanding, ConsumedOf, RequestsOf
  <1> QED BY <1>1, FS_EmptySet, BrokerAssumption

(***************************************************************************)
(* What a job holds is bounded while it is active, and is nothing once it  *)
(* is revoked: for any limits, in every order of the broker's handlers.    *)
(***************************************************************************)
THEOREM HoldingsCorrect == Spec => []HoldingsAreBounded
  <1>1. Init => IInv /\ RequestsBounded
    BY InvariantInit, BoundsInit
  <1>2. IInv /\ RequestsBounded /\ [Next]_vars => (IInv /\ RequestsBounded)'
    BY InvariantStep, BoundsStep
  <1>3. IInv /\ RequestsBounded => HoldingsAreBounded
    BY DEF IInv, HoldingsAreBounded
  <1> QED BY <1>1, <1>2, <1>3, PTL DEF Spec

(***************************************************************************)
(* The first accepted response to a request is never changed.              *)
(***************************************************************************)
LEMMA ResponseKept ==
  ASSUME IInv, [Next]_vars, NEW r \in ReqIds, Answered(r)
  PROVE  req'[r].response = req[r].response
  <1>1. CASE Recedes
    BY <1>1 DEF Recedes
  <1>2. CASE Creates
    <2>1. PICK j \in Jobs, origin \in {"main", "child"} : CreateRequest(j, origin)
      BY <1>2 DEF Creates
    <2>2. r # nextId
      BY <2>1, BrokerAssumption DEF CreateRequest, IInv, FreshIds, TypeOK, ReqIds
    <2> QED BY <2>1, <2>2 DEF CreateRequest, IInv, TypeOK
  <1>3. CASE Consumes
    BY <1>3, MarkConsumedFields DEF Consumes
  <1> QED BY <1>1, <1>2, <1>3, RequestChanges

LEMMA RequestNotLost ==
  ASSUME IInv, IInv', [Next]_vars, NEW r \in live, req[r].origin = "child",
         ~Answered(r), r \notin live'
  PROVE  jobState'[req[r].job] = "revoked"
  <1>1. CASE Recedes
    BY <1>1 DEF Recedes
  <1>2. CASE Creates
    BY <1>2 DEF Creates, CreateRequest
  <1>3. CASE Consumes
    <2>1. PICK f \in [ReqIds -> Request], k \in ReqIds :
             /\ MarkConsumed(f, k)
             /\ \A x \in ReqIds : x # k => f[x] = req[x]
             /\ Answered(k) \/ req[k].origin = "main"
      BY <1>3 DEF Consumes
    <2>2. r # k /\ r \in ReqIds
      BY <2>1 DEF IInv, TypeOK
    <2>3. req'[r].consumedAt # 0 /\ req'[r].consumedAt = req[r].consumedAt
      BY <2>1, <2>2, MarkConsumedFields
    <2> QED BY <2>2, <2>3 DEF IInv, ConsumedWereAnswered, Consumed
  <1> QED BY <1>1, <1>2, <1>3, RequestChanges

(***************************************************************************)
(* No step of the broker takes an accepted response back, or loses an      *)
(* unanswered request of a child whose job is not being revoked.           *)
(***************************************************************************)
THEOREM ResponsesCorrect == Spec => ResponsesAreFinal
  <1>1. IInv /\ IInv' /\ [Next]_vars =>
           [\A r \in ReqIds : Answered(r) => req'[r].response = req[r].response]_vars
    BY ResponseKept
  <1>2. IInv /\ IInv' /\ [Next]_vars =>
           [\A r \in live : req[r].origin = "child" /\ ~Answered(r) /\ r \notin live'
              => jobState'[req[r].job] = "revoked"]_vars
    BY RequestNotLost
  <1> QED
    BY <1>1, <1>2, InvariantCorrect, PTL
    DEF ResponsesAreFinal, FirstResponseWins, OnlyRevocationCancelsChildRequests, Spec

-----------------------------------------------------------------------------
\* The runtime over the broker

(***************************************************************************)
(* Every step of the composition is a step of the broker or none.          *)
(***************************************************************************)
LEMMA RevokeAnyRefines ==
  ASSUME NEW S \in SUBSET Jobs, RevokeAny(S) PROVE [Next]_vars
  BY DEF RevokeAny, Next, MainStep

LEMMA RollbackAnyRefines ==
  ASSUME NEW r, RollbackAny(r), live \subseteq ReqIds PROVE [Next]_vars
  <1>1. CASE CanRollBack(r)
    BY <1>1 DEF RollbackAny, CanRollBack, Next, MainStep
  <1> QED BY <1>1 DEF RollbackAny

LEMMA MarkRefines ==
  ASSUME NEW r \in live, MarkMainRequestQueued(r), live \subseteq ReqIds PROVE Next
  BY DEF Next, MainStep

LEMMA FinishRefines ==
  ASSUME NEW j \in Jobs, NEW state, NEW deliver, Finish(j, state, deliver)
  PROVE  [Next]_vars
  BY RevokeAnyRefines DEF Finish

LEMMA JobStepRefines ==
  ASSUME NEW j \in Jobs, JobStep(j) PROVE [Next]_vars
  <1>1. CASE StartJob(j)
    BY <1>1 DEF StartJob, Next, MainStep
  <1>2. CASE TaskBegins(j)
    BY <1>2, FinishRefines DEF TaskBegins, TaskReturns, ChildStarts
  <1>3. CASE ChildReady(j)
    BY <1>3 DEF ChildReady
  <1>4. CASE Cancel(j)
    BY <1>4, RevokeAnyRefines DEF Cancel, Stop
  <1>5. ASSUME NEW outcome \in Terminal, ChildEnds(j, outcome) PROVE [Next]_vars
    BY <1>5, FinishRefines DEF ChildEnds, TaskReturns
  <1> QED BY <1>1, <1>2, <1>3, <1>4, <1>5 DEF JobStep

LEMMA SessionStepRefines == SessionStep => [Next]_vars
  <1> SUFFICES ASSUME SessionStep PROVE [Next]_vars
    OBVIOUS
  <1>1. ASSUME NEW next, CloseSession(next) PROVE [Next]_vars
    BY <1>1, RevokeAnyRefines DEF CloseSession, Stop, RunningJobs
  <1>2. CASE SessionClosed
    BY <1>2 DEF SessionClosed, ShutdownBroker, Next, ServerStep
  <1>3. CASE OpenSession
    BY <1>3 DEF OpenSession, ShutdownBroker, Next, ServerStep
  <1>4. CASE BeginSession
    BY <1>4 DEF BeginSession, Next, ServerStep
  <1>5. CASE SessionStarted
    BY <1>5 DEF SessionStarted, Next, ServerStep
  <1>6. CASE InspectJobs
    BY <1>6 DEF InspectJobs
  <1> QED BY <1>1, <1>2, <1>3, <1>4, <1>5, <1>6 DEF SessionStep

LEMMA SendStepRefines ==
  ASSUME NEW s \in SendIds, SendStep(s), live \subseteq ReqIds PROVE [Next]_vars
  <1>1. ASSUME NEW j \in Jobs, SendBegins(s, j) PROVE [Next]_vars
    BY <1>1 DEF SendBegins, Next, MainStep
  <1>2. SendFails(s) => [Next]_vars
    BY RollbackAnyRefines DEF SendFails
  <1>3. CASE SendProceeds(s)
    BY <1>2, <1>3 DEF SendProceeds
  <1>4. CASE SendHasControl(s)
    BY <1>2, <1>4 DEF SendHasControl
  <1>5. CASE SendAborts(s)
    BY <1>5, RollbackAnyRefines DEF SendAborts
  <1>6. CASE SteerAccepted(s)
    BY <1>2, <1>6, MarkRefines DEF SteerAccepted
  <1>7. CASE SteerFails(s)
    BY <1>2, <1>7 DEF SteerFails
  <1> QED BY <1>1, <1>3, <1>4, <1>5, <1>6, <1>7 DEF SendStep

LEMMA WaitStepRefines ==
  ASSUME NEW w \in MainWaits, WaitStep(w) PROVE [Next]_vars
  BY DEF WaitStep, WaitEnds, WaitBegins, Next, MainStep

LEMMA BrokerStepRefines == BrokerStep => [Next]_vars
  <1> SUFFICES ASSUME BrokerStep PROVE Next
    OBVIOUS
  <1>1. ASSUME NEW c \in Conns, ChildStep(c) PROVE Next
    BY <1>1 DEF ChildStep, ChildConnects, ConnStep, Next
  <1>2. ASSUME NEW r \in ReqIds, NEW m \in Replies, ReplyFromMain(r, m) PROVE Next
    BY <1>2 DEF Next, MainStep
  <1> QED BY <1>1, <1>2 DEF BrokerStep, Next, ServerStep

(***************************************************************************)
(* The composition implements the broker: RuntimeSpec implies Spec, so     *)
(* every theorem about SubagentBroker is one about the composition.        *)
(***************************************************************************)
THEOREM RuntimeImplementsBroker == RuntimeSpec => Spec
  <1>1. RuntimeInit => Init
    BY DEF RuntimeInit
  <1>2. TypeOK /\ [RuntimeNext]_allVars => [Next]_vars
    <2> SUFFICES ASSUME TypeOK, [RuntimeNext]_allVars PROVE [Next]_vars
      OBVIOUS
    <2>1. live \subseteq ReqIds
      BY DEF TypeOK
    <2>2. CASE UNCHANGED allVars
      BY <2>2 DEF allVars
    <2> QED
      BY <2>1, <2>2, JobStepRefines, SessionStepRefines, SendStepRefines,
         WaitStepRefines, BrokerStepRefines DEF RuntimeNext
  <1>3. RuntimeSpec => []TypeOK
    <2>1. Init => TypeOK
      BY TypeInit
    <2>2. TypeOK /\ [Next]_vars => TypeOK'
      BY TypeStep
    <2> QED BY <1>1, <1>2, <2>1, <2>2, PTL DEF RuntimeSpec
  <1> QED BY <1>1, <1>2, <1>3, PTL DEF RuntimeSpec, Spec

(***************************************************************************)
(* What the broker guarantees, of the composition.                         *)
(***************************************************************************)
THEOREM SteeringReachesChildOfRuntime == RuntimeSpec => []NoWaitBehindSteering
  BY RuntimeImplementsBroker, SteeringReachesChild, PTL

(***************************************************************************)
(* What the helpers do to the tokens and to the types.                     *)
(***************************************************************************)
LEMMA RevokeAnyTokens ==
  ASSUME TypeOK, NEW S \in SUBSET Jobs, RevokeAny(S)
  PROVE  jobState' = [j \in Jobs |-> IF j \in S /\ jobState[j] = "active"
                                     THEN "revoked" ELSE jobState[j]]
  <1>1. CASE S \cap ActiveJobs = {}
    <2>1. \A j \in Jobs : ~(j \in S /\ jobState[j] = "active")
      BY <1>1 DEF ActiveJobs
    <2>2. jobState' = jobState
      BY <1>1 DEF RevokeAny, vars
    <2> QED BY <2>1, <2>2 DEF TypeOK
  <1>2. CASE S \cap ActiveJobs # {}
    BY <1>2 DEF RevokeAny, RevokeJobs, Revoke, ActiveJobs
  <1> QED BY <1>1, <1>2

\* The tokens may have been revoked, and nothing else happened to them.
TokensOnlyRevoked ==
  \A j \in Jobs : \/ jobState'[j] = jobState[j]
                  \/ jobState[j] = "active" /\ jobState'[j] = "revoked"

LEMMA PurgedTokens == ASSUME DropEverything, TypeOK PROVE TokensOnlyRevoked
  BY DEF DropEverything, Revoke, ActiveJobs, TokensOnlyRevoked, TypeOK

LEMMA SameTokens == ASSUME jobState' = jobState PROVE TokensOnlyRevoked
  BY DEF TokensOnlyRevoked

LEMMA PrunedType ==
  ASSUME NEW T \in Seq(Jobs), NEW U \in Pruned(T)
  PROVE  U \in Seq(Jobs) /\ Len(U) <= MaxRetainedJobs
  <1>1. PICK n \in 0..Len(T) : /\ Len(T) - n <= MaxRetainedJobs
                               /\ U = SubSeq(T, n + 1, Len(T))
    BY DEF Pruned
  <1>2. Len(T) \in Nat /\ n \in Nat /\ \A i \in (n + 1)..Len(T) : T[i] \in Jobs
    BY <1>1, ElementOfSeq
  <1>3. U \in Seq(Jobs) /\ Len(U) = IF n + 1 <= Len(T) THEN Len(T) - (n + 1) + 1 ELSE 0
    BY <1>1, <1>2, SubSeqProperties
  <1>4. Len(U) <= MaxRetainedJobs
    BY <1>1, <1>2, <1>3, RuntimeAssumption
  <1> QED BY <1>3, <1>4

LEMMA NewTypes == NewJob \in Job /\ UnusedSend \in Send
  <1>1. SomeJob \in Jobs
    BY BrokerAssumption DEF SomeJob
  <1> QED BY <1>1, BrokerAssumption
          DEF NewJob, Job, Active, Terminal, UnusedSend, Send, Unsettled, OptionalId

(***************************************************************************)
(* Steps that leave the jobs alone and at most revoke tokens.              *)
(***************************************************************************)
LEMMA FrameRuntime ==
  ASSUME RuntimeIInv, RuntimeTypeOK', TokensOnlyRevoked,
         UNCHANGED <<lifecycle, sessionActive, generation, job, published>>
  PROVE  RuntimeIInv'
  <1>1. JobsBeginWithTheirToken'
    BY DEF RuntimeIInv, JobsBeginWithTheirToken, TokensOnlyRevoked, Stopped
  <1>2. SessionFollowsLifecycle' /\ UnpublishedUntilTerminal'
    BY DEF RuntimeIInv, SessionFollowsLifecycle, UnpublishedUntilTerminal,
           IsTerminal
  <1>3. TokensBelongToActiveJobs'
    BY DEF RuntimeIInv, TokensBelongToActiveJobs, TokensOnlyRevoked,
           AcceptsMessages, IsActive, Stopped, Current
  <1>4. StopDecidesOutcome' /\ SettledTasksFinished' /\ NoJobOutlivesItsSession'
    BY DEF RuntimeIInv, StopDecidesOutcome, SettledTasksFinished,
           NoJobOutlivesItsSession, RunningJobs, IsActive, IsTerminal, Stopped,
           Current
  <1> QED BY <1>1, <1>2, <1>3, <1>4 DEF RuntimeIInv

LEMMA RuntimeInitInv == RuntimeInit => RuntimeIInv
  <1> SUFFICES ASSUME RuntimeInit PROVE RuntimeIInv
    OBVIOUS
  <1>1. RuntimeTypeOK
    <2>1. /\ \A j \in Jobs : NewJob \in Job
          /\ UnusedSend \in Send /\ SomeJob \in Jobs
      BY NewTypes, BrokerAssumption DEF SomeJob
    <2>2. terminalJobs \in Seq(Jobs) /\ Len(terminalJobs) <= MaxRetainedJobs
      BY RuntimeAssumption DEF RuntimeInit
    <2> QED BY <2>1, <2>2 DEF RuntimeInit, RuntimeTypeOK
  <1>2. \A j \in Jobs : job[j].state = "new" /\ job[j].task = "none"
                        /\ job[j].stop = "none" /\ jobState[j] = "new"
    BY DEF RuntimeInit, Init, NewJob
  <1> QED
    BY <1>1, <1>2
    DEF RuntimeInit, RuntimeIInv, JobsBeginWithTheirToken, SessionFollowsLifecycle,
        UnpublishedUntilTerminal, TokensBelongToActiveJobs, StopDecidesOutcome,
        SettledTasksFinished, NoJobOutlivesItsSession, RunningJobs, IsActive,
        IsTerminal, Stopped, Active, Terminal

(***************************************************************************)
(* Steps of jobs.                                                          *)
(***************************************************************************)
\* One job changed, and tokens were revoked at most, that of the job included.
LEMMA FinishInv ==
  ASSUME RuntimeIInv, TypeOK, NEW j \in Jobs, NEW state \in Terminal, NEW deliver \in BOOLEAN,
         IsActive(j), Stopped(j) => state = "cancelled",
         Finish(j, state, deliver)
  PROVE  RuntimeIInv'
  <1>1. /\ job' = [job EXCEPT ![j] = [job[j] EXCEPT !.state = state, !.task = "settled"]]
        /\ [job[j] EXCEPT !.state = state, !.task = "settled"] \in Job
    BY DEF Finish, RuntimeIInv, RuntimeTypeOK, Job
  <1>2. /\ \A i \in Jobs : i # j => job'[i] = job[i]
        /\ job'[j].state = state /\ job'[j].task = "settled"
        /\ job'[j].stop = job[j].stop
    BY <1>1 DEF RuntimeIInv, RuntimeTypeOK, Job
  <1>3. jobState' = [i \in Jobs |-> IF i = j /\ jobState[i] = "active"
                                    THEN "revoked" ELSE jobState[i]]
    BY RevokeAnyTokens DEF Finish
  <1>4. UNCHANGED <<lifecycle, sessionActive, generation, send, waitFor>>
    BY DEF Finish
  <1>5. RuntimeTypeOK'
    <2>1. Append(terminalJobs, j) \in Seq(Jobs)
      BY DEF RuntimeIInv, RuntimeTypeOK
    <2>2. terminalJobs' \in Seq(Jobs) /\ Len(terminalJobs') <= MaxRetainedJobs
      BY <2>1, PrunedType DEF Finish
    <2>3. published' \in [Jobs -> Nat]
      BY DEF Finish, RuntimeIInv, RuntimeTypeOK
    <2>4. job' \in [Jobs -> Job]
      BY <1>1 DEF RuntimeIInv, RuntimeTypeOK
    <2> QED BY <1>4, <2>2, <2>3, <2>4 DEF RuntimeIInv, RuntimeTypeOK
  <1>6. \A i \in Jobs : i # j => published'[i] = published[i]
    BY DEF Finish, RuntimeIInv, RuntimeTypeOK
  <1>7. state \notin Active /\ state # "new" /\ job[j].state # "new"
    BY DEF IsActive, Active, Terminal
  <1>8. JobsBeginWithTheirToken' /\ SessionFollowsLifecycle'
    BY <1>2, <1>3, <1>4, <1>7
    DEF RuntimeIInv, JobsBeginWithTheirToken, SessionFollowsLifecycle, Stopped, TypeOK
  <1>9. UnpublishedUntilTerminal' /\ NoJobOutlivesItsSession'
    BY <1>2, <1>4, <1>6, <1>7
    DEF RuntimeIInv, UnpublishedUntilTerminal, NoJobOutlivesItsSession, RunningJobs,
        IsActive, IsTerminal, Current
  <1>10. TokensBelongToActiveJobs'
    BY <1>2, <1>3, <1>4, <1>7
    DEF RuntimeIInv, TokensBelongToActiveJobs, AcceptsMessages, IsActive, Stopped,
        Current
  <1>11. StopDecidesOutcome' /\ SettledTasksFinished'
    BY <1>2 DEF RuntimeIInv, StopDecidesOutcome, SettledTasksFinished, IsTerminal,
                Stopped
  <1> QED BY <1>5, <1>8, <1>9, <1>10, <1>11 DEF RuntimeIInv

LEMMA StopEffects ==
  ASSUME RuntimeIInv, TypeOK, NEW S \in SUBSET Jobs, NEW how \in {"deliver", "silent"},
         Stop(S, how)
  PROVE  /\ job' \in [Jobs -> Job]
         /\ \A j \in Jobs :
              /\ job'[j].state = job[j].state /\ job'[j].task = job[j].task
              /\ job'[j].generation = job[j].generation
              /\ job'[j].stop = IF j \in S /\ job[j].stop = "none" THEN how
                                ELSE job[j].stop
              /\ jobState'[j] = IF j \in S /\ jobState[j] = "active" THEN "revoked"
                                ELSE jobState[j]
  <1>1. \A j \in Jobs : [job[j] EXCEPT !.stop = how] \in Job
    <2>1. \A j \in Jobs : job[j] \in Job
      BY DEF RuntimeIInv, RuntimeTypeOK
    <2> QED BY <2>1 DEF Job
  <1>2. job' \in [Jobs -> Job]
    BY <1>1 DEF Stop, RuntimeIInv, RuntimeTypeOK
  <1>3. \A j \in Jobs : job'[j] = IF j \in S /\ job[j].stop = "none"
                                  THEN [job[j] EXCEPT !.stop = how] ELSE job[j]
    BY DEF Stop, Stopped
  <1>4. RevokeAny(S)
    BY DEF Stop
  <1>5. \A j \in Jobs : jobState'[j] = IF j \in S /\ jobState[j] = "active"
                                       THEN "revoked" ELSE jobState[j]
    BY <1>4, RevokeAnyTokens
  <1> QED BY <1>2, <1>3, <1>5 DEF RuntimeIInv, RuntimeTypeOK, Job

LEMMA CancelInv ==
  ASSUME RuntimeIInv, TypeOK, NEW j \in Jobs, Cancel(j) PROVE RuntimeIInv'
  <1>1. /\ job' \in [Jobs -> Job]
        /\ \A i \in Jobs :
             /\ job'[i].state = job[i].state /\ job'[i].task = job[i].task
             /\ job'[i].generation = job[i].generation
             /\ job'[i].stop = IF i = j /\ job[i].stop = "none" THEN "deliver"
                               ELSE job[i].stop
             /\ jobState'[i] = IF i = j /\ jobState[i] = "active" THEN "revoked"
                               ELSE jobState[i]
    BY StopEffects, {j} \in SUBSET Jobs DEF Cancel
  <1>2. UNCHANGED <<lifecycle, sessionActive, generation, published, send, waitFor>>
    BY DEF Cancel
  <1>3. RuntimeTypeOK'
    <2>1. terminalJobs' \in Seq(Jobs) /\ Len(terminalJobs') <= MaxRetainedJobs
      BY PrunedType DEF Cancel, RuntimeIInv, RuntimeTypeOK
    <2> QED BY <1>1, <1>2, <2>1 DEF RuntimeIInv, RuntimeTypeOK
  <1>4. IsActive(j)
    BY DEF Cancel
  <1>5. JobsBeginWithTheirToken' /\ SessionFollowsLifecycle'
    BY <1>1, <1>2, <1>4
    DEF RuntimeIInv, JobsBeginWithTheirToken, SessionFollowsLifecycle, Stopped,
        IsActive, Active
  <1>6. UnpublishedUntilTerminal' /\ NoJobOutlivesItsSession'
    BY <1>1, <1>2
    DEF RuntimeIInv, UnpublishedUntilTerminal, NoJobOutlivesItsSession, RunningJobs,
        IsActive, IsTerminal, Current
  <1>7. TokensBelongToActiveJobs'
    BY <1>1, <1>2
    DEF RuntimeIInv, TokensBelongToActiveJobs, AcceptsMessages, IsActive, Stopped,
        Current
  <1>8. StopDecidesOutcome' /\ SettledTasksFinished'
    BY <1>1, <1>4
    DEF RuntimeIInv, StopDecidesOutcome, SettledTasksFinished, IsTerminal, Stopped,
        IsActive, Active, Terminal
  <1> QED BY <1>3, <1>5, <1>6, <1>7, <1>8 DEF RuntimeIInv

LEMMA StartJobInv ==
  ASSUME RuntimeIInv, TypeOK, NEW j \in Jobs, StartJob(j) PROVE RuntimeIInv'
  <1> DEFINE started == [NewJob EXCEPT !.state = "queued", !.task = "scheduled",
                                       !.generation = generation]
  <1>1. /\ started \in Job /\ started.state = "queued" /\ started.task = "scheduled"
        /\ started.stop = "none" /\ started.generation = generation
    BY NewTypes DEF NewJob, Job, Active, RuntimeIInv, RuntimeTypeOK
  <1>2. job' = [job EXCEPT ![j] = started]
    BY DEF StartJob
  <1> HIDE DEF started
  <1>3. /\ job' \in [Jobs -> Job]
        /\ job'[j] = started
        /\ \A i \in Jobs : i # j => job'[i] = job[i]
    BY <1>1, <1>2 DEF RuntimeIInv, RuntimeTypeOK
  <1>4. /\ jobState[j] = "new" /\ jobState'[j] = "active"
        /\ \A i \in Jobs : i # j => jobState'[i] = jobState[i]
    BY DEF StartJob, IssueCredentials, TypeOK
  <1>5. /\ UNCHANGED <<lifecycle, sessionActive, generation, published, send, waitFor>>
        /\ sessionActive
    BY DEF StartJob
  <1>6. RuntimeTypeOK'
    <2>1. terminalJobs' \in Seq(Jobs) /\ Len(terminalJobs') <= MaxRetainedJobs
      BY PrunedType DEF StartJob, RuntimeIInv, RuntimeTypeOK
    <2> QED BY <1>3, <1>5, <2>1 DEF RuntimeIInv, RuntimeTypeOK
  <1>7. JobsBeginWithTheirToken' /\ SessionFollowsLifecycle'
    BY <1>1, <1>3, <1>4, <1>5
    DEF RuntimeIInv, JobsBeginWithTheirToken, SessionFollowsLifecycle, Stopped
  <1>8. NoJobOutlivesItsSession'
    BY <1>1, <1>3, <1>5
    DEF RuntimeIInv, NoJobOutlivesItsSession, RunningJobs, IsActive, Current
  <1>9. TokensBelongToActiveJobs'
    BY <1>1, <1>3, <1>4, <1>5
    DEF RuntimeIInv, TokensBelongToActiveJobs, AcceptsMessages, IsActive, Active,
        Stopped, Current
  <1>10. StopDecidesOutcome' /\ SettledTasksFinished'
    BY <1>1, <1>3
    DEF RuntimeIInv, StopDecidesOutcome, SettledTasksFinished, IsTerminal, Stopped,
        Terminal
  <1>11. UnpublishedUntilTerminal'
    BY <1>1, <1>3, <1>4, <1>5
    DEF RuntimeIInv, UnpublishedUntilTerminal, IsTerminal, Terminal,
        JobsBeginWithTheirToken
  <1> QED BY <1>6, <1>7, <1>8, <1>9, <1>10, <1>11 DEF RuntimeIInv

\* A step of a job's task that only changes its task, state or control.
LEMMA TaskInv ==
  ASSUME RuntimeIInv, TypeOK, NEW j \in Jobs, NEW r \in Job,
         job' = [job EXCEPT ![j] = r],
         r.stop = job[j].stop, r.generation = job[j].generation,
         r.state \in Active, r.task \in {"scheduled", "child"},
         IsActive(j),
         UNCHANGED <<vars, lifecycle, sessionActive, generation, terminalJobs,
                     published, send, waitFor>>
  PROVE  RuntimeIInv'
  <1>1. /\ job'[j] = r /\ job' \in [Jobs -> Job]
        /\ \A i \in Jobs : i # j => job'[i] = job[i]
    BY DEF RuntimeIInv, RuntimeTypeOK
  <1>2. jobState' = jobState /\ job[j].state # "new" /\ r.state # "new"
        /\ ~IsTerminal(j)
    BY DEF vars, IsActive, Active, IsTerminal, Terminal
  <1>3. RuntimeTypeOK'
    BY <1>1 DEF RuntimeIInv, RuntimeTypeOK
  <1>4. JobsBeginWithTheirToken' /\ SessionFollowsLifecycle'
    BY <1>1, <1>2
    DEF RuntimeIInv, JobsBeginWithTheirToken, SessionFollowsLifecycle, Stopped
  <1>5. UnpublishedUntilTerminal' /\ NoJobOutlivesItsSession'
    BY <1>1, <1>2
    DEF RuntimeIInv, UnpublishedUntilTerminal, NoJobOutlivesItsSession, RunningJobs,
        IsActive, IsTerminal, Current
  <1>6. TokensBelongToActiveJobs'
    BY <1>1, <1>2
    DEF RuntimeIInv, TokensBelongToActiveJobs, AcceptsMessages, IsActive, Stopped,
        Current
  <1>7. StopDecidesOutcome' /\ SettledTasksFinished'
    BY <1>1, <1>2
    DEF RuntimeIInv, StopDecidesOutcome, SettledTasksFinished, IsTerminal, Stopped,
        Active, Terminal
  <1> QED BY <1>3, <1>4, <1>5, <1>6, <1>7 DEF RuntimeIInv

\* A task that has begun and not settled belongs to an active, current job.
LEMMA TaskOfActive ==
  ASSUME RuntimeIInv, NEW j \in Jobs, job[j].task \in {"scheduled", "child"}
  PROVE  IsActive(j) /\ Current(j)
  <1>1. job[j].state \in {"new"} \cup Active \cup Terminal
    BY DEF RuntimeIInv, RuntimeTypeOK, Job
  <1>2. IsActive(j)
    BY <1>1 DEF RuntimeIInv, JobsBeginWithTheirToken, SettledTasksFinished,
                IsTerminal, IsActive
  <1> QED BY <1>2 DEF RuntimeIInv, NoJobOutlivesItsSession, RunningJobs

LEMMA JobStepInv ==
  ASSUME RuntimeIInv, TypeOK, NEW j \in Jobs, JobStep(j) PROVE RuntimeIInv'
  <1>1. CASE StartJob(j)
    BY <1>1, StartJobInv
  <1>2. CASE TaskBegins(j)
    <2>1. IsActive(j) /\ Current(j)
      BY <1>2, TaskOfActive DEF TaskBegins
    <2>2. CASE Stopped(j)
      BY <1>2, <2>1, <2>2, FinishInv, "cancelled" \in Terminal DEF TaskBegins, Terminal
    <2>3. CASE ~Stopped(j)
      <3> DEFINE r == [job[j] EXCEPT !.state = "running", !.task = "child"]
      <3>1. /\ r \in Job /\ r.stop = job[j].stop /\ r.generation = job[j].generation
            /\ r.state \in Active /\ r.task \in {"scheduled", "child"}
        <4>1. job[j] \in Job
          BY DEF RuntimeIInv, RuntimeTypeOK
        <4> QED BY <4>1 DEF Job, Active
      <3>2. job' = [job EXCEPT ![j] = r]
        BY <1>2, <2>1, <2>3 DEF TaskBegins, ChildStarts, RuntimeIInv, RuntimeTypeOK, Job
      <3> HIDE DEF r
      <3> QED BY <1>2, <2>1, <2>3, <3>1, <3>2, TaskInv DEF TaskBegins, ChildStarts
    <2> QED BY <2>2, <2>3
  <1>3. CASE ChildReady(j)
    <2> DEFINE r == [job[j] EXCEPT !.control = TRUE]
    <2>1. IsActive(j)
      BY <1>3 DEF ChildReady, AcceptsMessages
    <2>2. /\ r \in Job /\ r.stop = job[j].stop /\ r.generation = job[j].generation
          /\ r.state \in Active /\ r.task \in {"scheduled", "child"}
      BY <1>3, <2>1 DEF ChildReady, IsActive, RuntimeIInv, RuntimeTypeOK, Job
    <2>3. job' = [job EXCEPT ![j] = r]
      BY <1>3 DEF ChildReady
    <2> HIDE DEF r
    <2> QED BY <1>3, <2>1, <2>2, <2>3, TaskInv DEF ChildReady
  <1>4. CASE Cancel(j)
    BY <1>4, CancelInv
  <1>5. ASSUME NEW outcome \in Terminal, ChildEnds(j, outcome) PROVE RuntimeIInv'
    <2>1. IsActive(j) /\ Current(j)
      BY <1>5, TaskOfActive DEF ChildEnds
    <2>2. Outcome(j, outcome) \in Terminal
          /\ (Stopped(j) => Outcome(j, outcome) = "cancelled")
      BY DEF Outcome, Terminal
    <2>3. Finish(j, Outcome(j, outcome), job[j].stop # "silent")
      BY <1>5, <2>1 DEF ChildEnds
    <2> QED BY <2>1, <2>2, <2>3, FinishInv
  <1> QED BY <1>1, <1>2, <1>3, <1>4, <1>5 DEF JobStep

(***************************************************************************)
(* Steps of sessions.                                                      *)
(***************************************************************************)
LEMMA CloseSessionInv ==
  ASSUME RuntimeIInv, TypeOK, NEW next \in {"closing", "reopening"},
         CloseSession(next)
  PROVE  RuntimeIInv'
  <1>1. /\ job' \in [Jobs -> Job]
        /\ \A i \in Jobs :
             /\ job'[i].state = job[i].state /\ job'[i].task = job[i].task
             /\ job'[i].generation = job[i].generation
             /\ job'[i].stop = IF i \in RunningJobs /\ job[i].stop = "none"
                               THEN "silent" ELSE job[i].stop
             /\ jobState'[i] = IF i \in RunningJobs /\ jobState[i] = "active"
                               THEN "revoked" ELSE jobState[i]
    BY StopEffects, RunningJobs \in SUBSET Jobs DEF CloseSession, RunningJobs
  <1>2. /\ UNCHANGED <<generation, terminalJobs, published, send, waitFor>>
        /\ lifecycle' = next /\ sessionActive' = FALSE
    BY DEF CloseSession
  <1>3. RuntimeTypeOK'
    BY <1>1, <1>2 DEF RuntimeIInv, RuntimeTypeOK
  <1>4. JobsBeginWithTheirToken' /\ SessionFollowsLifecycle'
    BY <1>1, <1>2
    DEF RuntimeIInv, JobsBeginWithTheirToken, SessionFollowsLifecycle, Stopped,
        RunningJobs, IsActive, Active
  <1>5. UnpublishedUntilTerminal' /\ NoJobOutlivesItsSession'
    BY <1>1, <1>2
    DEF RuntimeIInv, UnpublishedUntilTerminal, NoJobOutlivesItsSession, RunningJobs,
        IsActive, IsTerminal, Current
  <1>6. TokensBelongToActiveJobs'
    <2>1. \A i \in Jobs : jobState[i] = "active" => i \in RunningJobs
      BY DEF RuntimeIInv, TokensBelongToActiveJobs, AcceptsMessages, RunningJobs
    <2> QED BY <1>1, <2>1 DEF TokensBelongToActiveJobs
  <1>7. StopDecidesOutcome' /\ SettledTasksFinished'
    BY <1>1
    DEF RuntimeIInv, StopDecidesOutcome, SettledTasksFinished, IsTerminal, Stopped,
        RunningJobs, IsActive, Active, Terminal
  <1> QED BY <1>3, <1>4, <1>5, <1>6, <1>7 DEF RuntimeIInv

\* Between sessions: no job is active, and the tokens are revoked at most.
LEMMA BetweenSessions ==
  ASSUME RuntimeIInv, RunningJobs = {}, TokensOnlyRevoked, ~sessionActive,
         UNCHANGED <<job, published>>,
         RuntimeTypeOK', SessionFollowsLifecycle'
  PROVE  RuntimeIInv'
  <1>1. \A j \in Jobs : ~IsActive(j) /\ jobState[j] # "active"
    BY DEF RuntimeIInv, RunningJobs, TokensBelongToActiveJobs
  <1>2. /\ \A j \in Jobs : jobState'[j] = jobState[j]
        /\ RunningJobs' = {}
    BY <1>1 DEF TokensOnlyRevoked, RunningJobs, IsActive
  <1>3. JobsBeginWithTheirToken' /\ NoJobOutlivesItsSession' /\ TokensBelongToActiveJobs'
    BY <1>1, <1>2
    DEF RuntimeIInv, JobsBeginWithTheirToken, NoJobOutlivesItsSession,
        TokensBelongToActiveJobs, Stopped
  <1>4. UnpublishedUntilTerminal'
    <2>1. \A j \in Jobs : ~IsTerminal(j) => job[j].stop # "silent"
      BY <1>1 DEF IsActive, IsTerminal, RuntimeIInv, RuntimeTypeOK, Job,
                  JobsBeginWithTheirToken, Stopped
    <2> QED BY <2>1 DEF RuntimeIInv, UnpublishedUntilTerminal, IsTerminal
  <1>5. StopDecidesOutcome' /\ SettledTasksFinished'
    BY DEF RuntimeIInv, StopDecidesOutcome, SettledTasksFinished, IsTerminal, Stopped
  <1> QED BY <1>3, <1>4, <1>5 DEF RuntimeIInv

LEMMA ShutdownTokens == ASSUME TypeOK, ShutdownBroker PROVE TokensOnlyRevoked
  <1>1. CASE UNCHANGED vars BY <1>1, SameTokens DEF vars
  <1>2. CASE Shutdown
    BY <1>2, SameTokens, PurgedTokens DEF Shutdown, Purge
  <1> QED BY <1>1, <1>2 DEF ShutdownBroker

LEMMA SessionStepInv ==
  ASSUME RuntimeIInv, TypeOK, SessionStep PROVE RuntimeIInv'
  <1>1. ASSUME NEW next \in {"closing", "reopening"}, CloseSession(next)
        PROVE  RuntimeIInv'
    BY <1>1, CloseSessionInv
  <1>2. CASE SessionClosed
    <2>1. RunningJobs = {} /\ ~sessionActive /\ UNCHANGED <<job, published>>
      BY <1>2 DEF SessionClosed, AllStopsSettled, RuntimeIInv, SessionFollowsLifecycle
    <2>2. TokensOnlyRevoked
      BY <1>2, ShutdownTokens DEF SessionClosed
    <2>3. RuntimeTypeOK' /\ SessionFollowsLifecycle'
      BY <1>2 DEF SessionClosed, RuntimeIInv, RuntimeTypeOK, SessionFollowsLifecycle
    <2> QED BY <2>1, <2>2, <2>3, BetweenSessions
  <1>3. CASE OpenSession
    <2>1. RunningJobs = {} /\ ~sessionActive /\ UNCHANGED <<job, published>>
      BY <1>3 DEF OpenSession, RuntimeIInv, NoJobOutlivesItsSession
    <2>2. TokensOnlyRevoked
      BY <1>3, ShutdownTokens DEF OpenSession
    <2>3. RuntimeTypeOK' /\ SessionFollowsLifecycle'
      BY <1>3 DEF OpenSession, RuntimeIInv, RuntimeTypeOK, SessionFollowsLifecycle
    <2> QED BY <2>1, <2>2, <2>3, BetweenSessions
  <1>4. CASE BeginSession
    <2>1. RunningJobs = {} /\ ~sessionActive /\ UNCHANGED <<job, published>>
      BY <1>4 DEF BeginSession, RuntimeIInv, NoJobOutlivesItsSession,
                  SessionFollowsLifecycle
    <2>2. TokensOnlyRevoked
      BY <1>4, SameTokens DEF BeginSession, Start
    <2>3. RuntimeTypeOK' /\ SessionFollowsLifecycle'
      BY <1>4, RuntimeAssumption
      DEF BeginSession, RuntimeIInv, RuntimeTypeOK, SessionFollowsLifecycle
    <2> QED BY <2>1, <2>2, <2>3, BetweenSessions
  <1>5. CASE SessionStarted
    <2>1. UNCHANGED <<sessionActive, generation, job, published, terminalJobs, send,
                      waitFor, jobState>>
          /\ lifecycle = "starting" /\ lifecycle' = "idle"
      BY <1>5 DEF SessionStarted, StartSettles
    <2>2. RuntimeTypeOK'
      BY <2>1 DEF RuntimeIInv, RuntimeTypeOK
    <2>3. sessionActive /\ SessionFollowsLifecycle'
      BY <2>1 DEF RuntimeIInv, SessionFollowsLifecycle
    <2>4. /\ JobsBeginWithTheirToken' /\ UnpublishedUntilTerminal'
          /\ NoJobOutlivesItsSession'
      BY <2>1, <2>3
      DEF RuntimeIInv, JobsBeginWithTheirToken, UnpublishedUntilTerminal, Stopped,
          NoJobOutlivesItsSession, RunningJobs, IsActive, IsTerminal, Current
    <2>5. TokensBelongToActiveJobs'
      BY <2>1 DEF RuntimeIInv, TokensBelongToActiveJobs, AcceptsMessages, IsActive,
                  Stopped, Current
    <2>6. StopDecidesOutcome' /\ SettledTasksFinished'
      BY <2>1 DEF RuntimeIInv, StopDecidesOutcome, SettledTasksFinished, IsTerminal,
                  Stopped
    <2> QED BY <2>2, <2>3, <2>4, <2>5, <2>6 DEF RuntimeIInv
  <1>6. CASE InspectJobs
    <2>1. RuntimeTypeOK'
      BY <1>6, PrunedType DEF InspectJobs, RuntimeIInv, RuntimeTypeOK
    <2>2. TokensOnlyRevoked
      BY <1>6, SameTokens DEF InspectJobs, vars
    <2> QED BY <1>6, <2>1, <2>2, FrameRuntime DEF InspectJobs
  <1> QED BY <1>1, <1>2, <1>3, <1>4, <1>5, <1>6 DEF SessionStep

(***************************************************************************)
(* Sends, waits and the broker's own steps.                                *)
(***************************************************************************)
LEMMA SendTypes ==
  ASSUME RuntimeTypeOK, NEW s \in SendIds,
         NEW pc \in {"queued", "failed"} \cup Unsettled, NEW b \in BOOLEAN,
         \/ send' = [send EXCEPT ![s].pc = pc]
         \/ send' = [send EXCEPT ![s].pc = pc, ![s].aborted = b]
  PROVE  send' \in [SendIds -> Send]
  <1>1. /\ [send[s] EXCEPT !.pc = pc] \in Send
        /\ [send[s] EXCEPT !.pc = pc, !.aborted = b] \in Send
    BY DEF RuntimeTypeOK, Send
  <1>2. \/ send' = [send EXCEPT ![s] = [send[s] EXCEPT !.pc = pc]]
        \/ send' = [send EXCEPT ![s] = [send[s] EXCEPT !.pc = pc, !.aborted = b]]
    BY DEF RuntimeTypeOK, Send
  <1> QED BY <1>1, <1>2 DEF RuntimeTypeOK

LEMMA SendOnlyInv ==
  ASSUME RuntimeIInv, SendOnly, TokensOnlyRevoked, send' \in [SendIds -> Send]
  PROVE  RuntimeIInv'
  <1>1. RuntimeTypeOK'
    BY DEF SendOnly, RuntimeIInv, RuntimeTypeOK
  <1> QED BY <1>1, FrameRuntime DEF SendOnly

LEMMA RollbackTokens == ASSUME NEW r, RollbackAny(r) PROVE TokensOnlyRevoked
  BY SameTokens DEF RollbackAny, RollbackMainRequest, vars

LEMMA SendStepInv ==
  ASSUME RuntimeIInv, TypeOK, NEW s \in SendIds, SendStep(s) PROVE RuntimeIInv'
  <1>1. RuntimeTypeOK
    BY DEF RuntimeIInv
  <1>2. ASSUME NEW j \in Jobs, SendBegins(s, j) PROVE RuntimeIInv'
    <2>1. nextId \in OptionalId
      BY <1>2, BrokerAssumption
      DEF SendBegins, CreateMainRequest, CreateRequest, TypeOK, OptionalId
    <2>2. [UnusedSend EXCEPT !.pc = "chained", !.job = j, !.request = nextId] \in Send
      BY <2>1, NewTypes DEF Send, Unsettled
    <2>3. terminalJobs' \in Seq(Jobs) /\ Len(terminalJobs') <= MaxRetainedJobs
      BY <1>1, <1>2, PrunedType DEF SendBegins, RuntimeTypeOK
    <2>4. RuntimeTypeOK'
      BY <1>1, <1>2, <2>2, <2>3 DEF SendBegins, RuntimeTypeOK
    <2>5. TokensOnlyRevoked
      BY <1>2, SameTokens DEF SendBegins, CreateMainRequest
    <2> QED BY <1>2, <2>4, <2>5, FrameRuntime DEF SendBegins
  <1>3. ASSUME SendFails(s), SendOnly PROVE RuntimeIInv'
    <2>1. send' \in [SendIds -> Send]
      BY <1>1, <1>3, SendTypes DEF SendFails
    <2> QED BY <1>3, <2>1, RollbackTokens, SendOnlyInv DEF SendFails
  <1>4. ASSUME NEW pc \in {"queued", "failed"} \cup Unsettled,
               send' = [send EXCEPT ![s].pc = pc], jobState' = jobState, SendOnly
        PROVE  RuntimeIInv'
    <2>1. send' \in [SendIds -> Send]
      BY <1>1, <1>4, SendTypes
    <2> QED BY <1>4, <2>1, SameTokens, SendOnlyInv
  <1>5. CASE SendProceeds(s)
    BY <1>3, <1>4, <1>5 DEF SendProceeds, Unsettled, vars
  <1>6. CASE SendHasControl(s)
    BY <1>3, <1>4, <1>6 DEF SendHasControl, Unsettled, vars
  <1>7. CASE SendAborts(s)
    <2>1. send' \in [SendIds -> Send]
      BY <1>1, <1>7, SendTypes DEF SendAborts
    <2> QED BY <1>7, <2>1, RollbackTokens, SendOnlyInv DEF SendAborts
  <1>8. CASE SteerAccepted(s)
    <2>1. ASSUME MarkMainRequestQueued(send[s].request) PROVE jobState' = jobState
      BY <2>1 DEF MarkMainRequestQueued
    <2> QED BY <1>3, <1>4, <1>8, <2>1 DEF SteerAccepted
  <1>9. CASE SteerFails(s)
    BY <1>3, <1>9 DEF SteerFails
  <1> QED BY <1>2, <1>5, <1>6, <1>7, <1>8, <1>9 DEF SendStep

LEMMA WaitStepInv ==
  ASSUME RuntimeIInv, TypeOK, NEW w \in MainWaits, WaitStep(w) PROVE RuntimeIInv'
  <1>1. CASE WaitEnds(w)
    <2>1. RuntimeTypeOK'
      BY <1>1 DEF WaitEnds, runtimeVars, RuntimeIInv, RuntimeTypeOK
    <2>2. TokensOnlyRevoked
      BY <1>1, SameTokens DEF WaitEnds, EndMainWait
    <2> QED BY <1>1, <2>1, <2>2, FrameRuntime DEF WaitEnds, runtimeVars
  <1>2. ASSUME NEW j \in Jobs, WaitBegins(w, j) PROVE RuntimeIInv'
    <2>1. RuntimeTypeOK'
      BY <1>2, PrunedType DEF WaitBegins, RuntimeIInv, RuntimeTypeOK
    <2>2. TokensOnlyRevoked
      BY <1>2, SameTokens DEF WaitBegins, BeginMainWait
    <2> QED BY <1>2, <2>1, <2>2, FrameRuntime DEF WaitBegins
  <1> QED BY <1>1, <1>2 DEF WaitStep

LEMMA ChildTokens == ASSUME NEW c \in Conns, ChildStep(c) PROVE jobState' = jobState
  <1>1. CASE ChildConnects(c) BY <1>1 DEF ChildConnects, Connect
  <1>2. CASE HandlesFrame(c)
    BY <1>2 DEF HandlesFrame, RejectFrame, FrameTimesOut, ChildRequest, ChildReply,
                ChildWaitAnswered, ChildWaitParks
  <1> QED BY <1>1, <1>2 DEF ChildStep, WaitTimesOut, Flushed, ClientReceives,
                            ClientGivesUp, SocketCloses

LEMMA BrokerStepInv == ASSUME RuntimeIInv, TypeOK, BrokerStep PROVE RuntimeIInv'
  <1>1. RuntimeTypeOK'
    BY DEF BrokerStep, runtimeVars, RuntimeIInv, RuntimeTypeOK
  <1>2. TokensOnlyRevoked
    <2>1. CASE Fail BY <2>1, PurgedTokens DEF Fail
    <2>2. CASE Tick BY <2>2, SameTokens DEF Tick
    <2>3. ASSUME NEW r \in ReqIds, NEW m \in Replies, ReplyFromMain(r, m)
          PROVE  TokensOnlyRevoked
      BY <2>3, SameTokens DEF ReplyFromMain
    <2>4. ASSUME NEW c \in Conns, ChildStep(c) PROVE TokensOnlyRevoked
      BY <2>4, SameTokens, ChildTokens
    <2> QED BY <2>1, <2>2, <2>3, <2>4 DEF BrokerStep
  <1> QED BY <1>1, <1>2, FrameRuntime DEF BrokerStep, runtimeVars

LEMMA RuntimeStepInv ==
  RuntimeIInv /\ TypeOK /\ [RuntimeNext]_allVars => RuntimeIInv'
  <1> SUFFICES ASSUME RuntimeIInv, TypeOK, [RuntimeNext]_allVars PROVE RuntimeIInv'
    OBVIOUS
  <1>1. CASE UNCHANGED allVars
    <2>1. RuntimeTypeOK'
      BY <1>1 DEF allVars, runtimeVars, RuntimeIInv, RuntimeTypeOK
    <2>2. TokensOnlyRevoked
      BY <1>1, SameTokens DEF allVars, vars
    <2> QED BY <1>1, <2>1, <2>2, FrameRuntime DEF allVars, runtimeVars
  <1> QED BY <1>1, JobStepInv, SessionStepInv, SendStepInv, WaitStepInv, BrokerStepInv
          DEF RuntimeNext

(***************************************************************************)
(* The invariant, and the safety properties that follow from it.           *)
(***************************************************************************)
THEOREM RuntimeInvariantCorrect == RuntimeSpec => []RuntimeIInv
  BY RuntimeInitInv, RuntimeStepInv, RuntimeImplementsBroker, TypeCorrect, PTL
  DEF RuntimeSpec

(***************************************************************************)
(* A valid token belongs to an active, unstopped job of this session.      *)
(***************************************************************************)
THEOREM TokensCorrect == RuntimeSpec => []TokensBelongToActiveJobs
  <1>1. RuntimeIInv => TokensBelongToActiveJobs
    BY DEF RuntimeIInv
  <1> QED BY <1>1, RuntimeInvariantCorrect, PTL

(***************************************************************************)
(* A stopped job ends as cancelled.                                        *)
(***************************************************************************)
THEOREM StopDecides == RuntimeSpec => []StopDecidesOutcome
  <1>1. RuntimeIInv => StopDecidesOutcome
    BY DEF RuntimeIInv
  <1> QED BY <1>1, RuntimeInvariantCorrect, PTL

(***************************************************************************)
(* A settled task has finished its job.                                    *)
(***************************************************************************)
THEOREM TasksFinish == RuntimeSpec => []SettledTasksFinished
  <1>1. RuntimeIInv => SettledTasksFinished
    BY DEF RuntimeIInv
  <1> QED BY <1>1, RuntimeInvariantCorrect, PTL

(***************************************************************************)
(* No job outlives its session.                                            *)
(***************************************************************************)
THEOREM SessionsEnd == RuntimeSpec => []NoJobOutlivesItsSession
  <1>1. RuntimeIInv => NoJobOutlivesItsSession
    BY DEF RuntimeIInv
  <1> QED BY <1>1, RuntimeInvariantCorrect, PTL

(***************************************************************************)
(* Publication, as an action property: finish publishes a job of the       *)
(* session, no other step publishes or ends a job.                         *)
(***************************************************************************)
PublishesWhatEnds ==
  \A j \in Jobs :
     published'[j] = published[j]
       + (IF IsActive(j) /\ IsTerminal(j)' /\ sessionActive THEN 1 ELSE 0)

LEMMA NothingEnds ==
  ASSUME RuntimeTypeOK, published' = published,
         \A j \in Jobs : job'[j].state = job[j].state \/ job'[j].state \in Active
  PROVE  PublishesWhatEnds
  <1>1. \A j \in Jobs : ~(IsActive(j) /\ IsTerminal(j)')
    BY DEF IsActive, IsTerminal, Active, Terminal
  <1>2. \A j \in Jobs : published[j] \in Nat
    BY DEF RuntimeTypeOK
  <1> QED BY <1>1, <1>2 DEF PublishesWhatEnds

LEMMA FinishPublishes ==
  ASSUME RuntimeIInv, NEW j \in Jobs, NEW state \in Terminal, NEW deliver \in BOOLEAN,
         IsActive(j), Current(j), sessionActive => deliver,
         Finish(j, state, deliver)
  PROVE  PublishesWhatEnds
  <1>1. \A i \in Jobs : i # j => job'[i] = job[i]
    BY DEF Finish, RuntimeIInv, RuntimeTypeOK
  <1>2. IsTerminal(j)'
    BY DEF Finish, RuntimeIInv, RuntimeTypeOK, Job, IsTerminal
  <1>3. published[j] = 0 /\ \A i \in Jobs : published[i] \in Nat
    BY DEF RuntimeIInv, RuntimeTypeOK, UnpublishedUntilTerminal, IsActive, IsTerminal,
           Active, Terminal
  <1>4. Delivers(j, deliver) <=> sessionActive
    BY <1>3 DEF Delivers
  <1>5. published' = IF sessionActive THEN [published EXCEPT ![j] = published[j] + 1]
                     ELSE published
    BY <1>4 DEF Finish
  <1>6. \A i \in Jobs : i # j => published'[i] = published[i]
    BY <1>5 DEF RuntimeIInv, RuntimeTypeOK
  <1>7. published'[j] = published[j] + (IF sessionActive THEN 1 ELSE 0)
    BY <1>3, <1>5 DEF RuntimeIInv, RuntimeTypeOK
  <1>8. \A i \in Jobs : i # j => ~(IsActive(i) /\ IsTerminal(i)')
    BY <1>1 DEF IsActive, IsTerminal, Active, Terminal
  <1> QED BY <1>2, <1>3, <1>6, <1>7, <1>8 DEF PublishesWhatEnds

LEMMA JobStepPublishes ==
  ASSUME RuntimeIInv, TypeOK, NEW j \in Jobs, JobStep(j) PROVE PublishesWhatEnds
  <1> USE DEF RuntimeIInv
  <1>1. CASE StartJob(j)
    <2>1. \A i \in Jobs : job'[i].state = job[i].state \/ job'[i].state \in Active
      BY <1>1 DEF StartJob, RuntimeTypeOK, NewJob, Active
    <2> QED BY <1>1, <2>1, NothingEnds DEF StartJob
  <1>2. CASE TaskBegins(j)
    <2>1. IsActive(j) /\ Current(j)
      BY <1>2, TaskOfActive DEF TaskBegins
    <2>2. CASE Stopped(j)
      <3>1. sessionActive => job[j].stop = "deliver"
        BY <2>1, <2>2 DEF UnpublishedUntilTerminal, IsActive, IsTerminal, Active,
                          Terminal, Stopped, RuntimeTypeOK, Job
      <3> QED BY <1>2, <2>1, <2>2, <3>1, FinishPublishes DEF TaskBegins, Terminal
    <2>3. CASE ~Stopped(j)
      <3>1. \A i \in Jobs : job'[i].state = job[i].state \/ job'[i].state \in Active
        <4>1. job' = [job EXCEPT ![j].state = "running", ![j].task = "child"]
          BY <1>2, <2>1, <2>3 DEF TaskBegins, ChildStarts
        <4>2. job'[j].state = "running" /\ \A i \in Jobs : i # j => job'[i] = job[i]
          BY <4>1 DEF RuntimeTypeOK, Job
        <4> QED BY <4>2 DEF Active
      <3> QED BY <1>2, <2>1, <2>3, <3>1, NothingEnds DEF TaskBegins, ChildStarts
    <2> QED BY <2>2, <2>3
  <1>3. CASE ChildReady(j)
    <2>1. \A i \in Jobs : job'[i].state = job[i].state
      BY <1>3 DEF ChildReady, RuntimeTypeOK, Job
    <2> QED BY <1>3, <2>1, NothingEnds DEF ChildReady
  <1>4. CASE Cancel(j)
    <2>1. \A i \in Jobs : job'[i].state = job[i].state
      BY <1>4, StopEffects, {j} \in SUBSET Jobs DEF Cancel
    <2> QED BY <1>4, <2>1, NothingEnds DEF Cancel
  <1>5. ASSUME NEW outcome \in Terminal, ChildEnds(j, outcome) PROVE PublishesWhatEnds
    <2>1. IsActive(j) /\ Current(j)
      BY <1>5, TaskOfActive DEF ChildEnds
    <2>2. Outcome(j, outcome) \in Terminal
      BY DEF Outcome, Terminal
    <2>3. sessionActive => job[j].stop # "silent"
      BY <2>1 DEF UnpublishedUntilTerminal, IsActive, IsTerminal, Active, Terminal
    <2> QED BY <1>5, <2>1, <2>2, <2>3, FinishPublishes DEF ChildEnds
  <1> QED BY <1>1, <1>2, <1>3, <1>4, <1>5 DEF JobStep

LEMMA OtherStepsPublishNothing ==
  ASSUME RuntimeIInv, TypeOK,
         \/ SessionStep \/ BrokerStep \/ UNCHANGED allVars
         \/ \E s \in SendIds : SendStep(s)
         \/ \E w \in MainWaits : WaitStep(w)
  PROVE  PublishesWhatEnds
  <1>1. ASSUME UNCHANGED <<job, published>> PROVE PublishesWhatEnds
    BY <1>1, NothingEnds DEF RuntimeIInv
  <1>2. ASSUME NEW next, CloseSession(next) PROVE PublishesWhatEnds
    <2>1. \A i \in Jobs : job'[i].state = job[i].state
      BY <1>2, StopEffects, RunningJobs \in SUBSET Jobs DEF CloseSession, RunningJobs
    <2> QED BY <1>2, <2>1, NothingEnds DEF CloseSession, RuntimeIInv
  <1>3. CASE SessionStep
    BY <1>1, <1>2, <1>3
    DEF SessionStep, SessionClosed, OpenSession, BeginSession, SessionStarted,
        InspectJobs
  <1>4. ASSUME NEW s \in SendIds, SendStep(s) PROVE PublishesWhatEnds
    BY <1>1, <1>4 DEF SendStep, SendBegins, SendProceeds, SendHasControl, SendAborts,
                      SteerAccepted, SteerFails, SendOnly
  <1>5. ASSUME NEW w \in MainWaits, WaitStep(w) PROVE PublishesWhatEnds
    BY <1>1, <1>5 DEF WaitStep, WaitEnds, WaitBegins, runtimeVars
  <1> QED BY <1>1, <1>3, <1>4, <1>5 DEF BrokerStep, allVars, runtimeVars

(***************************************************************************)
(* A job that ends in its session is published once, and no other is.      *)
(***************************************************************************)
THEOREM PublicationCorrect == RuntimeSpec => CompletionsArePublishedOnce
  <1>1. RuntimeIInv /\ TypeOK /\ [RuntimeNext]_allVars => PublishesWhatEnds
    BY JobStepPublishes, OtherStepsPublishNothing DEF RuntimeNext
  <1>2. RuntimeSpec => [][PublishesWhatEnds]_allVars
    BY <1>1, RuntimeInvariantCorrect, RuntimeImplementsBroker, TypeCorrect, PTL
    DEF RuntimeSpec
  <1> QED BY <1>2, PTL DEF CompletionsArePublishedOnce, PublishesWhatEnds

-----------------------------------------------------------------------------
(***************************************************************************)
(* The sends.  The numbers of a nonempty set that has a bound have a last  *)
(* one; what follows gives a send the one whose end it waited for.         *)
(***************************************************************************)
LEMMA LastSendExists ==
  ASSUME NEW t \in SendIds, NEW K \in SUBSET (1..(t - 1)), K # {}
  PROVE  \E p \in K : \A u \in (p + 1)..(t - 1) : u \notin K
  <1> DEFINE D(y) == (y + 1)..(t - 1)
             T == {D(y) : y \in K}
  <1>t. t \in Nat /\ K \subseteq Nat
    BY RuntimeAssumption DEF SendIds
  <1>1. \A y \in K : D(y) \in FiniteSubsetsOf(Nat)
    <2> SUFFICES ASSUME NEW y \in K PROVE D(y) \in FiniteSubsetsOf(Nat)
      OBVIOUS
    <2>1. IsFiniteSet(D(y))
      BY <1>t, FS_Interval
    <2>2. D(y) \subseteq Nat
      BY <1>t
    <2> QED BY <2>1, <2>2 DEF FiniteSubsetsOf
  <1>2. IsWellFoundedOn(StrictSubsetOrdering(Nat), FiniteSubsetsOf(Nat))
    BY FS_StrictSubsetOrderingWellFounded
  <1> HIDE DEF D
  <1>3. PICK d \in T : \A e \in T : ~(<<e, d>> \in StrictSubsetOrdering(Nat))
    <2>1. T \subseteq FiniteSubsetsOf(Nat) /\ T # {}
      BY <1>1
    <2> HIDE DEF T
    <2> QED BY <1>2, <2>1, WFMin
  <1>4. PICK p \in K : d = D(p)
    BY <1>3
  <1>5. ASSUME NEW u \in (p + 1)..(t - 1), u \in K PROVE FALSE
    <2>1. D(u) \subseteq D(p) /\ u \in D(p) /\ u \notin D(u)
      BY <1>t, <1>5 DEF D
    <2>2. D(u) \in SUBSET Nat /\ D(p) \in SUBSET Nat
      BY <1>t, <1>5 DEF D
    <2>3. <<D(u), D(p)>> \in StrictSubsetOrdering(Nat)
      BY <2>1, <2>2 DEF StrictSubsetOrdering
    <2> QED BY <1>3, <1>4, <1>5, <2>3
  <1> QED BY <1>5

\* A send whose predecessor has settled overtakes only across an abort.
LEMMA SettledPredecessor ==
  ASSUME RuntimeTypeOK, SendsIInv, NEW t \in SendIds, send[t].pc = "chained",
         PreviousSettled(t),
         NEW s \in 1..(t - 1), send[s].job = send[t].job,
         send[s].pc \in {"chained", "control"}
  PROVE  \E u \in (s + 1)..(t - 1) : send[u].aborted
  <1> DEFINE K == {u \in 1..(t - 1) : send[u].job = send[t].job}
  <1>t. t \in Nat /\ \A u \in 1..(t - 1) : u \in SendIds
    BY RuntimeAssumption DEF SendIds
  <1>1. PICK p \in K : \A u \in (p + 1)..(t - 1) : u \notin K
    <2>1. s \in K
      OBVIOUS
    <2> QED BY <2>1, LastSendExists
  <1>2. send[p].pc \notin Unsettled
    BY <1>1, <1>t DEF PreviousSettled
  <1>3. s # p /\ s <= p
    BY <1>1, <1>2, <1>t DEF Unsettled
  <1>4. s \in 1..(p - 1) /\ p \in SendIds
    BY <1>3, <1>t
  <1>5. send[p].pc # "unused"
    BY <1>1, <1>t DEF SendsIInv, SendsBeginInOrder
  <1>6. \E u \in (s + 1)..p : send[u].aborted
    BY <1>1, <1>2, <1>4, <1>5 DEF SendsIInv, OvertakersFollowAborts, Unsettled
  <1> QED BY <1>6, <1>t

(***************************************************************************)
(* What a step of a send does to the sends.                                *)
(***************************************************************************)
\* s moves from one place to another, and everything else of the sends stays.
Moves(s, from, to, b) ==
  /\ send[s].pc = from
  /\ send'[s].pc = to
  /\ send'[s].aborted = b
  /\ send'[s].job = send[s].job /\ send'[s].request = send[s].request
  /\ \A t \in SendIds : t # s => send'[t] = send[t]

LEMMA PcMoves ==
  ASSUME RuntimeTypeOK, SendsIInv, NEW s \in SendIds, NEW pc,
         send' = [send EXCEPT ![s].pc = pc], send[s].pc # "failed"
  PROVE  Moves(s, send[s].pc, pc, FALSE)
  <1>1. send[s] \in Send /\ ~send[s].aborted
    BY DEF RuntimeTypeOK, SendsIInv, AbortedSendsFailed
  <1> QED BY <1>1 DEF Moves, RuntimeTypeOK, Send

\* The orders of the chain survive a move.
LEMMA MoveOrder ==
  ASSUME RuntimeTypeOK, SendsIInv, NEW s \in SendIds,
         NEW from \in Unsettled, NEW to \in {"control", "delivering", "queued", "failed"},
         NEW b \in BOOLEAN, Moves(s, from, to, b),
         b => to = "failed",
         to = "control" => from = "chained",
         from = "chained" => b \/ PreviousSettled(s)
  PROVE  /\ SendsBeginInOrder' /\ AbortedSendsFailed' /\ OvertakersFollowAborts'
         /\ OvertakingNeedsAnAbort
  <1>n. SendIds \subseteq Nat /\ \A t \in SendIds : \A u \in 1..t : u \in SendIds
    BY RuntimeAssumption DEF SendIds
  <1>1. SendsBeginInOrder' /\ AbortedSendsFailed'
    BY <1>n DEF Moves, SendsIInv, SendsBeginInOrder, AbortedSendsFailed, Unsettled
  <1>2. ~send[s].aborted
    BY DEF Moves, SendsIInv, AbortedSendsFailed, Unsettled
  <1>3. ASSUME NEW t \in SendIds, NEW r \in 1..(t - 1), send'[r].job = send'[t].job,
               send'[r].pc \in {"chained", "control"},
               send'[t].pc \notin {"unused", "chained"}
        PROVE  /\ \E u \in (r + 1)..t : send'[u].aborted
               /\ t = s /\ ~b => \E u \in (r + 1)..(t - 1) : send[u].aborted
    <2>1. /\ r \in SendIds /\ t \in Nat /\ r \in Nat
          /\ send[r].job = send[t].job /\ send[r].pc \in {"chained", "control"}
      BY <1>n, <1>3 DEF Moves
    <2>2. \A u \in SendIds : send[u].aborted => send'[u].aborted
      BY <1>2 DEF Moves
    <2>3. CASE t # s
      <3>1. send[t].pc \notin {"unused", "chained"}
        BY <1>3, <2>3 DEF Moves
      <3>2. PICK u \in (r + 1)..t : send[u].aborted
        BY <2>1, <3>1 DEF SendsIInv, OvertakersFollowAborts
      <3>3. u \in SendIds
        BY <1>n, <2>1
      <3> QED BY <2>2, <2>3, <3>2, <3>3
    <2>4. CASE t = s /\ from # "chained"
      <3>1. PICK u \in (r + 1)..t : send[u].aborted
        BY <2>1, <2>4 DEF SendsIInv, OvertakersFollowAborts, Moves, Unsettled
      <3>2. u \in SendIds /\ u # t /\ u \in (r + 1)..(t - 1)
        BY <1>n, <1>2, <2>1, <2>4, <3>1
      <3> QED BY <2>2, <3>1, <3>2
    <2>5. CASE t = s /\ from = "chained" /\ ~b
      <3>1. PICK u \in (r + 1)..(t - 1) : send[u].aborted
        BY <2>1, <2>5, SettledPredecessor DEF Moves
      <3>2. u \in SendIds /\ u \in (r + 1)..t
        BY <1>n, <2>1, <3>1
      <3> QED BY <2>2, <3>1, <3>2
    <2>6. CASE t = s /\ b
      <3>1. t \in (r + 1)..t
        BY <2>1
      <3> QED BY <2>6, <3>1 DEF Moves
    <2> QED BY <2>3, <2>4, <2>5, <2>6
  <1>4. OvertakersFollowAborts'
    BY <1>3 DEF OvertakersFollowAborts
  <1>5. OvertakingNeedsAnAbort
    <2> SUFFICES ASSUME NEW t \in SendIds, NEW r \in 1..(t - 1),
                        send[r].job = send[t].job,
                        send[r].pc \in {"chained", "control"},
                        send[t].pc # "delivering", send'[t].pc = "delivering"
                 PROVE  \E u \in (r + 1)..(t - 1) : send[u].aborted
      BY DEF OvertakingNeedsAnAbort
    <2>1. t = s /\ to = "delivering" /\ ~b
      BY DEF Moves
    <2>2. r \in SendIds /\ r # s
      BY <1>n, <2>1
    <2>3. /\ send'[r].job = send'[t].job /\ send'[r].pc \in {"chained", "control"}
          /\ send'[t].pc \notin {"unused", "chained"}
      BY <2>1, <2>2 DEF Moves
    <2> QED BY <1>3, <2>1, <2>3
  <1> QED BY <1>1, <1>4, <1>5

LEMMA SendsUnchanged ==
  ASSUME RuntimeTypeOK, SendsIInv, send' = send
  PROVE  /\ SendsBeginInOrder' /\ AbortedSendsFailed' /\ OvertakersFollowAborts'
         /\ OvertakingNeedsAnAbort
  <1>1. SendsBeginInOrder' /\ AbortedSendsFailed' /\ OvertakersFollowAborts'
    BY DEF SendsIInv, SendsBeginInOrder, AbortedSendsFailed, OvertakersFollowAborts
  <1>2. OvertakingNeedsAnAbort
    BY DEF OvertakingNeedsAnAbort
  <1> QED BY <1>1, <1>2

LEMMA BeginOrder ==
  ASSUME RuntimeTypeOK, SendsIInv, NEW s \in SendIds, NEW j \in Jobs, SendBegins(s, j)
  PROVE  /\ SendsBeginInOrder' /\ AbortedSendsFailed' /\ OvertakersFollowAborts'
         /\ OvertakingNeedsAnAbort
  <1>n. SendIds \subseteq Nat /\ \A t \in SendIds : \A u \in 1..t : u \in SendIds
    BY RuntimeAssumption DEF SendIds
  <1>1. /\ send'[s].pc = "chained" /\ send'[s].aborted = FALSE
        /\ \A t \in SendIds : t # s => send'[t] = send[t]
    BY DEF SendBegins, UnusedSend, RuntimeTypeOK
  <1>2. /\ send[s].pc = "unused" /\ ~send[s].aborted
        /\ \A t \in 1..(s - 1) : send[t].pc # "unused"
        /\ \A t \in SendIds : s < t => send[t].pc = "unused"
    <2>1. send[s].pc = "unused" /\ \A t \in 1..(s - 1) : send[t].pc # "unused"
      BY DEF SendBegins
    <2>2. send[s].aborted => send[s].pc = "failed"
      BY DEF SendsIInv, AbortedSendsFailed
    <2>3. ASSUME NEW t \in SendIds, s < t PROVE send[t].pc = "unused"
      <3>1. s \in 1..(t - 1)
        BY <1>n, <2>3 DEF SendIds
      <3> QED BY <2>1, <3>1 DEF SendsIInv, SendsBeginInOrder
    <2> QED BY <2>1, <2>2, <2>3
  <1>3. SendsBeginInOrder' /\ AbortedSendsFailed'
    BY <1>n, <1>1, <1>2 DEF SendsIInv, SendsBeginInOrder, AbortedSendsFailed
  <1>4. OvertakersFollowAborts'
    <2> SUFFICES ASSUME NEW t \in SendIds, NEW r \in 1..(t - 1),
                        send'[r].job = send'[t].job,
                        send'[r].pc \in {"chained", "control"},
                        send'[t].pc \notin {"unused", "chained"}
                 PROVE  \E u \in (r + 1)..t : send'[u].aborted
      BY DEF OvertakersFollowAborts
    <2>1. r \in SendIds /\ r < t /\ t # s /\ send'[t] = send[t]
      BY <1>n, <1>1
    <2>2. r # s
      BY <1>n, <1>2, <2>1
    <2>3. PICK u \in (r + 1)..t : send[u].aborted
      BY <1>1, <2>1, <2>2 DEF SendsIInv, OvertakersFollowAborts
    <2>4. u \in SendIds /\ u # s
      BY <1>n, <1>2, <2>1, <2>3
    <2> QED BY <1>1, <2>3, <2>4
  <1>5. OvertakingNeedsAnAbort
    BY <1>1 DEF OvertakingNeedsAnAbort
  <1> QED BY <1>3, <1>4, <1>5

(***************************************************************************)
(* The requests behind the sends.                                          *)
(***************************************************************************)
\* Without a new request, one that awaits its answer awaited it before.
LEMMA AwaitedBefore ==
  ASSUME IInv, IInv', [Next]_vars, nextId' = nextId, NEW r \in live',
         req'[r].origin = "main", ~Answered(r)'
  PROVE  r \in live /\ req[r].origin = "main" /\ ~Answered(r)
  <1>1. r \in ReqIds
    BY DEF IInv, TypeOK
  <1>2. CASE Recedes
    BY <1>1, <1>2 DEF Recedes, Answered
  <1>3. CASE Creates
    <2>1. PICK j \in Jobs, origin \in {"main", "child"} : CreateRequest(j, origin)
      BY <1>3 DEF Creates
    <2>2. nextId' = nextId + 1 /\ nextId \in Nat
      BY <2>1 DEF CreateRequest, IInv, TypeOK
    <2> QED BY <2>2
  <1>4. CASE Consumes
    <2>1. PICK f \in [ReqIds -> Request], k \in ReqIds :
             /\ MarkConsumed(f, k)
             /\ \A x \in ReqIds : x # k => f[x] = req[x]
             /\ f[k].origin = req[k].origin
             /\ Answered(k) => f[k].response = req[k].response
      BY <1>4 DEF Consumes
    <2>2. r \in live /\ req'[r].origin = f[r].origin /\ req'[r].response = f[r].response
      BY <1>1, <2>1, MarkConsumedFields
    <2> QED BY <1>1, <2>1, <2>2 DEF Answered
  <1> QED BY <1>2, <1>3, <1>4, RequestChanges

\* A send keeps its request in the Map only while it stands for it.
LEMMA OrphansKept ==
  ASSUME IInv, IInv', [Next]_vars, nextId' = nextId, NoOrphanRequests,
         \A s \in SendIds :
            send[s].pc \in Unsettled \cup {"queued"} =>
               \/ /\ send'[s].request = send[s].request
                  /\ send'[s].pc \in Unsettled \cup {"queued"}
               \/ RollbackAny(send[s].request)
  PROVE  NoOrphanRequests'
  <1> SUFFICES ASSUME NEW r \in live', req'[r].origin = "main", ~Answered(r)'
               PROVE  \E s \in SendIds : /\ send'[s].request = r
                                         /\ send'[s].pc \in Unsettled \cup {"queued"}
    BY DEF NoOrphanRequests
  <1>1. r \in live /\ req[r].origin = "main" /\ ~Answered(r)
    BY AwaitedBefore
  <1>2. PICK s \in SendIds : /\ send[s].request = r
                             /\ send[s].pc \in Unsettled \cup {"queued"}
    BY <1>1 DEF NoOrphanRequests
  <1>3. ~RollbackAny(r)
    BY <1>1 DEF RollbackAny, CanRollBack, RollbackMainRequest
  <1> QED BY <1>2, <1>3

LEMMA BeginOrphans ==
  ASSUME IInv, RuntimeTypeOK, NoOrphanRequests, NEW s \in SendIds, NEW j \in Jobs,
         SendBegins(s, j)
  PROVE  NoOrphanRequests'
  <1> SUFFICES ASSUME NEW r \in live', req'[r].origin = "main", ~Answered(r)'
               PROVE  \E t \in SendIds : /\ send'[t].request = r
                                         /\ send'[t].pc \in Unsettled \cup {"queued"}
    BY DEF NoOrphanRequests
  <1>1. /\ send[s].pc = "unused"
        /\ send'[s].pc = "chained" /\ send'[s].request = nextId
        /\ \A t \in SendIds : t # s => send'[t] = send[t]
    BY DEF SendBegins, UnusedSend, RuntimeTypeOK
  <1>2. live' = live \cup {nextId} /\ \A x \in ReqIds : x # nextId => req'[x] = req[x]
    BY DEF SendBegins, CreateMainRequest, CreateRequest, IInv, TypeOK
  <1>3. CASE r = nextId
    BY <1>1, <1>3 DEF Unsettled
  <1>4. CASE r # nextId
    <2>1. r \in live /\ req[r].origin = "main" /\ ~Answered(r)
      BY <1>2, <1>4 DEF IInv, TypeOK, Answered
    <2>2. PICK t \in SendIds : /\ send[t].request = r
                               /\ send[t].pc \in Unsettled \cup {"queued"}
      BY <2>1 DEF NoOrphanRequests
    <2>3. t # s
      BY <1>1, <2>2 DEF Unsettled
    <2> QED BY <1>1, <2>2, <2>3
  <1> QED BY <1>3, <1>4

LEMMA ChildRequestOrphans ==
  ASSUME IInv, NoOrphanRequests, NEW c \in Conns, ChildRequest(c), send' = send
  PROVE  NoOrphanRequests'
  <1>1. nextId \in ReqIds
    BY BrokerAssumption DEF ChildRequest, CreateRequest, IInv, TypeOK, ReqIds
  <1>2. /\ live' = live \cup {nextId} /\ req'[nextId].origin = "child"
        /\ \A x \in ReqIds : x # nextId => req'[x] = req[x]
    BY <1>1 DEF ChildRequest, CreateRequest, IInv, TypeOK, BlankRequest
  <1> QED BY <1>2 DEF NoOrphanRequests, Answered, IInv, TypeOK

(***************************************************************************)
(* Every step, one after the other.                                        *)
(***************************************************************************)
Orderly == SendsIInv' /\ OvertakingNeedsAnAbort

LEMMA QuietOrderly ==
  ASSUME IInv, IInv', [Next]_vars, RuntimeTypeOK, SendsIInv,
         nextId' = nextId, send' = send
  PROVE  Orderly
  <1>1. NoOrphanRequests'
    BY OrphansKept DEF SendsIInv
  <1> QED BY <1>1, SendsUnchanged DEF Orderly, SendsIInv

LEMMA MoveOrderly ==
  ASSUME IInv, IInv', [Next]_vars, RuntimeTypeOK, SendsIInv, nextId' = nextId,
         NEW s \in SendIds,
         NEW from \in Unsettled, NEW to \in {"control", "delivering", "queued", "failed"},
         NEW b \in BOOLEAN, Moves(s, from, to, b),
         b => to = "failed",
         to = "control" => from = "chained",
         from = "chained" => b \/ PreviousSettled(s),
         to = "failed" => RollbackAny(send[s].request)
  PROVE  Orderly
  <1>1. NoOrphanRequests'
    <2>1. \A t \in SendIds : t # s => send'[t] = send[t]
      BY DEF Moves
    <2>2. /\ send'[s].request = send[s].request /\ send'[s].pc = to
          /\ send[s].pc = from
      BY DEF Moves
    <2>3. \/ send'[s].pc \in Unsettled \cup {"queued"}
          \/ RollbackAny(send[s].request)
      BY <2>2 DEF Unsettled
    <2> QED BY <2>1, <2>2, <2>3, OrphansKept DEF SendsIInv
  <1>2. /\ SendsBeginInOrder' /\ AbortedSendsFailed' /\ OvertakersFollowAborts'
        /\ OvertakingNeedsAnAbort
    BY MoveOrder
  <1> QED BY <1>1, <1>2 DEF Orderly, SendsIInv

LEMMA KeepsNextId ==
  /\ \A S : RevokeAny(S) => nextId' = nextId
  /\ \A r : RollbackAny(r) => nextId' = nextId
  /\ \A r : MarkMainRequestQueued(r) => nextId' = nextId
  /\ ShutdownBroker => nextId' = nextId
  /\ Start \/ StartSettles \/ Fail \/ Tick => nextId' = nextId
  <1>1. \A S : RevokeAny(S) => nextId' = nextId
    BY DEF RevokeAny, RevokeJobs, vars
  <1>2. \A r : RollbackAny(r) => nextId' = nextId
    BY DEF RollbackAny, RollbackMainRequest, vars
  <1>3. \A r : MarkMainRequestQueued(r) => nextId' = nextId
    BY DEF MarkMainRequestQueued
  <1>4. ShutdownBroker => nextId' = nextId
    BY DEF ShutdownBroker, Shutdown, Purge, vars
  <1>5. Start \/ StartSettles \/ Fail \/ Tick => nextId' = nextId
    BY DEF Start, StartSettles, Fail, Tick
  <1> QED BY <1>1, <1>2, <1>3, <1>4, <1>5

LEMMA SendOrderly ==
  ASSUME IInv, IInv', [Next]_vars, RuntimeTypeOK, SendsIInv,
         NEW s \in SendIds, SendStep(s)
  PROVE  Orderly
  <1>1. ASSUME NEW j \in Jobs, SendBegins(s, j) PROVE Orderly
    BY <1>1, BeginOrder, BeginOrphans DEF Orderly, SendsIInv
  <1>2. ASSUME SendFails(s), send[s].pc \in Unsettled,
               send[s].pc = "chained" => PreviousSettled(s)
        PROVE  Orderly
    <2>1. Moves(s, send[s].pc, "failed", FALSE) /\ RollbackAny(send[s].request)
      BY <1>2, PcMoves DEF SendFails, Unsettled
    <2>2. nextId' = nextId
      BY <2>1, KeepsNextId
    <2> QED BY <1>2, <2>1, <2>2, MoveOrderly
  <1>3. ASSUME NEW to \in {"control", "delivering", "queued"},
               send' = [send EXCEPT ![s].pc = to], nextId' = nextId,
               send[s].pc \in Unsettled,
               to = "control" => send[s].pc = "chained",
               send[s].pc = "chained" => PreviousSettled(s)
        PROVE  Orderly
    <2>1. Moves(s, send[s].pc, to, FALSE)
      BY <1>3, PcMoves DEF Unsettled
    <2> QED BY <1>3, <2>1, MoveOrderly
  <1>4. CASE SendProceeds(s)
    BY <1>2, <1>3, <1>4 DEF SendProceeds, Unsettled, vars
  <1>5. CASE SendHasControl(s)
    BY <1>2, <1>3, <1>5 DEF SendHasControl, Unsettled, vars
  <1>6. CASE SendAborts(s)
    <2>1. Moves(s, send[s].pc, "failed", TRUE)
      BY <1>6 DEF SendAborts, Moves, RuntimeTypeOK, Send
    <2>2. nextId' = nextId /\ RollbackAny(send[s].request)
      BY <1>6, KeepsNextId DEF SendAborts
    <2>3. send[s].pc \in Unsettled
      BY <1>6 DEF SendAborts, Unsettled
    <2> QED BY <2>1, <2>2, <2>3, MoveOrderly
  <1>7. CASE SteerAccepted(s)
    BY <1>2, <1>3, <1>7, KeepsNextId DEF SteerAccepted, Unsettled
  <1>8. CASE SteerFails(s)
    BY <1>2, <1>8 DEF SteerFails, Unsettled
  <1> QED BY <1>1, <1>4, <1>5, <1>6, <1>7, <1>8 DEF SendStep

LEMMA JobQuiet ==
  ASSUME NEW j \in Jobs, JobStep(j) PROVE nextId' = nextId /\ send' = send
  <1>1. ASSUME NEW state, NEW deliver, Finish(j, state, deliver)
        PROVE  nextId' = nextId /\ send' = send
    BY <1>1, KeepsNextId DEF Finish
  <1>2. CASE StartJob(j) BY <1>2 DEF StartJob, IssueCredentials
  <1>3. CASE TaskBegins(j)
    BY <1>1, <1>3 DEF TaskBegins, TaskReturns, ChildStarts, vars
  <1>4. CASE ChildReady(j) BY <1>4 DEF ChildReady, vars
  <1>5. CASE Cancel(j) BY <1>5, KeepsNextId DEF Cancel, Stop
  <1>6. ASSUME NEW outcome, ChildEnds(j, outcome)
        PROVE  nextId' = nextId /\ send' = send
    BY <1>1, <1>6 DEF ChildEnds, TaskReturns, vars
  <1> QED BY <1>2, <1>3, <1>4, <1>5, <1>6 DEF JobStep

LEMMA SessionQuiet == SessionStep => nextId' = nextId /\ send' = send
  <1>1. ASSUME NEW next, CloseSession(next) PROVE nextId' = nextId /\ send' = send
    BY <1>1, KeepsNextId DEF CloseSession, Stop
  <1> QED
    BY <1>1, KeepsNextId
    DEF SessionStep, SessionClosed, OpenSession, BeginSession, SessionStarted,
        InspectJobs, vars

LEMMA BrokerOrderly ==
  ASSUME IInv, IInv', [Next]_vars, RuntimeTypeOK, SendsIInv, BrokerStep
  PROVE  Orderly
  <1>1. send' = send
    BY DEF BrokerStep, runtimeVars
  <1>2. ASSUME NEW c \in Conns, ChildRequest(c) PROVE Orderly
    <2>1. NoOrphanRequests'
      BY <1>1, <1>2, ChildRequestOrphans DEF SendsIInv
    <2> QED BY <1>1, <2>1, SendsUnchanged DEF Orderly, SendsIInv
  <1>3. ASSUME NEW c \in Conns, ChildStep(c), ~ChildRequest(c) PROVE nextId' = nextId
    <2>1. CASE ChildConnects(c) BY <2>1 DEF ChildConnects, Connect
    <2>2. CASE HandlesFrame(c)
      BY <1>3, <2>2 DEF HandlesFrame, RejectFrame, FrameTimesOut, ChildReply,
                        ChildWaitAnswered, ChildWaitParks
    <2> QED BY <1>3, <2>1, <2>2 DEF ChildStep, WaitTimesOut, Flushed, ClientReceives,
                                    ClientGivesUp, SocketCloses
  <1>4. ASSUME NEW r \in ReqIds, NEW m \in Replies, ReplyFromMain(r, m)
        PROVE  nextId' = nextId
    BY <1>4 DEF ReplyFromMain
  <1> QED BY <1>1, <1>2, <1>3, <1>4, KeepsNextId, QuietOrderly DEF BrokerStep

LEMMA OrderlyStep ==
  ASSUME IInv, IInv', [Next]_vars, RuntimeTypeOK, SendsIInv, [RuntimeNext]_allVars
  PROVE  Orderly
  <1>1. ASSUME NEW w \in MainWaits, WaitStep(w) PROVE nextId' = nextId /\ send' = send
    BY <1>1 DEF WaitStep, WaitEnds, WaitBegins, BeginMainWait, EndMainWait, runtimeVars
  <1>2. CASE UNCHANGED allVars
    BY <1>2, QuietOrderly DEF allVars, vars, runtimeVars
  <1> QED
    BY <1>1, <1>2, SendOrderly, BrokerOrderly, JobQuiet, SessionQuiet, QuietOrderly
    DEF RuntimeNext

LEMMA SendsInit == RuntimeInit => SendsIInv
  <1> SUFFICES ASSUME RuntimeInit PROVE SendsIInv
    OBVIOUS
  <1>1. live = {} /\ \A s \in SendIds : send[s] = UnusedSend
    BY DEF RuntimeInit, Init
  <1>2. \A t \in SendIds : \A s \in 1..(t - 1) : s \in SendIds
    BY RuntimeAssumption DEF SendIds
  <1> QED
    BY <1>1, <1>2 DEF SendsIInv, SendsBeginInOrder, AbortedSendsFailed,
                      OvertakersFollowAborts, NoOrphanRequests, UnusedSend

(***************************************************************************)
(* For any number of jobs and sends, no request of the main agent is left  *)
(* without the send that stands for it, and a send overtakes an earlier    *)
(* one of its job only after an abort between the two.                     *)
(***************************************************************************)
THEOREM SendsCorrect == RuntimeSpec => SendsAreOrderly
  <1>1. IInv /\ IInv' /\ [Next]_vars /\ RuntimeIInv /\ SendsIInv
           /\ [RuntimeNext]_allVars => SendsIInv' /\ OvertakingNeedsAnAbort
    BY OrderlyStep DEF RuntimeIInv, Orderly
  <1>2. SendsIInv => NoOrphanRequests
    BY DEF SendsIInv
  <1>3. RuntimeSpec => []IInv /\ [][Next]_vars
    BY RuntimeImplementsBroker, InvariantCorrect, PTL DEF Spec
  <1>4. RuntimeSpec => []SendsIInv
    BY <1>1, <1>3, SendsInit, RuntimeInvariantCorrect, PTL DEF RuntimeSpec
  <1>5. RuntimeSpec => [][NoOrphanRequests' /\ OvertakingNeedsAnAbort]_allVars
    BY <1>1, <1>2, <1>3, <1>4, RuntimeInvariantCorrect, PTL DEF RuntimeSpec
  <1> QED BY <1>5 DEF SendsAreOrderly

=============================================================================
