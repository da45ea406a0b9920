---------------------------- MODULE FleetDelivery ----------------------------
(***************************************************************************)
(* Messages to one session of a pi-fleet group: the frames on its sockets, *)
(* the endpoint that handles them, and the life of the session, in which   *)
(* the endpoint is stopped and, after a reload, started again.             *)
(*                                                                         *)
(* Source: handleIncoming of packages/pi-fleet/src/transport.ts and the    *)
(* session lifecycle of packages/pi-fleet/src/fleet-controller.ts.  A      *)
(* frame is handled in one step, because onMessage awaits nothing; the     *)
(* answers for deliveries that are still pending are then never given.     *)
(* A rate limiter may refuse any frame.                                    *)
(***************************************************************************)
EXTENDS Naturals, FiniteSets

CONSTANTS
    Notifies,       \* messages, by their mode
    Requests,
    Kickoffs,       \* for the one launch of this session's process
    None,           \* no handoff
    MaxFrames,      \* bound on the frames in which a message is sent
    MaxStarts       \* bound on the starts of the endpoint

Messages == Notifies \cup Requests \cup Kickoffs

Handoff == [launched : BOOLEAN, accepts : BOOLEAN, consumed : BOOLEAN]

ASSUME FleetDeliveryAssumption ==
    /\ Kickoffs \cap (Notifies \cup Requests) = {}
    /\ None \notin Handoff
    /\ MaxFrames \in Nat /\ MaxStarts \in Nat

VARIABLES
    phase,
    busy,       \* the operation that connected is not over: it takes a snapshot
    launched,   \* the endpoint has a launch id and a kickoff capability
    accepts,    \* acceptsRequests
    consumed,   \* kickoffConsumed, of the transport and of the membership
    dedup,      \* messageDedup of the transport
    handoff,    \* what a reload leaves for the next controller
    branch,     \* the messages among the entries of the session
    starts,
    sent, frames,   \* the frames made so far, and those not yet handled
    acks,       \* the answers given to the frames of each message
    received,   \* how often each message was handed to Pi
    endedBusy   \* history: a session ended while a membership operation ran

endpoint == <<launched, accepts, consumed, dedup>>
session == <<phase, busy, handoff, branch, starts>>
fleetVars == <<endpoint, session, sent, frames, acks, received, endedBusy>>

-----------------------------------------------------------------------------
(***************************************************************************)
(* ended: no controller, or one whose session is over.  away: no group.    *)
(* starting: the transport listens, but the membership is not stored yet.  *)
(* connected: it is.  draining: the session is over for the controller,    *)
(* and the transport waits for its turn to be stopped.                     *)
(***************************************************************************)
Phases == {"ended", "away", "starting", "connected", "draining"}

Listening == phase \in {"starting", "connected", "draining"}

Answers == {"accepted", "duplicate", "busy", "rejected"}

FleetTypeOK ==
    /\ phase \in Phases /\ busy \in BOOLEAN
    /\ launched \in BOOLEAN /\ accepts \in BOOLEAN
    /\ consumed \in [transport : BOOLEAN, membership : BOOLEAN]
    /\ dedup \subseteq Messages /\ branch \subseteq Messages
    /\ handoff \in Handoff \cup {None}
    /\ starts \in 0..MaxStarts
    /\ sent \in [Messages -> 0..MaxFrames] /\ frames \in [Messages -> Nat]
    /\ acks \in [Messages -> SUBSET Answers]
    /\ received \in [Messages -> Nat]
    /\ endedBusy \in BOOLEAN

FleetInit ==
    /\ phase = "ended" /\ busy = FALSE
    /\ launched = FALSE /\ accepts = FALSE
    /\ consumed = [transport |-> FALSE, membership |-> FALSE]
    /\ dedup = {} /\ branch = {} /\ handoff = None
    /\ starts = 0
    /\ sent = [m \in Messages |-> 0] /\ frames = [m \in Messages |-> 0]
    /\ acks = [m \in Messages |-> {}]
    /\ received = [m \in Messages |-> 0]
    /\ endedBusy = FALSE

-----------------------------------------------------------------------------
\* A peer sends a message, or sends it again: it has found the endpoint's
\* manifest, and its connection is accepted.
Send(m) ==
    /\ Listening /\ sent[m] < MaxFrames
    /\ sent' = [sent EXCEPT ![m] = @ + 1]
    /\ frames' = [frames EXCEPT ![m] = @ + 1]
    /\ UNCHANGED <<endpoint, session, acks, received>>

Handled(m, answer) ==
    /\ Listening /\ frames[m] > 0
    /\ frames' = [frames EXCEPT ![m] = @ - 1]
    /\ acks' = [acks EXCEPT ![m] = @ \cup {answer}]
    /\ UNCHANGED <<session, launched, accepts, sent>>

PolicyError(m) ==
    \/ m \in Requests /\ ~accepts
    \/ m \in Kickoffs /\ (~launched \/ consumed.transport)

Limited(m) ==
    /\ Handled(m, "busy")
    /\ UNCHANGED <<consumed, dedup, received>>

Duplicate(m) ==
    /\ m \in dedup
    /\ Handled(m, "duplicate")
    /\ UNCHANGED <<consumed, dedup, received>>

RejectedByPolicy(m) ==
    /\ m \notin dedup /\ PolicyError(m)
    /\ Handled(m, "rejected")
    /\ UNCHANGED <<consumed, dedup, received>>

\* Mutant: the message is recorded before it is delivered.
FailsRecorded(m) ==
    /\ m \notin dedup /\ ~PolicyError(m) /\ phase # "draining"
    /\ Handled(m, "rejected")
    /\ dedup' = dedup \cup {m}
    /\ UNCHANGED <<consumed, received>>

\* Pi refuses the message: onMessage throws.
Fails(m) ==
    /\ m \notin dedup /\ ~PolicyError(m) /\ phase # "draining"
    /\ Handled(m, "rejected")
    /\ UNCHANGED <<consumed, dedup, received>>

\* onMessage does nothing when the controller's session is over.
Accepted(m) ==
    /\ m \notin dedup /\ ~PolicyError(m)
    /\ Handled(m, "accepted")
    /\ dedup' = dedup \cup {m}
    /\ received' = IF phase = "draining" THEN received ELSE [received EXCEPT ![m] = @ + 1]
    /\ consumed' = [transport |-> consumed.transport \/ m \in Kickoffs,
                    membership |-> consumed.membership \/ (phase # "draining" /\ m \in Kickoffs)]

\* Pi appends a message it was handed to the session's entries.
Persist(m) ==
    /\ received[m] > 0 /\ branch' = branch \cup {m}
    /\ UNCHANGED <<endpoint, phase, busy, handoff, starts, sent, frames, acks, received>>

-----------------------------------------------------------------------------
\* startGroupOwned, up to the listening endpoint.
BeginStart(isLaunched, doesAccept, isConsumed) ==
    /\ starts < MaxStarts /\ starts' = starts + 1
    /\ phase' = "starting"
    /\ launched' = isLaunched /\ accepts' = doesAccept
    /\ LET c == isConsumed \/ (isLaunched /\ branch \cap Kickoffs # {})
       IN  consumed' = [transport |-> c, membership |-> c]
    /\ dedup' = branch
    /\ UNCHANGED <<branch, sent, frames, acks, received>>

\* The first session of a process, which pi-fleet has launched.
Launch ==
    /\ phase = "ended" /\ starts = 0
    /\ BeginStart(TRUE, FALSE, FALSE)
    /\ UNCHANGED <<busy, handoff>>

\* sessionStart after a reload, in time for the handoff.
Reload ==
    /\ phase = "ended" /\ handoff # None
    /\ BeginStart(handoff.launched, handoff.accepts, handoff.consumed)
    /\ handoff' = None
    /\ UNCHANGED busy

\* sessionStart without a handoff, or with one that has expired.
StartAway ==
    /\ phase = "ended" /\ starts > 0
    /\ phase' = "away" /\ handoff' = None
    /\ UNCHANGED <<endpoint, busy, branch, starts, sent, frames, acks, received>>

\* startNewGroup and joinInvite, which take a snapshot once connected, and
\* claimSpawnMembership, which does not.
Join(doesAccept, snapshot) ==
    /\ phase = "away" /\ (snapshot \/ ~doesAccept)
    /\ BeginStart(FALSE, doesAccept, FALSE)
    /\ busy' = snapshot
    /\ UNCHANGED handoff

Started ==
    /\ phase = "starting" /\ phase' = "connected"
    /\ UNCHANGED <<endpoint, busy, handoff, branch, starts, sent, frames, acks, received>>

SnapshotTaken ==
    /\ phase = "connected" /\ busy /\ busy' = FALSE
    /\ UNCHANGED <<endpoint, phase, handoff, branch, starts, sent, frames, acks, received>>

SetAcceptsRequests(value) ==
    /\ phase = "connected" /\ accepts' = value
    /\ UNCHANGED <<launched, consumed, dedup, session, sent, frames, acks, received>>

\* The transport is stopped: its sockets are destroyed.
StopTransport(next) ==
    /\ phase' = next /\ busy' = FALSE
    /\ frames' = [m \in Messages |-> 0]
    /\ UNCHANGED <<endpoint, branch, starts, sent, acks, received>>

StartFails ==
    /\ phase = "starting" /\ StopTransport("away") /\ UNCHANGED handoff

\* leave, once the operations before it are over.
Leave ==
    /\ phase = "connected" /\ ~busy /\ StopTransport("away") /\ UNCHANGED handoff

\* Mutant: the handoff forgets whether the kickoff has been consumed.
LeftBehindUnconsumed(reload) ==
    IF reload /\ phase = "connected"
    THEN [launched |-> launched, accepts |-> accepts, consumed |-> FALSE]
    ELSE handoff

LeftBehind(reload) ==
    IF reload /\ phase = "connected"
    THEN [launched |-> launched, accepts |-> accepts, consumed |-> consumed.membership]
    ELSE handoff

\* sessionShutdown with no membership operation under way.
Shutdown(reload) ==
    /\ phase = "away" \/ (phase = "connected" /\ ~busy)
    /\ handoff' = LeftBehind(reload)
    /\ StopTransport("ended")

\* sessionShutdown whose leaveGroupInternal has to wait.
ShutdownBusy(reload) ==
    /\ phase = "starting" \/ (phase = "connected" /\ busy)
    /\ handoff' = LeftBehind(reload)
    /\ phase' = "draining" /\ endedBusy' = TRUE
    /\ UNCHANGED <<endpoint, busy, branch, starts, sent, frames, acks, received>>

Drained ==
    /\ phase = "draining" /\ StopTransport("ended") /\ UNCHANGED handoff

FrameStep ==
    \E m \in Messages :
       \/ Send(m) \/ Limited(m) \/ Duplicate(m) \/ RejectedByPolicy(m)
       \/ Fails(m) \/ Accepted(m) \/ Persist(m)

SessionStep ==
    \/ Launch \/ Reload \/ StartAway \/ Started \/ SnapshotTaken \/ StartFails
    \/ Leave \/ Drained
    \/ \E b \in BOOLEAN : SetAcceptsRequests(b) \/ Shutdown(b)
    \/ \E a, b \in BOOLEAN : Join(a, b)

FleetNext ==
    \/ (FrameStep \/ SessionStep) /\ UNCHANGED endedBusy
    \/ \E b \in BOOLEAN : ShutdownBusy(b)

FleetSpec == FleetInit /\ [][FleetNext]_fleetVars

-----------------------------------------------------------------------------
(***************************************************************************)
(* A launched session starts at most one kickoff, once, however many       *)
(* frames bring it and whatever reloads come between, also when Pi has not *)
(* written the first one to the session yet.                               *)
(***************************************************************************)
KickoffOnce ==
    /\ \A k \in Kickoffs : received[k] <= 1
    /\ \A k, l \in Kickoffs : received[k] > 0 /\ received[l] > 0 => k = l

(***************************************************************************)
(* A positive answer means that the session was handed the message, as     *)
(* long as no session has ended in the middle of a membership operation:   *)
(* duplicates of a message that failed, reloads and rejoins included.      *)
(***************************************************************************)
AckedIsReceived ==
    \A m \in Messages : acks[m] \cap {"accepted", "duplicate"} # {} => received[m] > 0

AckedIsReceivedIfIdle == ~endedBusy => AckedIsReceived
=============================================================================
