---------------------------- MODULE ChromeBrowser ----------------------------
(***************************************************************************)
(* pi-chrome-devtools drives a browser over its DevTools port.  It attaches *)
(* to one that runs already or launches one of its own: a process with a   *)
(* temporary profile that the session owns, shares between its tool calls  *)
(* and takes down again.  Launching awaits the file system, the process    *)
(* and the port; the session may end, the settings change, the browser die *)
(* and a caller give up at every await.                                    *)
(*                                                                         *)
(* Source: packages/pi-chrome-devtools/src/browser-manager.ts for one owner *)
(* (a session manager), the session events of chrome-devtools.ts, the      *)
(* saving of settings in browser-settings-menu.ts, the listing of pages in *)
(* cdp-client.ts and the operations of WebMCP in runtime.ts.               *)
(*                                                                         *)
(* A generation only counts as the one that is current or one that is not: *)
(* "stale" of a launch, a handler stands for a generation that has passed. *)
(* A loop of retries is one step that succeeds when it can or fails at any *)
(* time.  The host is local; where the executables are is left out.        *)
(***************************************************************************)
EXTENDS Integers

CONSTANTS
    Calls,          \* the tool calls that may be in flight at once
    Browsers,       \* bound: the browsers whose cleanup has not ended
    Settings,       \* the browser settings that may be stored
    Initial,        \* those of a new scope
    Candidates,     \* the number of executables at most
    External        \* the ports that browsers of the user listen on

NoPort == 0
NoBrowser == 0
Gone == -1          \* a browser that is held by a caller of shutdownManagedBrowser, cleaned up
Foreign == -2       \* a browser of the user

\* port, fixed: the configured port, and whether the endpoint is pinned to it.
\* ext: unpacked extensions are configured.  auto: browsers may be launched.
Setting == [port : Nat \ {NoPort}, fixed : BOOLEAN, ext : BOOLEAN, auto : BOOLEAN]

ASSUME ChromeAssumption ==
    /\ Browsers \subseteq Nat \ {NoBrowser}
    /\ Settings \subseteq Setting /\ Initial \in Settings
    /\ Candidates \in Nat
    /\ External \subseteq Nat \ {NoPort}

VARIABLES
    scope,      \* ManagedBrowserScope: its settings, port and managed browser
    launch,     \* the launch promise of the scope
    browser,    \* the processes that were spawned and are not cleaned up
    call,       \* the tool calls
    handler,    \* the handlers that shut the managed browser down
    session     \* where the session is

vars == <<scope, launch, browser, call, handler, session>>

-----------------------------------------------------------------------------
\* up: it listens.  arg: the port of its command line, NoPort for a dynamic
\* one.  port: the port that was published.  cleaning: cleanupPromise.
Browser == [os : {"none", "failed", "alive", "dead"}, up : BOOLEAN, exited : BOOLEAN,
            ready : BOOLEAN, arg : Int, port : Int, cleaning : {"no", "term", "kill", "rm"}]

Blank == [os |-> "none", up |-> FALSE, exited |-> FALSE, ready |-> FALSE,
          arg |-> NoPort, port |-> NoPort, cleaning |-> "no"]

Spawned(os, arg) == [Blank EXCEPT !.os = os, !.arg = arg]

DynamicPort(b) == -b

Listens(b) == IF browser[b].arg = NoPort THEN DynamicPort(b) ELSE browser[b].arg

Held == Browsers \cup {NoBrowser, Gone}

Launch == [pc : {"none", "old", "port", "resolve", "version", "profile", "spawn", "publish",
                 "connect", "failing"},
           stale : BOOLEAN, left : Nat, browser : Held]

NoLaunch == [pc |-> "none", stale |-> FALSE, left |-> 0, browser |-> NoBrowser]

\* web: an operation of WebMCP.  server: the browser that has answered.
Call == [pc : {"idle", "attach", "launch", "fetch", "work"}, web : BOOLEAN,
         server : Browsers \cup {NoBrowser, Foreign}]

IdleCall == [pc |-> "idle", web |-> FALSE, server |-> NoBrowser]

Handlers == {"start", "stop", "save"}

Handler == [pc : {"idle", "write", "launch", "close", "cleanup", "closed", "load"},
            stale : BOOLEAN, browser : Held]

IdleHandler == [pc |-> "idle", stale |-> FALSE, browser |-> NoBrowser]

TypeOK ==
    /\ scope \in [aborted : BOOLEAN, cfg : Settings, port : Int,
                  managed : Browsers \cup {NoBrowser}]
    /\ launch \in Launch /\ browser \in [Browsers -> Browser]
    /\ call \in [Calls -> Call] /\ handler \in [Handlers -> Handler]
    /\ session \in {"closed", "starting", "open", "stopping"}

Init ==
    /\ scope = [aborted |-> FALSE, cfg |-> Initial, port |-> Initial.port,
                managed |-> NoBrowser]
    /\ launch = NoLaunch /\ browser = [b \in Browsers |-> Blank]
    /\ call = [c \in Calls |-> IdleCall] /\ handler = [h \in Handlers |-> IdleHandler]
    /\ session = "closed"

-----------------------------------------------------------------------------
(* Who listens on a port. *)
Answers(p) ==
    {b \in Browsers : browser[b].os = "alive" /\ browser[b].up /\ Listens(b) = p}
        \cup (IF p \in External THEN {Foreign} ELSE {})

(* throwIfBrowserLaunchCancelled: the signal of a launch belongs to its generation. *)
Cancelled == launch.stale \/ scope.aborted

Superseded(l) == IF l.pc = "none" THEN l ELSE [l EXCEPT !.stale = TRUE]

(* invalidateWebMcpOperations aborts what WebMCP does and resolves. *)
Invalidated(cs) == [c \in Calls |-> IF cs[c].web THEN IdleCall ELSE cs[c]]

(* cleanupManagedBrowser, up to its first await. *)
Cleaned(b) == [browser EXCEPT ![b].cleaning = IF browser[b].exited THEN "rm" ELSE "term"]

BeginCleanup(b, cs) ==
    /\ browser' = Cleaned(b)
    /\ scope' = IF scope.managed = b THEN [scope EXCEPT !.managed = NoBrowser] ELSE scope
    /\ call' = IF scope.managed = b THEN Invalidated(cs) ELSE cs

\* Mutant: a shutdown does not wait for the launch.
Hasty(h, hs) ==
    [hs EXCEPT ![h] = [pc |-> "close", stale |-> FALSE, browser |-> scope.managed]]

(* shutdownManagedBrowser: takes the browser there is and awaits the launch. *)
Closing(h, hs) ==
    [hs EXCEPT ![h] = [pc |-> IF launch.pc = "none" THEN "close" ELSE "launch",
                       stale |-> FALSE, browser |-> scope.managed]]

(* The launch promise settles: finally, then those that wait for it. *)
Settle(ok, cs) ==
    /\ launch' = NoLaunch
    /\ call' = [c \in Calls |-> IF cs[c].pc # "launch" THEN cs[c]
                                ELSE IF ok THEN [cs[c] EXCEPT !.pc = "fetch"] ELSE IdleCall]
    /\ handler' = [h \in Handlers |->
                     IF handler[h].pc = "launch" THEN [handler[h] EXCEPT !.pc = "close"]
                                                 ELSE handler[h]]

(* A handler continues in the microtask after the launch, before anything else. *)
Calm == \A h \in Handlers : handler[h].pc # "close"

-----------------------------------------------------------------------------
(* Tool calls. *)
At(c, pc) == [call EXCEPT ![c].pc = pc]
Ended(c) == [call EXCEPT ![c] = IdleCall]

FirstStep == IF scope.cfg.fixed THEN "port" ELSE "resolve"

(* prepareManagedBrowserLaunch, up to its first await. *)
BeginLaunch(c) ==
    IF scope.managed = NoBrowser
    THEN /\ launch' = [NoLaunch EXCEPT !.pc = FirstStep]
         /\ call' = At(c, "launch") /\ UNCHANGED <<scope, browser>>
    ELSE /\ launch' = [NoLaunch EXCEPT !.pc = "old", !.browser = scope.managed]
         /\ BeginCleanup(scope.managed, At(c, "launch"))

Reusable(b) == b # NoBrowser /\ ~browser[b].exited /\ browser[b].ready

EnsureLaunched(c) ==
    \/ /\ launch.pc # "none"
       /\ call' = At(c, "launch") /\ UNCHANGED <<scope, launch, browser>>
    \/ /\ launch.pc = "none" /\ Reusable(scope.managed)
       /\ call' = At(c, "fetch") /\ UNCHANGED <<scope, launch, browser>>
    \/ /\ launch.pc = "none" /\ ~Reusable(scope.managed) /\ scope.aborted
       /\ call' = Ended(c) /\ UNCHANGED <<scope, launch, browser>>
    \/ /\ launch.pc = "none" /\ ~Reusable(scope.managed) /\ ~scope.aborted
       /\ BeginLaunch(c)

(* ensureDevToolsEndpoint: with extensions only a browser of its own will do. *)
StartCall(c, web) ==
    /\ Calm /\ session = "open" /\ call[c].pc = "idle"
    /\ call' = [call EXCEPT ![c] = [pc |-> "attach", web |-> web, server |-> NoBrowser]]
    /\ UNCHANGED <<scope, launch, browser, handler, session>>

Attach(c) ==
    /\ Calm /\ call[c].pc = "attach"
    /\ \/ /\ ~scope.cfg.ext /\ (~scope.cfg.auto \/ Answers(scope.port) # {})
          /\ call' = At(c, "fetch") /\ UNCHANGED <<scope, launch, browser>>
       \/ scope.cfg.auto /\ EnsureLaunched(c)
       \/ /\ ~scope.cfg.ext \/ ~scope.cfg.auto
          /\ call' = Ended(c) /\ UNCHANGED <<scope, launch, browser>>
    /\ UNCHANGED <<handler, session>>

(* listPages: the list is asked of whoever listens on the port of the scope. *)
Fetch(c) ==
    /\ Calm /\ call[c].pc = "fetch"
    /\ \/ \E s \in Answers(scope.port) :
             call' = [call EXCEPT ![c].pc = "work", ![c].server = s]
       \/ call' = Ended(c)
    /\ UNCHANGED <<scope, launch, browser, handler, session>>

(* The tool has done its work, or its signal has aborted. *)
EndCall(c) ==
    /\ Calm /\ call[c].pc # "idle"
    /\ call' = Ended(c)
    /\ UNCHANGED <<scope, launch, browser, handler, session>>

-----------------------------------------------------------------------------
(* The launch. *)
Step(pc) == [launch EXCEPT !.pc = pc]

Unsuccessful == Settle(FALSE, call) /\ UNCHANGED <<scope, browser>>

FirstOf(n) ==
    [launch EXCEPT !.pc = IF scope.cfg.ext THEN "version" ELSE "profile",
                   !.left = n, !.browser = NoBrowser]

(* A candidate has failed: the loop of launchManagedBrowser. *)
TryNext ==
    IF Cancelled \/ launch.left <= 1 THEN Unsuccessful
    ELSE launch' = FirstOf(launch.left - 1) /\ UNCHANGED <<scope, browser, call, handler>>

(* The old browser is cleaned up. *)
OldClosed ==
    /\ UNCHANGED session
    /\ Calm /\ launch.pc = "old" /\ launch.browser = Gone
    /\ IF Cancelled THEN Unsuccessful
       ELSE /\ launch' = [Step(FirstStep) EXCEPT !.browser = NoBrowser]
            /\ UNCHANGED <<scope, browser, call, handler>>

CheckPort ==
    /\ UNCHANGED session
    /\ Calm /\ launch.pc = "port"
    /\ IF Cancelled \/ Answers(scope.port) # {} THEN Unsuccessful
       ELSE launch' = Step("resolve") /\ UNCHANGED <<scope, browser, call, handler>>

Resolve ==
    /\ UNCHANGED session
    /\ Calm /\ launch.pc = "resolve"
    /\ \E n \in 0..(IF scope.cfg.ext THEN 1 ELSE Candidates) :
         IF Cancelled \/ n = 0 THEN Unsuccessful
         ELSE launch' = FirstOf(n) /\ UNCHANGED <<scope, browser, call, handler>>

CheckVersion ==
    /\ UNCHANGED session
    /\ Calm /\ launch.pc = "version"
    /\ \/ ~Cancelled /\ launch' = Step("profile") /\ UNCHANGED <<scope, browser, call, handler>>
       \/ TryNext

(* mkdtemp, then spawn, which may fail: at once or with an event. *)
Spawn ==
    /\ UNCHANGED session
    /\ Calm /\ launch.pc = "profile"
    /\ \/ TryNext
       \/ \E b \in Browsers, os \in {"alive", "failed"} :
            /\ ~Cancelled /\ browser[b] = Blank
            /\ browser' = [browser EXCEPT ![b] =
                             Spawned(os, IF scope.cfg.fixed THEN scope.port ELSE NoPort)]
            /\ scope' = [scope EXCEPT !.managed = b]
            /\ launch' = [Step("spawn") EXCEPT !.browser = b]
            /\ UNCHANGED <<call, handler>>

(* The catch of launchBrowserCandidate. *)
Abandon ==
    /\ launch' = Step("failing")
    /\ BeginCleanup(launch.browser, call)
    /\ UNCHANGED handler

AwaitSpawn ==
    /\ UNCHANGED session
    /\ Calm /\ launch.pc = "spawn"
    /\ IF Cancelled \/ browser[launch.browser].os = "failed" THEN Abandon
       ELSE /\ launch' = Step(IF scope.cfg.fixed THEN "connect" ELSE "publish")
            /\ browser' = IF scope.cfg.fixed
                          THEN [browser EXCEPT ![launch.browser].port = scope.port] ELSE browser
            /\ UNCHANGED <<scope, call, handler>>

(* readManagedBrowserPort: fails when the browser has exited, when it is late. *)
ReadPort ==
    /\ UNCHANGED session
    /\ Calm /\ launch.pc = "publish"
    /\ \/ /\ ~Cancelled /\ browser[launch.browser].up
          /\ browser' = [browser EXCEPT ![launch.browser].port = Listens(launch.browser)]
          /\ scope' = [scope EXCEPT !.port = Listens(launch.browser)]
          /\ launch' = Step("connect") /\ UNCHANGED <<call, handler>>
       \/ Abandon

(* waitForDevToolsEndpoint asks the port of the scope. *)
Answered(b) ==
    \/ Answers(scope.port) # {} /\ ~browser[b].exited
    \/ browser[b].up /\ browser[b].os = "dead"      \* it has answered and died

Connect ==
    /\ UNCHANGED session
    /\ Calm /\ launch.pc = "connect"
    /\ \/ /\ ~Cancelled /\ Answered(launch.browser)
          /\ browser' = [browser EXCEPT ![launch.browser].ready = TRUE]
          /\ Settle(TRUE, call) /\ UNCHANGED scope
       \/ Abandon

CandidateFailed ==
    /\ UNCHANGED session
    /\ Calm /\ launch.pc = "failing" /\ launch.browser = Gone
    /\ TryNext

LaunchStep ==
    \/ OldClosed \/ CheckPort \/ Resolve \/ CheckVersion \/ Spawn \/ AwaitSpawn
    \/ ReadPort \/ Connect \/ CandidateFailed

-----------------------------------------------------------------------------
(* The browsers and their cleanup. *)
Publish(b) ==
    /\ Calm /\ browser[b].os = "alive" /\ ~browser[b].up /\ Answers(Listens(b)) = {}
    /\ browser' = [browser EXCEPT ![b].up = TRUE]
    /\ UNCHANGED <<scope, launch, call, handler, session>>

Die(b) ==
    /\ Calm /\ browser[b].os = "alive"
    /\ browser' = [browser EXCEPT ![b].os = "dead"]
    /\ UNCHANGED <<scope, launch, call, handler, session>>

(* The dynamic port of a browser that is gone gives way to the configured one. *)
PortReset(b) ==
    IF ~scope.cfg.fixed /\ browser[b].port = scope.port
    THEN [scope EXCEPT !.port = scope.cfg.port] ELSE scope

\* Mutant: the exit of a browser does not concern the operations of WebMCP.
ExitQuietly(b) ==
    /\ Calm /\ browser[b].os = "dead" /\ ~browser[b].exited
    /\ browser' = [browser EXCEPT ![b].exited = TRUE, ![b].ready = FALSE,
                                  ![b].cleaning = IF @ = "no" THEN "no" ELSE "rm"]
    /\ scope' = PortReset(b)
    /\ UNCHANGED <<call, launch, handler, session>>

(* The exit event, for the launch and for a cleanup that waits for it. *)
Exit(b) ==
    /\ Calm /\ browser[b].os = "dead" /\ ~browser[b].exited
    /\ browser' = [browser EXCEPT ![b].exited = TRUE, ![b].ready = FALSE,
                                  ![b].cleaning = IF @ = "no" THEN "no" ELSE "rm"]
    /\ scope' = PortReset(b)
    /\ call' = IF scope.managed = b THEN Invalidated(call) ELSE call
    /\ UNCHANGED <<launch, handler, session>>

\* Mutant: the browser is killed until it has exited, though it may never have started.
KillAgain(b) ==
    /\ Calm /\ browser[b].cleaning \in {"term", "kill"}
    /\ browser' = IF browser[b].cleaning = "kill" THEN [browser EXCEPT ![b].cleaning = "term"]
                  ELSE [browser EXCEPT ![b].cleaning = "kill",
                                       ![b].os = IF @ = "alive" THEN "dead" ELSE @]
    /\ UNCHANGED <<scope, launch, call, handler, session>>

(* BROWSER_SHUTDOWN_WAIT_MS is over, for SIGTERM and then for SIGKILL. *)
KillTimeout(b) ==
    /\ Calm /\ browser[b].cleaning \in {"term", "kill"}
    /\ browser' = IF browser[b].cleaning = "kill" THEN [browser EXCEPT ![b].cleaning = "rm"]
                  ELSE [browser EXCEPT ![b].cleaning = "kill",
                                       ![b].os = IF @ = "alive" THEN "dead" ELSE @]
    /\ UNCHANGED <<scope, launch, call, handler, session>>

(* The profile is removed; the cleanup promise is settled. *)
Removed(b) ==
    /\ Calm /\ browser[b].cleaning = "rm"
    /\ browser' = [browser EXCEPT ![b] = Blank]
    /\ scope' = PortReset(b)
    /\ launch' = IF launch.browser = b THEN [launch EXCEPT !.browser = Gone] ELSE launch
    /\ handler' = [h \in Handlers |->
                     IF handler[h].browser # b THEN handler[h]
                     ELSE [handler[h] EXCEPT !.browser = Gone,
                                             !.pc = IF @ = "cleanup" THEN "closed" ELSE @]]
    /\ call' = [c \in Calls |-> IF call[c].server = b THEN IdleCall ELSE call[c]]
    /\ UNCHANGED session

-----------------------------------------------------------------------------
(* The handlers that shut the browser down. *)
Outdated(hs) ==
    [h \in Handlers |-> IF hs[h].pc = "idle" THEN hs[h] ELSE [hs[h] EXCEPT !.stale = TRUE]]

(* What a session that starts and one that ends have in common. *)
Replace(h) ==
    /\ scope' = [scope EXCEPT !.aborted = TRUE]
    /\ launch' = Superseded(launch)
    /\ handler' = Closing(h, Outdated(handler))
    /\ call' = Invalidated(call)

(* session_start; Pi has waited for the turn of the session before. *)
StartSession ==
    /\ Calm /\ session = "closed" /\ \A h \in {"start", "stop"} : handler[h].pc = "idle"
    /\ \A c \in Calls : call[c].pc = "idle"
    /\ session' = "starting" /\ Replace("start")
    /\ UNCHANGED browser

(* session_shutdown, at any time: calls may be in flight. *)
StopSession ==
    /\ Calm /\ session \in {"starting", "open"}
    /\ session' = "stopping" /\ Replace("stop")
    /\ UNCHANGED browser

(* saveAndApplyBrowserPatch, when the agent is idle: calls can only start later. *)
BeginSave ==
    /\ Calm /\ session = "open" /\ handler["save"].pc = "idle"
    /\ \A c \in Calls : call[c].pc = "idle"
    /\ handler' = [handler EXCEPT !["save"].pc = "write"]
    /\ UNCHANGED <<scope, launch, browser, call, session>>

WriteFails ==
    /\ Calm /\ handler["save"].pc = "write"
    /\ handler' = [handler EXCEPT !["save"] = IdleHandler]
    /\ UNCHANGED <<scope, launch, browser, call, session>>

Write ==
    /\ Calm /\ handler["save"].pc = "write"
    /\ IF handler["save"].stale
       THEN handler' = [handler EXCEPT !["save"] = IdleHandler] /\ UNCHANGED call
       ELSE handler' = Closing("save", handler) /\ call' = Invalidated(call)
    /\ UNCHANGED <<scope, launch, browser, session>>

(* shutdownManagedBrowser after the launch: the browser it took, or the one there is. *)
Close(h) ==
    /\ handler[h].pc = "close"
    /\ LET b == IF handler[h].browser = NoBrowser THEN scope.managed ELSE handler[h].browser
       IN IF b \in {NoBrowser, Gone}
          THEN /\ handler' = [handler EXCEPT ![h].pc = "closed"]
               /\ UNCHANGED <<scope, browser, call>>
          ELSE /\ handler' = [handler EXCEPT ![h].pc = "cleanup", ![h].browser = b]
               /\ IF browser[b].cleaning = "no" THEN BeginCleanup(b, call)
                                                ELSE UNCHANGED <<scope, browser, call>>
    /\ UNCHANGED <<launch, session>>

(* loadSettings, whatever was saved or edited, and syncManagedBrowserSettings. *)
Apply(s) == scope' = [scope EXCEPT !.cfg = s, !.port = s.port]

(* startManagedBrowserSession, before the check of the generation. *)
StartClosed ==
    /\ Calm /\ handler["start"].pc = "closed"
    /\ scope' = [scope EXCEPT !.aborted = FALSE]
    /\ launch' = Superseded(launch)
    /\ handler' = [handler EXCEPT !["start"] =
                     IF @.stale THEN IdleHandler ELSE [@ EXCEPT !.pc = "load"]]
    /\ UNCHANGED <<browser, call, session>>

StartLoaded ==
    /\ Calm /\ handler["start"].pc = "load" /\ handler["save"].pc # "write"
    /\ handler' = [handler EXCEPT !["start"] = IdleHandler]
    /\ IF handler["start"].stale THEN UNCHANGED <<scope, session>>
       ELSE session' = "open" /\ \E s \in Settings : Apply(s)
    /\ UNCHANGED <<launch, browser, call>>

StopClosed ==
    /\ Calm /\ handler["stop"].pc = "closed" /\ handler["save"].pc # "write"
    /\ handler' = [handler EXCEPT !["stop"] = IdleHandler]
    /\ session' = "closed"
    /\ UNCHANGED <<scope, launch, browser, call>>

SaveClosed ==
    /\ Calm /\ handler["save"].pc = "closed"
    /\ handler' = [handler EXCEPT !["save"] =
                     IF @.stale THEN IdleHandler ELSE [@ EXCEPT !.pc = "load"]]
    /\ UNCHANGED <<scope, launch, browser, call, session>>

SaveLoaded ==
    /\ Calm /\ handler["save"].pc = "load"
    /\ handler' = [handler EXCEPT !["save"] = IdleHandler]
    /\ IF handler["save"].stale THEN UNCHANGED scope ELSE \E s \in Settings : Apply(s)
    /\ UNCHANGED <<launch, browser, call, session>>

HandlerStep ==
    \/ StartClosed \/ StartLoaded \/ StopClosed \/ SaveClosed \/ SaveLoaded
    \/ Write \/ WriteFails

Next ==
    \/ \E c \in Calls : Attach(c) \/ Fetch(c) \/ EndCall(c) \/ StartCall(c, TRUE) \/ StartCall(c, FALSE)
    \/ LaunchStep \/ HandlerStep
    \/ \E h \in Handlers : Close(h)
    \/ \E b \in Browsers : Publish(b) \/ Die(b) \/ Exit(b) \/ KillTimeout(b) \/ Removed(b)
    \/ StartSession \/ StopSession \/ BeginSave

(* Every await ends: those of the file system, and the others have timeouts. *)
Fairness ==
    /\ WF_vars(LaunchStep) /\ WF_vars(HandlerStep)
    /\ WF_vars(StartClosed) /\ WF_vars(StopClosed) /\ WF_vars(\E h \in Handlers : Close(h))
    /\ \A c \in Calls : WF_vars(Attach(c) \/ Fetch(c))
    /\ \A b \in Browsers : WF_vars(Exit(b) \/ KillTimeout(b)) /\ WF_vars(Removed(b))

Spec == Init /\ [][Next]_vars
FairSpec == Spec /\ Fairness

-----------------------------------------------------------------------------
(* A process that runs and was not told to go is the managed browser of the *)
(* scope: nothing that was spawned is ever out of reach of a shutdown, on   *)
(* whichever await the launch failed, was cancelled or lost its session.    *)
NoStrayBrowser ==
    \A b \in Browsers :
        browser[b].os = "alive" /\ browser[b].cleaning = "no" => scope.managed = b

(* When session_shutdown has ended, no launch is on its way, no browser is   *)
(* managed, and each that is left was told to go, though calls of the turn   *)
(* that was running may still look for a browser.                            *)
ShutdownReleasesAll ==
    session = "closed" =>
        /\ launch.pc = "none" /\ scope.managed = NoBrowser
        /\ \A b \in Browsers : browser[b] # Blank => browser[b].cleaning # "no"

(* No browser is left behind, by a launch or by a session that has ended.    *)
BrowsersAreReleased == NoStrayBrowser /\ ShutdownReleasesAll

(* The inductive invariant behind it.                                        *)
\* A process that was not told to go is the managed browser, and only such a one is.
OnlyTheManagedRuns ==
    /\ \A b \in Browsers : browser[b] # Blank /\ browser[b].cleaning = "no" => scope.managed = b
    /\ scope.managed # NoBrowser => browser[scope.managed].cleaning = "no"

\* A launch manages no browser before it has spawned one, and its own from then on.
LaunchManagesItsOwn ==
    /\ launch.pc \in {"old", "port", "resolve", "version", "profile", "failing"} =>
          scope.managed = NoBrowser
    /\ launch.pc \in {"spawn", "publish", "connect"} =>
          launch.browser \in Browsers /\ scope.managed = launch.browser

CloseAfterLaunch == ~Calm => launch.pc = "none"

\* Nothing is on its way that could launch a browser.
Down == launch.pc = "none" /\ scope.managed = NoBrowser /\ \A c \in Calls : call[c].pc = "idle"

\* Once a session stops, a launch that begins or goes on is cancelled, or there is none.
NoLaunchAfterStop ==
    /\ session = "starting" \/ handler["start"].pc # "idle" => Down
    /\ session \in {"stopping", "closed"} => scope.aborted \/ Down
    /\ session = "open" => handler["start"].pc = "idle"
    /\ handler["start"].pc # "idle" /\ ~handler["start"].stale => session = "starting"

\* What session_shutdown took is all there is, until it has told it to go.
StopTakesAll ==
    /\ session = "stopping" <=> handler["stop"].pc # "idle"
    /\ handler["stop"].pc \in {"launch", "close"} =>
          scope.managed \in {NoBrowser, handler["stop"].browser}
    /\ session = "closed" \/ handler["stop"].pc \notin {"idle", "launch", "close"} =>
          launch.pc = "none" /\ scope.managed = NoBrowser

IInv ==
    /\ TypeOK /\ OnlyTheManagedRuns /\ LaunchManagesItsOwn /\ CloseAfterLaunch
    /\ NoLaunchAfterStop /\ StopTakesAll

(* An operation of WebMCP on the managed browser ends in the very step in    *)
(* which that browser exits or stops being the one of the session.           *)
OperationsDieWithTheirBrowser ==
    [][\A c \in Calls : LET b == call[c].server IN
         (call[c].web /\ b \in Browsers /\ b = scope.managed /\ ~browser[b].exited
            /\ (scope'.managed # b \/ browser'[b].exited))
              => call'[c].pc = "idle"]_vars

(* Session shutdown ends: it waits for a launch that may wait for a cleanup, *)
(* and for a write of settings whose handler may wait for the same launch.   *)
ShutdownEnds == (session = "stopping") ~> (session = "closed")

(* Whoever waits for a shared launch gets an answer.                         *)
CallersAreAnswered == \A c \in Calls : (call[c].pc = "launch") ~> (call[c].pc # "launch")

(* Nobody who waits for a launch or a cleanup waits for ever.                *)
LaunchesEnd == ShutdownEnds /\ CallersAreAnswered
=============================================================================
