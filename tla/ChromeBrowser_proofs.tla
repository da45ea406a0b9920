------------------------- MODULE ChromeBrowser_proofs -------------------------
(***************************************************************************)
(* Proofs about ChromeBrowser, for any calls, browsers, settings, number   *)
(* of executables and foreign ports: IInv is inductive.  First what the    *)
(* helpers return, then what a step keeps that starts nothing, then every  *)
(* action, for the types and for the rest.                                 *)
(***************************************************************************)
EXTENDS ChromeBrowser, TLAPS

ScopeType == scope \in [aborted : BOOLEAN, cfg : Settings, port : Int,
                        managed : Browsers \cup {NoBrowser}]

Types ==
    /\ ScopeType
    /\ launch \in Launch /\ browser \in [Browsers -> Browser]
    /\ call \in [Calls -> Call] /\ handler \in [Handlers -> Handler]
    /\ session \in {"closed", "starting", "open", "stopping"}

LEMMA SameTypes == TypeOK <=> Types
  BY DEF TypeOK, Types, ScopeType

LEMMA SameTypesAgain == ASSUME Types' PROVE TypeOK'
  BY DEF TypeOK, Types, ScopeType

LEMMA Constants ==
  /\ NoBrowser \notin Browsers /\ Gone \notin Browsers /\ Foreign \notin Browsers
  /\ Browsers \subseteq Int /\ Initial \in Settings /\ Initial.port \in Int
  /\ \A s \in Settings : s.port \in Int
  BY ChromeAssumption DEF NoBrowser, Gone, Foreign, Setting, NoPort

LEMMA Constants2 ==
  /\ Blank \in Browser /\ Blank.cleaning = "no" /\ Blank.os = "none" /\ ~Blank.exited
  /\ NoLaunch \in Launch /\ NoLaunch.pc = "none"
  /\ IdleCall \in Call /\ IdleCall.pc = "idle"
  /\ IdleHandler \in Handler /\ IdleHandler.pc = "idle"
  <1>1. NoBrowser \in Held
    BY DEF Held
  <1>2. NoPort \in Int
    BY DEF NoPort
  <1> QED BY <1>1, <1>2 DEF Blank, Browser, NoLaunch, Launch, IdleCall, Call,
                            IdleHandler, Handler

(***************************************************************************)
(* What the helpers return.                                                *)
(***************************************************************************)
LEMMA CleanedType ==
  ASSUME Types, NEW b \in Browsers
  PROVE  /\ Cleaned(b) \in [Browsers -> Browser]
         /\ Cleaned(b)[b].cleaning # "no" /\ Cleaned(b)[b].exited = browser[b].exited
         /\ \A x \in Browsers \ {b} : Cleaned(b)[x] = browser[x]
  BY DEF Types, Cleaned, Browser

LEMMA InvalidatedType ==
  ASSUME NEW cs \in [Calls -> Call]
  PROVE  /\ Invalidated(cs) \in [Calls -> Call]
         /\ \A c \in Calls : Invalidated(cs)[c] \in {cs[c], IdleCall}
         /\ \A c \in Calls : cs[c].web => Invalidated(cs)[c] = IdleCall
  BY Constants2 DEF Invalidated

LEMMA AtType ==
  ASSUME Types, NEW c \in Calls, NEW pc \in {"idle", "attach", "launch", "fetch", "work"}
  PROVE  /\ At(c, pc) \in [Calls -> Call]
         /\ \A x \in Calls : x # c => At(c, pc)[x] = call[x]
         /\ At(c, pc)[c].web = call[c].web /\ At(c, pc)[c].pc = pc
         /\ At(c, pc)[c].server = call[c].server
  BY DEF Types, At, Call

LEMMA EndedType ==
  ASSUME Types, NEW c \in Calls
  PROVE  /\ Ended(c) \in [Calls -> Call]
         /\ \A x \in Calls : Ended(c)[x] \in {call[x], IdleCall}
         /\ \A x \in Calls : call[x].pc = "idle" => Ended(c)[x].pc = "idle"
  BY Constants2 DEF Types, Ended

LEMMA PortResetType ==
  ASSUME Types, NEW b \in Browsers
  PROVE  /\ PortReset(b) \in [aborted : BOOLEAN, cfg : Settings, port : Int,
                              managed : Browsers \cup {NoBrowser}]
         /\ PortReset(b).managed = scope.managed /\ PortReset(b).aborted = scope.aborted
         /\ PortReset(b).cfg = scope.cfg
  <1>1. scope.cfg.port \in Int
    BY Constants DEF Types, ScopeType
  <1> QED BY <1>1 DEF Types, ScopeType, PortReset

LEMMA SupersededType ==
  ASSUME Types
  PROVE  /\ Superseded(launch) \in Launch
         /\ Superseded(launch).pc = launch.pc /\ Superseded(launch).browser = launch.browser
  BY DEF Types, Superseded, Launch

LEMMA OutdatedType ==
  ASSUME Types
  PROVE  /\ Outdated(handler) \in [Handlers -> Handler]
         /\ \A h \in Handlers : /\ Outdated(handler)[h].pc = handler[h].pc
                                /\ Outdated(handler)[h].browser = handler[h].browser
                                /\ handler[h].pc # "idle" => Outdated(handler)[h].stale
                                /\ handler[h].pc = "idle" => Outdated(handler)[h] = handler[h]
  BY DEF Types, Outdated, Handler

LEMMA ClosingType ==
  ASSUME Types, NEW h \in Handlers, NEW hs \in [Handlers -> Handler]
  PROVE  /\ Closing(h, hs) \in [Handlers -> Handler]
         /\ \A x \in Handlers \ {h} : Closing(h, hs)[x] = hs[x]
         /\ Closing(h, hs)[h].pc = (IF launch.pc = "none" THEN "close" ELSE "launch")
         /\ ~Closing(h, hs)[h].stale /\ Closing(h, hs)[h].browser = scope.managed
  <1>1. scope.managed \in Held
    BY DEF Types, ScopeType, Held
  <1> QED BY <1>1 DEF Closing, Handler

LEMMA StepType ==
  ASSUME Types, NEW pc \in {"old", "port", "resolve", "version", "profile", "spawn", "publish",
                            "connect", "failing"}
  PROVE  /\ Step(pc) \in Launch /\ Step(pc).pc = pc /\ Step(pc).browser = launch.browser
         /\ Step(pc).stale = launch.stale
  BY DEF Types, Step, Launch

LEMMA FirstOfType ==
  ASSUME Types, NEW n \in Nat
  PROVE  /\ FirstOf(n) \in Launch /\ FirstOf(n).pc \in {"version", "profile"}
         /\ FirstOf(n).browser = NoBrowser
  BY DEF Types, FirstOf, Launch, Held

LEMMA FirstStepType == FirstStep \in {"port", "resolve"}
  BY DEF FirstStep

LEMMA SettleType ==
  ASSUME Types, NEW ok, NEW cs \in [Calls -> Call], Settle(ok, cs)
  PROVE  /\ launch' = NoLaunch
         /\ call' \in [Calls -> Call] /\ handler' \in [Handlers -> Handler]
         /\ \A c \in Calls : cs[c].pc = "idle" => call'[c].pc = "idle"
         /\ \A c \in Calls : /\ call'[c].pc = "idle" \/ call'[c].server = cs[c].server
                             /\ call'[c].pc = "idle" \/ call'[c].web = cs[c].web
         /\ \A h \in Handlers : 
              \/ handler'[h] = handler[h]
              \/ /\ handler[h].pc = "launch" /\ handler'[h].pc = "close"
                 /\ handler'[h].stale = handler[h].stale
                 /\ handler'[h].browser = handler[h].browser
  <1>1. call' \in [Calls -> Call]
    BY Constants2 DEF Settle, Call
  <1>2. handler' \in [Handlers -> Handler]
    BY DEF Settle, Types, Handler
  <1>3. \A c \in Calls : /\ cs[c].pc = "idle" => call'[c].pc = "idle"
                         /\ call'[c].pc = "idle" \/ call'[c].server = cs[c].server
                         /\ call'[c].pc = "idle" \/ call'[c].web = cs[c].web
    BY Constants2 DEF Settle, Call
  <1>4. \A h \in Handlers : 
              \/ handler'[h] = handler[h]
              \/ /\ handler[h].pc = "launch" /\ handler'[h].pc = "close"
                 /\ handler'[h].stale = handler[h].stale
                 /\ handler'[h].browser = handler[h].browser
    BY DEF Settle, Types, Handler
  <1> QED BY <1>1, <1>2, <1>3, <1>4 DEF Settle

LEMMA CleanupBegins ==
  ASSUME Types, NEW b \in Browsers, NEW cs \in [Calls -> Call], BeginCleanup(b, cs)
  PROVE  /\ browser' \in [Browsers -> Browser] /\ ScopeType' /\ call' \in [Calls -> Call]
         /\ browser' = Cleaned(b)
         /\ scope'.aborted = scope.aborted /\ scope'.cfg = scope.cfg
         /\ scope'.managed = (IF scope.managed = b THEN NoBrowser ELSE scope.managed)
         /\ \A c \in Calls : call'[c] \in {cs[c], IdleCall}
         /\ scope.managed = b => \A c \in Calls : cs[c].web => call'[c] = IdleCall
  <1>1. ScopeType' /\ scope'.aborted = scope.aborted /\ scope'.cfg = scope.cfg
        /\ scope'.managed = (IF scope.managed = b THEN NoBrowser ELSE scope.managed)
    BY DEF BeginCleanup, Types, ScopeType
  <1>2. browser' = Cleaned(b) /\ call' = IF scope.managed = b THEN Invalidated(cs) ELSE cs
    BY DEF BeginCleanup
  <1>3. browser' \in [Browsers -> Browser]
    BY <1>2, CleanedType
  <1> QED BY <1>1, <1>2, <1>3, InvalidatedType

(***************************************************************************)
(* Steps that start nothing.                                               *)
(***************************************************************************)
LEMMA InvariantAgain ==
  ASSUME Types', OnlyTheManagedRuns', LaunchManagesItsOwn', CloseAfterLaunch',
         NoLaunchAfterStop', StopTakesAll'
  PROVE  IInv'
  BY SameTypesAgain DEF IInv

LEMMA InvariantTypes == IInv => Types
  BY SameTypes DEF IInv

\* A handler goes on after the launch, or not at all.
Continues(h) ==
    \/ handler'[h] = handler[h]
    \/ /\ handler[h].pc = "launch" /\ handler'[h].pc = "close"
       /\ handler'[h].stale = handler[h].stale /\ handler'[h].browser = handler[h].browser

Quiet ==
    /\ session' = session /\ scope'.aborted = scope.aborted
    /\ scope'.managed \in {scope.managed, NoBrowser}
    /\ launch.pc = "none" => launch'.pc = "none"
    /\ \A c \in Calls : call[c].pc = "idle" => call'[c].pc = "idle"
    /\ \A h \in {"start", "stop"} : Continues(h)

\* A quiet step neither begins nor revives what an end of the session has ruled out.
LEMMA QuietKeeps ==
  ASSUME IInv, Types', Quiet
  PROVE  NoLaunchAfterStop' /\ StopTakesAll'
  <1>1. /\ session' = session /\ scope'.aborted = scope.aborted
        /\ scope'.managed \in {scope.managed, NoBrowser}
        /\ launch.pc = "none" => launch'.pc = "none"
        /\ \A c \in Calls : call[c].pc = "idle" => call'[c].pc = "idle"
    BY DEF Quiet
  <1>2. Continues("start") /\ Continues("stop")
    BY DEF Quiet
  <1>3. Down => Down'
    BY <1>1 DEF Down
  <1>4. \A h \in {"start", "stop"} :
          /\ handler'[h].pc = "idle" <=> handler[h].pc = "idle"
          /\ handler'[h].stale = handler[h].stale /\ handler'[h].browser = handler[h].browser
          /\ handler'[h].pc \in {"launch", "close"} <=> handler[h].pc \in {"launch", "close"}
    BY <1>2 DEF Continues
  <1>5. NoLaunchAfterStop'
    BY <1>1, <1>3, <1>4 DEF IInv, NoLaunchAfterStop
  <1>6. StopTakesAll'
    BY <1>1, <1>4 DEF IInv, StopTakesAll
  <1> QED BY <1>5, <1>6

\* No browser begins or ceases to be cleaned up, and none is spawned.
LEMMA BrowsersKeep ==
  ASSUME IInv, scope'.managed = scope.managed,
         \A b \in Browsers :
            /\ browser'[b].cleaning = "no" => browser'[b] = Blank \/ browser[b] # Blank
            /\ browser'[b].cleaning = "no" => browser'[b] = Blank \/ browser[b].cleaning = "no"
            /\ browser[b].cleaning = "no" => browser'[b].cleaning = "no"
  PROVE  OnlyTheManagedRuns'
  <1>1. scope.managed \in Browsers \cup {NoBrowser}
    BY InvariantTypes DEF Types, ScopeType
  <1> QED BY <1>1 DEF IInv, OnlyTheManagedRuns

LEMMA CleanupKeeps ==
  ASSUME IInv, NEW b \in Browsers, browser' = Cleaned(b),
         scope'.managed = (IF scope.managed = b THEN NoBrowser ELSE scope.managed)
  PROVE  OnlyTheManagedRuns'
  <1>1. scope.managed \in Browsers \cup {NoBrowser}
    BY InvariantTypes DEF Types, ScopeType
  <1>2. /\ Cleaned(b)[b].cleaning # "no"
        /\ \A x \in Browsers \ {b} : Cleaned(b)[x] = browser[x]
    BY InvariantTypes, CleanedType
  <1> QED BY <1>1, <1>2 DEF IInv, OnlyTheManagedRuns

(***************************************************************************)
(* Tool calls.                                                             *)
(***************************************************************************)
LEMMA CallInv ==
  ASSUME IInv, call' \in [Calls -> Call], UNCHANGED <<scope, launch, browser, handler, session>>,
         \A c \in Calls : call[c].pc = "idle" => call'[c].pc = "idle"
  PROVE  IInv'
  <1>1. Types'
    BY InvariantTypes DEF Types, ScopeType
  <1>2. Quiet
    BY DEF Quiet, Continues
  <1>3. OnlyTheManagedRuns' /\ LaunchManagesItsOwn' /\ CloseAfterLaunch'
    BY DEF IInv, OnlyTheManagedRuns, LaunchManagesItsOwn, CloseAfterLaunch, Calm
  <1> QED BY <1>1, <1>2, <1>3, QuietKeeps, InvariantAgain

LEMMA FetchInv == ASSUME IInv, NEW c \in Calls, Fetch(c) PROVE IInv'
  <1>1. Types
    BY InvariantTypes
  <1>2. call' \in [Calls -> Call]
    <2>1. \A s \in Answers(scope.port) : s \in Browsers \cup {NoBrowser, Foreign}
      BY DEF Answers
    <2>2. \A s \in Answers(scope.port) :
             [call EXCEPT ![c].pc = "work", ![c].server = s] \in [Calls -> Call]
      BY <1>1, <2>1 DEF Types, Call
    <2>3. Ended(c) \in [Calls -> Call]
      BY <1>1, EndedType
    <2> QED BY <2>2, <2>3 DEF Fetch
  <1>3. \A x \in Calls : call[x].pc = "idle" => call'[x].pc = "idle"
    <2>1. call[c].pc = "fetch"
      BY DEF Fetch
    <2> QED BY <1>1, <2>1, EndedType DEF Fetch, Types
  <1> QED BY <1>2, <1>3, CallInv DEF Fetch

LEMMA EndCallInv == ASSUME IInv, NEW c \in Calls, EndCall(c) PROVE IInv'
  <1>1. Types
    BY InvariantTypes
  <1>2. call' = Ended(c) /\ UNCHANGED <<scope, launch, browser, handler, session>>
    BY DEF EndCall
  <1> QED BY <1>1, <1>2, EndedType, CallInv

LEMMA StartCallInv ==
  ASSUME IInv, NEW c \in Calls, NEW web \in BOOLEAN, StartCall(c, web) PROVE IInv'
  <1>1. /\ session = "open" /\ UNCHANGED <<scope, launch, browser, handler, session>>
        /\ call' = [call EXCEPT ![c] = [pc |-> "attach", web |-> web, server |-> NoBrowser]]
    BY DEF StartCall
  <1>2. [pc |-> "attach", web |-> web, server |-> NoBrowser] \in Call
    BY DEF Call
  <1>3. Types'
    BY <1>1, <1>2, InvariantTypes DEF Types, ScopeType
  <1>4. OnlyTheManagedRuns' /\ LaunchManagesItsOwn' /\ CloseAfterLaunch'
    BY <1>1 DEF IInv, OnlyTheManagedRuns, LaunchManagesItsOwn, CloseAfterLaunch, Calm
  <1>5. NoLaunchAfterStop' /\ StopTakesAll'
    BY <1>1 DEF IInv, NoLaunchAfterStop, StopTakesAll
  <1> QED BY <1>3, <1>4, <1>5, InvariantAgain

\* A call that waits for no launch begins one.
LEMMA BeginLaunchInv ==
  ASSUME IInv, NEW c \in Calls, call[c].pc = "attach", Calm, launch.pc = "none",
         ~scope.aborted, BeginLaunch(c), UNCHANGED <<handler, session>>
  PROVE  IInv'
  <1>1. Types
    BY InvariantTypes
  <1>2. /\ At(c, "launch") \in [Calls -> Call]
        /\ \A x \in Calls : call[x].pc = "idle" => At(c, "launch")[x].pc = "idle"
    BY <1>1, AtType
  <1>3. ~Down
    BY DEF Down
  <1>4. CASE scope.managed = NoBrowser
    <2>1. /\ launch' = [NoLaunch EXCEPT !.pc = FirstStep]
          /\ call' = At(c, "launch") /\ UNCHANGED <<scope, browser>>
      BY <1>4 DEF BeginLaunch
    <2>2. launch' \in Launch /\ launch'.pc \in {"port", "resolve"}
      BY <2>1, FirstStepType DEF NoLaunch, Launch, Held
    <2>3. Types'
      BY <1>1, <1>2, <2>1, <2>2 DEF Types, ScopeType
    <2>4. OnlyTheManagedRuns' /\ LaunchManagesItsOwn' /\ CloseAfterLaunch'
      BY <1>4, <2>1, <2>2
      DEF IInv, OnlyTheManagedRuns, LaunchManagesItsOwn, CloseAfterLaunch, Calm
    <2>5. NoLaunchAfterStop' /\ StopTakesAll'
      BY <1>3, <2>1 DEF IInv, NoLaunchAfterStop, StopTakesAll
    <2> QED BY <2>3, <2>4, <2>5, InvariantAgain
  <1>5. CASE scope.managed # NoBrowser
    <2>1. /\ launch' = [NoLaunch EXCEPT !.pc = "old", !.browser = scope.managed]
          /\ BeginCleanup(scope.managed, At(c, "launch"))
      BY <1>5 DEF BeginLaunch
    <2>2. scope.managed \in Browsers
      BY <1>1, <1>5 DEF Types, ScopeType
    <2>3. launch' \in Launch /\ launch'.pc = "old"
      BY <2>1, <2>2 DEF NoLaunch, Launch, Held
    <2>4. /\ browser' \in [Browsers -> Browser] /\ ScopeType' /\ call' \in [Calls -> Call]
          /\ browser' = Cleaned(scope.managed) /\ scope'.aborted = scope.aborted
          /\ scope'.managed = NoBrowser
      BY <1>1, <1>2, <2>1, <2>2, CleanupBegins
    <2>5. Types'
      BY <1>1, <2>3, <2>4 DEF Types
    <2>6. OnlyTheManagedRuns'
      BY <2>2, <2>4, CleanupKeeps
    <2>7. LaunchManagesItsOwn' /\ CloseAfterLaunch'
      BY <2>3, <2>4 DEF IInv, LaunchManagesItsOwn, CloseAfterLaunch, Calm
    <2>8. NoLaunchAfterStop' /\ StopTakesAll'
      BY <1>3, <2>4 DEF IInv, NoLaunchAfterStop, StopTakesAll
    <2> QED BY <2>5, <2>6, <2>7, <2>8, InvariantAgain
  <1> QED BY <1>4, <1>5

LEMMA AttachInv == ASSUME IInv, NEW c \in Calls, Attach(c) PROVE IInv'
  <1>1. /\ Types /\ Calm /\ call[c].pc = "attach" /\ UNCHANGED <<handler, session>>
    BY InvariantTypes DEF Attach
  <1>2. CASE /\ call' \in {At(c, "fetch"), At(c, "launch"), Ended(c)}
             /\ UNCHANGED <<scope, launch, browser>>
    <2>1. /\ call' \in [Calls -> Call]
          /\ \A x \in Calls : call[x].pc = "idle" => call'[x].pc = "idle"
      <3>1. CASE call' = Ended(c)
        BY <1>1, <3>1, EndedType
      <3>2. CASE call' = At(c, "fetch")
        BY <1>1, <3>2, AtType
      <3>3. CASE call' = At(c, "launch")
        BY <1>1, <3>3, AtType
      <3> QED BY <1>2, <3>1, <3>2, <3>3
    <2> QED BY <1>1, <1>2, <2>1, CallInv
  <1>3. CASE launch.pc = "none" /\ ~scope.aborted /\ BeginLaunch(c)
    BY <1>1, <1>3, BeginLaunchInv
  <1> QED BY <1>2, <1>3 DEF Attach, EnsureLaunched

(***************************************************************************)
(* The launch.                                                             *)
(***************************************************************************)
\* Where the launch has no browser of its own, and where it has.
Without == {"old", "port", "resolve", "version", "profile", "failing"}
With == {"spawn", "publish", "connect"}

LEMMA UnsuccessfulInv ==
  ASSUME IInv, Calm, Unsuccessful, UNCHANGED session
  PROVE  IInv'
  <1>1. Types /\ call \in [Calls -> Call]
    BY InvariantTypes DEF Types
  <1>2. Settle(FALSE, call) /\ UNCHANGED <<scope, browser, session>>
    BY DEF Unsuccessful
  <1>3. /\ launch' = NoLaunch /\ launch'.pc = "none"
        /\ call' \in [Calls -> Call] /\ handler' \in [Handlers -> Handler]
        /\ \A c \in Calls : call[c].pc = "idle" => call'[c].pc = "idle"
        /\ \A h \in Handlers : Continues(h)
    BY <1>1, <1>2, SettleType, Constants2 DEF Continues
  <1>4. Types'
    BY <1>1, <1>2, <1>3, Constants2 DEF Types, ScopeType
  <1>5. Quiet
    BY <1>2, <1>3 DEF Quiet, Handlers
  <1>6. OnlyTheManagedRuns' /\ LaunchManagesItsOwn' /\ CloseAfterLaunch'
    BY <1>2, <1>3 DEF IInv, OnlyTheManagedRuns, LaunchManagesItsOwn, CloseAfterLaunch
  <1> QED BY <1>4, <1>5, <1>6, QuietKeeps, InvariantAgain

LEMMA LaunchMoves ==
  ASSUME IInv, Calm, launch.pc \in Without, launch' \in Launch, launch'.pc \in Without,
         UNCHANGED <<scope, browser, call, handler, session>>
  PROVE  IInv'
  <1>1. Types'
    BY InvariantTypes DEF Types, ScopeType
  <1>2. Quiet
    BY DEF Quiet, Continues, Without
  <1>3. OnlyTheManagedRuns' /\ LaunchManagesItsOwn' /\ CloseAfterLaunch'
    BY DEF IInv, OnlyTheManagedRuns, LaunchManagesItsOwn, CloseAfterLaunch, Calm, Without
  <1> QED BY <1>1, <1>2, <1>3, QuietKeeps, InvariantAgain

LEMMA TryNextInv ==
  ASSUME IInv, Calm, launch.pc \in Without, TryNext, UNCHANGED session
  PROVE  IInv'
  <1>1. CASE Unsuccessful
    BY <1>1, UnsuccessfulInv
  <1>2. CASE /\ launch.left > 1 /\ launch' = FirstOf(launch.left - 1)
             /\ UNCHANGED <<scope, browser, call, handler>>
    <2>1. launch.left - 1 \in Nat
      BY <1>2, InvariantTypes DEF Types, Launch
    <2>2. launch' \in Launch /\ launch'.pc \in Without
      BY <1>2, <2>1, InvariantTypes, FirstOfType DEF Without
    <2> QED BY <1>2, <2>2, LaunchMoves
  <1>3. launch.left \in Nat
    BY InvariantTypes DEF Types, Launch
  <1> QED BY <1>1, <1>2, <1>3 DEF TryNext

LEMMA EarlyStepsInv ==
  ASSUME IInv, OldClosed \/ CheckPort \/ Resolve \/ CheckVersion \/ CandidateFailed
  PROVE  IInv'
  <1>1. Types
    BY InvariantTypes
  <1>2. CASE Calm /\ UNCHANGED session /\ Unsuccessful
    BY <1>2, UnsuccessfulInv
  <1>3. CASE /\ Calm /\ launch.pc \in Without /\ UNCHANGED session /\ TryNext
    BY <1>3, TryNextInv
  <1>4. ASSUME Calm, launch.pc \in Without, UNCHANGED session,
               NEW pc \in {"port", "resolve", "profile"}, launch' = Step(pc),
               UNCHANGED <<scope, browser, call, handler>>
        PROVE  IInv'
    <2>1. launch' \in Launch /\ launch'.pc \in Without
      BY <1>1, <1>4, StepType DEF Without
    <2> QED BY <1>4, <2>1, LaunchMoves
  <1>5. CASE OldClosed
    <2>1. Calm /\ launch.pc \in Without /\ UNCHANGED session
      BY <1>5 DEF OldClosed, Without
    <2>2. CASE launch' = [Step(FirstStep) EXCEPT !.browser = NoBrowser]
               /\ UNCHANGED <<scope, browser, call, handler>>
      <3>1. Step(FirstStep) \in Launch /\ Step(FirstStep).pc \in {"port", "resolve"}
        BY <1>1, StepType, FirstStepType
      <3>2. launch' \in Launch /\ launch'.pc \in Without
        BY <2>2, <3>1 DEF Launch, Held, Without
      <3> QED BY <2>1, <2>2, <3>2, LaunchMoves
    <2> QED BY <1>2, <1>5, <2>1, <2>2 DEF OldClosed
  <1>6. CASE CheckPort
    <2>1. Calm /\ launch.pc \in Without /\ UNCHANGED session
      BY <1>6 DEF CheckPort, Without
    <2> QED BY <1>2, <1>4, <1>6, <2>1 DEF CheckPort
  <1>7. CASE Resolve
    <2>1. Calm /\ launch.pc \in Without /\ UNCHANGED session
      BY <1>7 DEF Resolve, Without
    <2>2. PICK n \in 0..(IF scope.cfg.ext THEN 1 ELSE Candidates) :
             IF Cancelled \/ n = 0 THEN Unsuccessful
             ELSE launch' = FirstOf(n) /\ UNCHANGED <<scope, browser, call, handler>>
      BY <1>7 DEF Resolve
    <2>3. CASE launch' = FirstOf(n) /\ UNCHANGED <<scope, browser, call, handler>>
      <3>1. n \in Nat
        BY ChromeAssumption
      <3>2. launch' \in Launch /\ launch'.pc \in Without
        BY <1>1, <2>3, <3>1, FirstOfType DEF Without
      <3> QED BY <2>1, <2>3, <3>2, LaunchMoves
    <2> QED BY <1>2, <2>1, <2>2, <2>3
  <1>8. CASE CheckVersion
    <2>1. Calm /\ launch.pc \in Without /\ UNCHANGED session
      BY <1>8 DEF CheckVersion, Without
    <2> QED BY <1>3, <1>4, <1>8, <2>1 DEF CheckVersion
  <1>9. CASE CandidateFailed
    <2>1. Calm /\ launch.pc \in Without /\ UNCHANGED session
      BY <1>9 DEF CandidateFailed, Without
    <2> QED BY <1>3, <1>9, <2>1 DEF CandidateFailed
  <1> QED BY <1>5, <1>6, <1>7, <1>8, <1>9

\* A spawn comes before any end of the session: after one it is cancelled.
LEMMA SpawnInv == ASSUME IInv, Spawn PROVE IInv'
  <1>1. Types /\ Calm /\ launch.pc = "profile" /\ UNCHANGED session
    BY InvariantTypes DEF Spawn
  <1>2. CASE TryNext
    BY <1>1, <1>2, TryNextInv DEF Without
  <1>3. ASSUME NEW b \in Browsers, NEW os \in {"alive", "failed"},
               ~Cancelled /\ browser[b] = Blank,
               browser' = [browser EXCEPT ![b] =
                             Spawned(os, IF scope.cfg.fixed THEN scope.port ELSE NoPort)],
               scope' = [scope EXCEPT !.managed = b],
               launch' = [Step("spawn") EXCEPT !.browser = b],
               UNCHANGED <<call, handler>>
        PROVE  IInv'
    <2>1. scope.managed = NoBrowser /\ ~scope.aborted /\ ~Down
      BY <1>1, <1>3 DEF IInv, LaunchManagesItsOwn, Cancelled, Down
    <2>2. /\ launch' \in Launch /\ launch'.pc = "spawn" /\ launch'.browser = b
      <3>1. Step("spawn") \in Launch /\ Step("spawn").pc = "spawn"
        BY <1>1, StepType
      <3> QED BY <1>3, <3>1 DEF Launch, Held
    <2>3. ScopeType' /\ scope'.managed = b /\ scope'.aborted = scope.aborted
      BY <1>1, <1>3 DEF Types, ScopeType
    <2>4. browser' \in [Browsers -> Browser] /\ browser'[b].cleaning = "no"
          /\ \A x \in Browsers \ {b} : browser'[x] = browser[x]
      <3> DEFINE new == Spawned(os, IF scope.cfg.fixed THEN scope.port ELSE NoPort)
      <3>1. (IF scope.cfg.fixed THEN scope.port ELSE NoPort) \in Int
        BY <1>1 DEF Types, ScopeType, NoPort
      <3>2. new \in Browser /\ new.cleaning = "no"
        BY <3>1, Constants2 DEF Spawned, Browser
      <3>3. browser' = [browser EXCEPT ![b] = new]
        BY <1>3
      <3> HIDE DEF new
      <3> QED BY <1>1, <3>2, <3>3 DEF Types
    <2>5. Types'
      BY <1>1, <1>3, <2>2, <2>3, <2>4 DEF Types
    <2>6. OnlyTheManagedRuns'
      BY <2>1, <2>3, <2>4, Constants DEF IInv, OnlyTheManagedRuns
    <2>7. LaunchManagesItsOwn' /\ CloseAfterLaunch'
      BY <1>1, <1>3, <2>2, <2>3 DEF LaunchManagesItsOwn, CloseAfterLaunch, Calm
    <2>8. NoLaunchAfterStop' /\ StopTakesAll'
      BY <1>1, <1>3, <2>1, <2>3 DEF IInv, NoLaunchAfterStop, StopTakesAll
    <2> QED BY <2>5, <2>6, <2>7, <2>8, InvariantAgain
  <1> QED BY <1>1, <1>2, <1>3 DEF Spawn

LEMMA AbandonInv ==
  ASSUME IInv, Calm, launch.pc \in With, Abandon, UNCHANGED session
  PROVE  IInv'
  <1>1. /\ Types /\ call \in [Calls -> Call] /\ launch.browser \in Browsers
        /\ scope.managed = launch.browser
    BY InvariantTypes DEF Types, IInv, LaunchManagesItsOwn, With
  <1>2. /\ launch' = Step("failing") /\ BeginCleanup(launch.browser, call)
        /\ UNCHANGED handler
    BY DEF Abandon
  <1>3. launch' \in Launch /\ launch'.pc = "failing"
    BY <1>1, <1>2, StepType
  <1>4. /\ browser' \in [Browsers -> Browser] /\ ScopeType' /\ call' \in [Calls -> Call]
        /\ browser' = Cleaned(launch.browser) /\ scope'.aborted = scope.aborted
        /\ scope'.managed = NoBrowser
        /\ \A c \in Calls : call'[c] \in {call[c], IdleCall}
    BY <1>1, <1>2, CleanupBegins
  <1>5. Types'
    BY <1>1, <1>2, <1>3, <1>4 DEF Types
  <1>6. Quiet
    BY <1>2, <1>4, Constants2 DEF Quiet, Continues, With
  <1>7. OnlyTheManagedRuns'
    BY <1>1, <1>4, CleanupKeeps
  <1>8. LaunchManagesItsOwn' /\ CloseAfterLaunch'
    BY <1>2, <1>3, <1>4 DEF LaunchManagesItsOwn, CloseAfterLaunch, Calm
  <1> QED BY <1>5, <1>6, <1>7, <1>8, QuietKeeps, InvariantAgain

\* The browser of the launch gets a port, or is ready.
LEMMA LaunchGoesOn ==
  ASSUME IInv, launch.pc \in With, NEW new \in Browser,
         new.cleaning = browser[launch.browser].cleaning,
         browser' = [browser EXCEPT ![launch.browser] = new] \/ browser' = browser,
         ScopeType', scope'.managed = scope.managed, scope'.aborted = scope.aborted,
         launch' \in Launch, launch'.pc \in With \cup {"none"},
         launch'.pc \in With => launch'.browser = launch.browser /\ UNCHANGED handler,
         handler' \in [Handlers -> Handler], \A h \in Handlers : Continues(h), Calm,
         call' \in [Calls -> Call], \A c \in Calls : call[c].pc = "idle" => call'[c].pc = "idle",
         UNCHANGED session
  PROVE  IInv'
  <1>1. /\ Types /\ launch.browser \in Browsers /\ scope.managed = launch.browser
    BY InvariantTypes DEF Types, IInv, LaunchManagesItsOwn, With
  <1>2. browser' \in [Browsers -> Browser]
        /\ \A x \in Browsers : /\ browser'[x].cleaning = browser[x].cleaning
                               /\ x # launch.browser => browser'[x] = browser[x]
    BY <1>1 DEF Types
  <1>3. Types'
    BY <1>1, <1>2 DEF Types
  <1>4. Quiet
    BY DEF Quiet, With, Handlers
  <1>5. OnlyTheManagedRuns'
    BY <1>1, <1>2 DEF IInv, OnlyTheManagedRuns
  <1>6. LaunchManagesItsOwn' /\ CloseAfterLaunch'
    BY <1>1 DEF IInv, LaunchManagesItsOwn, CloseAfterLaunch, Calm, With
  <1> QED BY <1>3, <1>4, <1>5, <1>6, QuietKeeps, InvariantAgain

LEMMA AwaitSpawnInv == ASSUME IInv, AwaitSpawn PROVE IInv'
  <1>1. /\ Types /\ Calm /\ launch.pc = "spawn" /\ UNCHANGED session
        /\ launch.browser \in Browsers
    BY InvariantTypes DEF AwaitSpawn, IInv, LaunchManagesItsOwn
  <1>2. CASE Abandon
    BY <1>1, <1>2, AbandonInv DEF With
  <1>3. CASE /\ launch' = Step(IF scope.cfg.fixed THEN "connect" ELSE "publish")
             /\ browser' = IF scope.cfg.fixed
                           THEN [browser EXCEPT ![launch.browser].port = scope.port] ELSE browser
             /\ UNCHANGED <<scope, call, handler>>
    <2>0. browser[launch.browser] \in Browser /\ scope.port \in Int
      BY <1>1 DEF Types, ScopeType
    <2> DEFINE new == [browser[launch.browser] EXCEPT !.port = scope.port]
    <2>1. new \in Browser /\ new.cleaning = browser[launch.browser].cleaning
      BY <2>0 DEF Browser
    <2>2. browser' = [browser EXCEPT ![launch.browser] = new] \/ browser' = browser
      BY <1>1, <1>3 DEF Types
    <2>3. /\ launch' \in Launch /\ launch'.pc \in With /\ launch'.browser = launch.browser
      BY <1>1, <1>3, StepType DEF With
    <2>4. ScopeType' /\ call' \in [Calls -> Call] /\ handler' \in [Handlers -> Handler]
      BY <1>1, <1>3 DEF Types, ScopeType
    <2> HIDE DEF new
    <2> QED BY <1>1, <1>3, <2>1, <2>2, <2>3, <2>4, LaunchGoesOn DEF Continues, With
  <1> QED BY <1>2, <1>3 DEF AwaitSpawn

LEMMA ReadPortInv == ASSUME IInv, ReadPort PROVE IInv'
  <1>1. /\ Types /\ Calm /\ launch.pc = "publish" /\ UNCHANGED session
        /\ launch.browser \in Browsers
    BY InvariantTypes DEF ReadPort, IInv, LaunchManagesItsOwn
  <1>2. CASE Abandon
    BY <1>1, <1>2, AbandonInv DEF With
  <1>3. CASE /\ browser' = [browser EXCEPT ![launch.browser].port = Listens(launch.browser)]
             /\ scope' = [scope EXCEPT !.port = Listens(launch.browser)]
             /\ launch' = Step("connect") /\ UNCHANGED <<call, handler>>
    <2>0. browser[launch.browser] \in Browser /\ scope.port \in Int
      BY <1>1 DEF Types, ScopeType
    <2> DEFINE new == [browser[launch.browser] EXCEPT !.port = Listens(launch.browser)]
    <2>1. Listens(launch.browser) \in Int
      <3>1. launch.browser \in Int /\ browser[launch.browser].arg \in Int
        BY <1>1, <2>0, Constants DEF Browser
      <3> QED BY <3>1 DEF Listens, DynamicPort
    <2>2. new \in Browser /\ new.cleaning = browser[launch.browser].cleaning
      BY <2>0, <2>1 DEF Browser
    <2>3. browser' = [browser EXCEPT ![launch.browser] = new]
      BY <1>1, <1>3 DEF Types
    <2>4. ScopeType' /\ scope'.managed = scope.managed /\ scope'.aborted = scope.aborted
      BY <1>1, <1>3, <2>1 DEF Types, ScopeType
    <2>5. /\ launch' \in Launch /\ launch'.pc \in With /\ launch'.browser = launch.browser
      BY <1>1, <1>3, StepType DEF With
    <2>6. call' \in [Calls -> Call] /\ handler' \in [Handlers -> Handler]
      BY <1>1, <1>3 DEF Types
    <2> HIDE DEF new
    <2> QED BY <1>1, <1>3, <2>2, <2>3, <2>4, <2>5, <2>6, LaunchGoesOn DEF Continues, With
  <1> QED BY <1>2, <1>3 DEF ReadPort

LEMMA ConnectInv == ASSUME IInv, Connect PROVE IInv'
  <1>1. /\ Types /\ Calm /\ launch.pc = "connect" /\ UNCHANGED session
        /\ launch.browser \in Browsers /\ call \in [Calls -> Call]
    BY InvariantTypes DEF Connect, IInv, LaunchManagesItsOwn, Types
  <1>2. CASE Abandon
    BY <1>1, <1>2, AbandonInv DEF With
  <1>3. CASE /\ browser' = [browser EXCEPT ![launch.browser].ready = TRUE]
             /\ Settle(TRUE, call) /\ UNCHANGED scope
    <2>0. browser[launch.browser] \in Browser /\ scope.port \in Int
      BY <1>1 DEF Types, ScopeType
    <2> DEFINE new == [browser[launch.browser] EXCEPT !.ready = TRUE]
    <2>1. new \in Browser /\ new.cleaning = browser[launch.browser].cleaning
      BY <2>0 DEF Browser
    <2>2. browser' = [browser EXCEPT ![launch.browser] = new]
      BY <1>1, <1>3 DEF Types
    <2>3. ScopeType' /\ scope'.managed = scope.managed /\ scope'.aborted = scope.aborted
      BY <1>1, <1>3 DEF Types, ScopeType
    <2>4. /\ launch' \in Launch /\ launch'.pc = "none"
          /\ call' \in [Calls -> Call] /\ handler' \in [Handlers -> Handler]
          /\ \A c \in Calls : call[c].pc = "idle" => call'[c].pc = "idle"
          /\ \A h \in Handlers : Continues(h)
      BY <1>1, <1>3, SettleType, Constants2 DEF Continues
    <2>5. launch.pc \in With /\ launch'.pc \in With \cup {"none"} /\ launch'.pc \notin With
      BY <1>1, <2>4 DEF With
    <2> HIDE DEF new
    <2> QED BY <1>1, <2>1, <2>2, <2>3, <2>4, <2>5, LaunchGoesOn
  <1> QED BY <1>2, <1>3 DEF Connect

(***************************************************************************)
(* The browsers and their cleanup.                                         *)
(***************************************************************************)
LEMMA BrowserSteps ==
  ASSUME IInv, NEW b \in Browsers, NEW new \in Browser, browser[b] # Blank,
         browser' = [browser EXCEPT ![b] = new],
         new.cleaning = "no" <=> browser[b].cleaning = "no",
         ScopeType', scope'.managed = scope.managed, scope'.aborted = scope.aborted,
         call' \in [Calls -> Call], \A c \in Calls : call[c].pc = "idle" => call'[c].pc = "idle",
         UNCHANGED <<launch, handler, session>>
  PROVE  IInv'
  <1>1. Types
    BY InvariantTypes
  <1>2. /\ browser' \in [Browsers -> Browser] /\ browser'[b] = new
        /\ \A x \in Browsers \ {b} : browser'[x] = browser[x]
    BY <1>1 DEF Types
  <1>3. Types'
    BY <1>1, <1>2 DEF Types
  <1>4. Quiet
    BY DEF Quiet, Continues
  <1>5. OnlyTheManagedRuns'
    BY <1>2, BrowsersKeep
  <1>6. LaunchManagesItsOwn' /\ CloseAfterLaunch'
    BY DEF IInv, LaunchManagesItsOwn, CloseAfterLaunch, Calm
  <1> QED BY <1>3, <1>4, <1>5, <1>6, QuietKeeps, InvariantAgain

LEMMA PublishInv ==
  ASSUME IInv, NEW b \in Browsers, Publish(b) \/ Die(b) PROVE IInv'
  <1>1. /\ Types /\ browser[b] \in Browser /\ browser[b].os = "alive" /\ browser[b] # Blank
        /\ UNCHANGED <<scope, launch, call, handler, session>>
    BY InvariantTypes, Constants2 DEF Types, Publish, Die
  <1>2. ScopeType' /\ call' \in [Calls -> Call]
    BY <1>1 DEF Types, ScopeType
  <1>3. CASE Publish(b)
    <2> DEFINE new == [browser[b] EXCEPT !.up = TRUE]
    <2>1. new \in Browser /\ new.cleaning = browser[b].cleaning
      BY <1>1 DEF Browser
    <2>2. browser' = [browser EXCEPT ![b] = new]
      BY <1>1, <1>3 DEF Publish, Types
    <2> HIDE DEF new
    <2> QED BY <1>1, <1>2, <2>1, <2>2, BrowserSteps
  <1>4. CASE Die(b)
    <2> DEFINE new == [browser[b] EXCEPT !.os = "dead"]
    <2>1. new \in Browser /\ new.cleaning = browser[b].cleaning
      BY <1>1 DEF Browser
    <2>2. browser' = [browser EXCEPT ![b] = new]
      BY <1>1, <1>4 DEF Die, Types
    <2> HIDE DEF new
    <2> QED BY <1>1, <1>2, <2>1, <2>2, BrowserSteps
  <1> QED BY <1>3, <1>4

LEMMA ExitInv == ASSUME IInv, NEW b \in Browsers, Exit(b) PROVE IInv'
  <1>1. /\ Types /\ browser[b] \in Browser /\ browser[b].os = "dead" /\ browser[b] # Blank
        /\ UNCHANGED <<launch, handler, session>>
        /\ call \in [Calls -> Call]
    BY InvariantTypes, Constants2 DEF Types, Exit
  <1>2. ScopeType' /\ scope'.managed = scope.managed /\ scope'.aborted = scope.aborted
    BY <1>1, PortResetType DEF Exit, ScopeType
  <1>3. call' \in [Calls -> Call] /\ \A c \in Calls : call[c].pc = "idle" => call'[c].pc = "idle"
    BY <1>1, InvalidatedType, Constants2 DEF Exit
  <1> DEFINE new == [browser[b] EXCEPT !.exited = TRUE, !.ready = FALSE,
                                       !.cleaning = IF @ = "no" THEN "no" ELSE "rm"]
  <1>4. new \in Browser /\ (new.cleaning = "no" <=> browser[b].cleaning = "no")
    BY <1>1 DEF Browser
  <1>5. browser' = [browser EXCEPT ![b] = new]
    BY <1>1 DEF Exit, Types
  <1> HIDE DEF new
  <1> QED BY <1>1, <1>2, <1>3, <1>4, <1>5, BrowserSteps

LEMMA KillTimeoutInv == ASSUME IInv, NEW b \in Browsers, KillTimeout(b) PROVE IInv'
  <1>1. /\ Types /\ browser[b] \in Browser /\ browser[b].cleaning \in {"term", "kill"}
        /\ browser[b] # Blank /\ UNCHANGED <<scope, launch, call, handler, session>>
    BY InvariantTypes, Constants2 DEF Types, KillTimeout
  <1>2. ScopeType' /\ call' \in [Calls -> Call]
    BY <1>1 DEF Types, ScopeType
  <1> DEFINE removing == [browser[b] EXCEPT !.cleaning = "rm"]
             killed == [browser[b] EXCEPT !.cleaning = "kill",
                                          !.os = IF @ = "alive" THEN "dead" ELSE @]
  <1>3. /\ removing \in Browser /\ removing.cleaning = "rm"
        /\ killed \in Browser /\ killed.cleaning = "kill"
    BY <1>1 DEF Browser
  <1>4. \/ browser' = [browser EXCEPT ![b] = removing]
        \/ browser' = [browser EXCEPT ![b] = killed]
    BY <1>1 DEF KillTimeout, Types
  <1> HIDE DEF removing, killed
  <1>5. CASE browser' = [browser EXCEPT ![b] = removing]
    BY <1>1, <1>2, <1>3, <1>5, BrowserSteps
  <1>6. CASE browser' = [browser EXCEPT ![b] = killed]
    BY <1>1, <1>2, <1>3, <1>6, BrowserSteps
  <1> QED BY <1>4, <1>5, <1>6

LEMMA RemovedInv == ASSUME IInv, NEW b \in Browsers, Removed(b) PROVE IInv'
  <1>1. /\ Types /\ Calm /\ browser[b].cleaning = "rm" /\ session' = session
        /\ browser' = [browser EXCEPT ![b] = Blank] /\ scope' = PortReset(b)
    BY InvariantTypes DEF Removed
  <1>2. /\ ScopeType' /\ scope'.managed = scope.managed /\ scope'.aborted = scope.aborted
        /\ scope.managed \in Browsers \cup {NoBrowser}
    BY <1>1, PortResetType DEF Types, ScopeType
  <1>3. scope.managed # b
    BY <1>1, Constants DEF IInv, OnlyTheManagedRuns
  <1>4. browser' \in [Browsers -> Browser] /\ browser'[b] = Blank
        /\ \A x \in Browsers \ {b} : browser'[x] = browser[x]
    BY <1>1, Constants2 DEF Types
  <1>5. /\ launch' \in Launch /\ launch'.pc = launch.pc
        /\ launch.browser # b => launch' = launch
    BY <1>1 DEF Removed, Types, Launch, Held
  <1>6. /\ handler' \in [Handlers -> Handler]
        /\ \A h \in Handlers :
             /\ handler'[h].stale = handler[h].stale
             /\ handler'[h].browser = (IF handler[h].browser = b THEN Gone
                                                                 ELSE handler[h].browser)
             /\ \/ handler'[h].pc = handler[h].pc
                \/ handler[h].pc = "cleanup" /\ handler'[h].pc = "closed"
    <2> DEFINE gone(h) == [handler[h] EXCEPT !.browser = Gone,
                                             !.pc = IF @ = "cleanup" THEN "closed" ELSE @]
    <2>1. ASSUME NEW h \in Handlers
          PROVE  /\ handler[h] \in Handler /\ gone(h) \in Handler
                 /\ gone(h).stale = handler[h].stale /\ gone(h).browser = Gone
                 /\ \/ gone(h).pc = handler[h].pc
                    \/ handler[h].pc = "cleanup" /\ gone(h).pc = "closed"
      BY <1>1 DEF Types, Handler, Held
    <2>2. handler' = [h \in Handlers |->
                        IF handler[h].browser # b THEN handler[h] ELSE gone(h)]
      BY DEF Removed
    <2> HIDE DEF gone
    <2> QED BY <2>1, <2>2
  <1>7. call' \in [Calls -> Call] /\ \A c \in Calls : call[c].pc = "idle" => call'[c].pc = "idle"
    BY <1>1, Constants2 DEF Removed, Types
  <1>8. Types'
    BY <1>1, <1>2, <1>4, <1>5, <1>6, <1>7 DEF Types
  <1>9. OnlyTheManagedRuns'
    BY <1>1, <1>2, <1>3, <1>4, Constants2 DEF IInv, OnlyTheManagedRuns
  <1>10. LaunchManagesItsOwn'
    BY <1>2, <1>3, <1>5 DEF IInv, LaunchManagesItsOwn
  <1>11. CloseAfterLaunch'
    BY <1>1, <1>6 DEF CloseAfterLaunch, Calm
  <1>12. NoLaunchAfterStop'
    <2>1. Down => Down'
      BY <1>2, <1>5, <1>7 DEF Down
    <2>2. /\ handler'["start"].pc = "idle" <=> handler["start"].pc = "idle"
          /\ handler'["start"].stale = handler["start"].stale
      BY <1>6 DEF Handlers
    <2> QED BY <1>1, <1>2, <2>1, <2>2 DEF IInv, NoLaunchAfterStop
  <1>13. StopTakesAll'
    <2>1. /\ handler'["stop"].pc = "idle" <=> handler["stop"].pc = "idle"
          /\ handler'["stop"].pc \in {"launch", "close"} =>
                handler["stop"].pc \in {"launch", "close"}
          /\ handler'["stop"].pc \notin {"idle", "launch", "close"} =>
                handler["stop"].pc \notin {"idle", "launch", "close"}
          /\ handler["stop"].browser # b => handler'["stop"].browser = handler["stop"].browser
      BY <1>6 DEF Handlers
    <2> QED BY <1>1, <1>2, <1>3, <1>5, <2>1 DEF IInv, StopTakesAll
  <1> QED BY <1>8, <1>9, <1>10, <1>11, <1>12, <1>13, InvariantAgain

(***************************************************************************)
(* The handlers that shut the browser down.                                *)
(***************************************************************************)
LEMMA ReplaceType ==
  ASSUME Types, NEW h \in {"start", "stop"}, Replace(h)
  PROVE  /\ ScopeType' /\ scope'.managed = scope.managed /\ scope'.aborted
         /\ launch' \in Launch /\ launch'.pc = launch.pc /\ launch'.browser = launch.browser
         /\ call' \in [Calls -> Call]
         /\ \A c \in Calls : call[c].pc = "idle" => call'[c].pc = "idle"
         /\ handler' \in [Handlers -> Handler]
         /\ handler'[h].pc = (IF launch.pc = "none" THEN "close" ELSE "launch")
         /\ ~handler'[h].stale /\ handler'[h].browser = scope.managed
         /\ \A x \in Handlers \ {h} : /\ handler'[x].pc = handler[x].pc
                                      /\ handler[x].pc # "idle" => handler'[x].stale
  <1>1. ScopeType' /\ scope'.managed = scope.managed /\ scope'.aborted
    BY DEF Replace, Types, ScopeType
  <1>2. launch' \in Launch /\ launch'.pc = launch.pc /\ launch'.browser = launch.browser
    BY SupersededType DEF Replace
  <1>3. call' \in [Calls -> Call]
        /\ \A c \in Calls : call[c].pc = "idle" => call'[c].pc = "idle"
    BY InvalidatedType, Constants2 DEF Replace, Types
  <1>4. handler' = Closing(h, Outdated(handler)) /\ h \in Handlers
    BY DEF Replace, Handlers
  <1>5. /\ Outdated(handler) \in [Handlers -> Handler]
        /\ \A x \in Handlers : /\ Outdated(handler)[x].pc = handler[x].pc
                               /\ handler[x].pc # "idle" => Outdated(handler)[x].stale
    BY OutdatedType
  <1>6. /\ handler' \in [Handlers -> Handler]
        /\ \A x \in Handlers \ {h} : handler'[x] = Outdated(handler)[x]
        /\ handler'[h].pc = (IF launch.pc = "none" THEN "close" ELSE "launch")
        /\ ~handler'[h].stale /\ handler'[h].browser = scope.managed
    BY <1>4, <1>5, ClosingType
  <1> QED BY <1>1, <1>2, <1>3, <1>5, <1>6

LEMMA ReplaceInv ==
  ASSUME IInv, NEW h \in {"start", "stop"}, Replace(h), UNCHANGED browser, Calm,
         session' \in {"starting", "stopping"}
  PROVE  Types' /\ OnlyTheManagedRuns' /\ LaunchManagesItsOwn' /\ CloseAfterLaunch'
  <1>1. Types
    BY InvariantTypes
  <1>2. Types'
    BY <1>1, ReplaceType DEF Types
  <1>3. OnlyTheManagedRuns' /\ LaunchManagesItsOwn'
    BY <1>1, ReplaceType DEF IInv, OnlyTheManagedRuns, LaunchManagesItsOwn
  <1>4. CloseAfterLaunch'
    BY <1>1, ReplaceType DEF CloseAfterLaunch, Calm
  <1> QED BY <1>2, <1>3, <1>4

\* A session starts when nothing could launch a browser.
LEMMA StartSessionInv == ASSUME IInv, StartSession PROVE IInv'
  <1>1. /\ Types /\ Calm /\ session = "closed" /\ session' = "starting"
        /\ handler["start"].pc = "idle" /\ handler["stop"].pc = "idle"
        /\ \A c \in Calls : call[c].pc = "idle"
        /\ Replace("start") /\ UNCHANGED browser
    BY InvariantTypes DEF StartSession
  <1>2. launch.pc = "none" /\ scope.managed = NoBrowser
    BY <1>1 DEF IInv, StopTakesAll
  <1>3. /\ Down' /\ ~handler'["start"].stale /\ handler'["start"].pc = "close"
        /\ handler'["stop"].pc = "idle"
    BY <1>1, <1>2, ReplaceType DEF Down, Handlers
  <1>4. NoLaunchAfterStop' /\ StopTakesAll'
    BY <1>1, <1>2, <1>3 DEF NoLaunchAfterStop, StopTakesAll
  <1> QED BY <1>1, <1>4, ReplaceInv, InvariantAgain

\* A session ends: what is under way is aborted, and the browser is taken.
LEMMA StopSessionInv == ASSUME IInv, StopSession PROVE IInv'
  <1>1. /\ Types /\ Calm /\ session \in {"starting", "open"} /\ session' = "stopping"
        /\ Replace("stop") /\ UNCHANGED browser
    BY InvariantTypes DEF StopSession
  <1>2. /\ scope'.managed = scope.managed /\ scope'.aborted /\ launch'.pc = launch.pc
        /\ \A c \in Calls : call[c].pc = "idle" => call'[c].pc = "idle"
        /\ handler'["stop"].pc \in {"launch", "close"}
        /\ handler'["stop"].browser = scope.managed
        /\ handler'["start"].pc = handler["start"].pc
        /\ handler["start"].pc # "idle" => handler'["start"].stale
    BY <1>1, ReplaceType DEF Handlers
  <1>3. Down => Down'
    BY <1>2 DEF Down
  <1>4. NoLaunchAfterStop'
    BY <1>1, <1>2, <1>3 DEF IInv, NoLaunchAfterStop
  <1>5. StopTakesAll'
    BY <1>1, <1>2 DEF IInv, StopTakesAll
  <1> QED BY <1>1, <1>4, <1>5, ReplaceInv, InvariantAgain

\* The saving of settings goes on; only its own handler moves.
LEMMA SavingInv ==
  ASSUME IInv, NEW new \in Handler, handler' = [handler EXCEPT !["save"] = new],
         new.pc = "close" => launch.pc = "none" \/ handler["save"].pc = "close",
         ScopeType', scope'.managed = scope.managed, scope'.aborted = scope.aborted,
         call' \in [Calls -> Call], \A c \in Calls : call[c].pc = "idle" => call'[c].pc = "idle",
         UNCHANGED <<launch, browser, session>>, Calm
  PROVE  IInv'
  <1>1. Types
    BY InvariantTypes
  <1>2. /\ handler' \in [Handlers -> Handler] /\ handler'["save"] = new
        /\ handler'["start"] = handler["start"] /\ handler'["stop"] = handler["stop"]
        /\ \A h \in Handlers : h # "save" => handler'[h] = handler[h]
    BY <1>1 DEF Types, Handlers
  <1>3. Types'
    BY <1>1, <1>2 DEF Types
  <1>4. Quiet
    BY <1>2 DEF Quiet, Continues
  <1>5. OnlyTheManagedRuns' /\ LaunchManagesItsOwn'
    BY DEF IInv, OnlyTheManagedRuns, LaunchManagesItsOwn
  <1>6. CloseAfterLaunch'
    BY <1>2 DEF IInv, CloseAfterLaunch, Calm
  <1> QED BY <1>3, <1>4, <1>5, <1>6, QuietKeeps, InvariantAgain

LEMMA SaveInv ==
  ASSUME IInv, BeginSave \/ WriteFails \/ Write \/ SaveClosed \/ SaveLoaded
  PROVE  IInv'
  <1>1. /\ Types /\ Calm /\ "save" \in Handlers /\ handler["save"] \in Handler
        /\ UNCHANGED <<launch, browser, session>> /\ call \in [Calls -> Call]
        /\ handler \in [Handlers -> Handler]
    BY InvariantTypes
    DEF Types, Handlers, BeginSave, WriteFails, Write, SaveClosed, SaveLoaded
  <1>2. ASSUME UNCHANGED <<scope, call>>, NEW new \in Handler, new.pc # "close",
               handler' = [handler EXCEPT !["save"] = new]
        PROVE  IInv'
    <2>1. ScopeType' /\ call' \in [Calls -> Call]
      BY <1>1, <1>2 DEF Types, ScopeType
    <2> QED BY <1>1, <1>2, <2>1, SavingInv
  <1>3. CASE BeginSave
    <2> DEFINE new == [handler["save"] EXCEPT !.pc = "write"]
    <2>1. new \in Handler /\ new.pc # "close"
      BY <1>1 DEF Handler
    <2>2. UNCHANGED <<scope, call>> /\ handler' = [handler EXCEPT !["save"] = new]
      BY <1>1, <1>3 DEF BeginSave
    <2> HIDE DEF new
    <2> QED BY <1>2, <2>1, <2>2
  <1>4. CASE WriteFails
    BY <1>2, <1>4, Constants2 DEF WriteFails
  <1>5. CASE Write
    <2>1. CASE handler["save"].stale
      BY <1>2, <1>5, <2>1, Constants2 DEF Write
    <2>2. CASE ~handler["save"].stale
      <3>1. /\ handler' = Closing("save", handler) /\ call' = Invalidated(call)
            /\ scope' = scope
        BY <1>5, <2>2 DEF Write
      <3> DEFINE new == Closing("save", handler)["save"]
      <3>2. new \in Handler /\ (new.pc = "close" => launch.pc = "none")
        BY <1>1, ClosingType
      <3>3. handler' = [handler EXCEPT !["save"] = new]
        BY <1>1, <3>1 DEF Closing
      <3>4. call' \in [Calls -> Call]
            /\ \A c \in Calls : call[c].pc = "idle" => call'[c].pc = "idle"
        BY <1>1, <3>1, InvalidatedType, Constants2
      <3>5. ScopeType'
        BY <1>1, <3>1 DEF Types, ScopeType
      <3> HIDE DEF new
      <3> QED BY <1>1, <3>1, <3>2, <3>3, <3>4, <3>5, SavingInv
    <2> QED BY <2>1, <2>2
  <1>6. CASE SaveClosed
    <2> DEFINE new == IF handler["save"].stale THEN IdleHandler
                      ELSE [handler["save"] EXCEPT !.pc = "load"]
    <2>1. new \in Handler /\ new.pc # "close"
      BY <1>1, Constants2 DEF Handler
    <2>2. UNCHANGED <<scope, call>> /\ handler' = [handler EXCEPT !["save"] = new]
      BY <1>1, <1>6 DEF SaveClosed
    <2> HIDE DEF new
    <2> QED BY <1>2, <2>1, <2>2
  <1>7. CASE SaveLoaded
    <2>1. handler' = [handler EXCEPT !["save"] = IdleHandler] /\ call' = call
      BY <1>7 DEF SaveLoaded
    <2>2. ScopeType' /\ scope'.managed = scope.managed /\ scope'.aborted = scope.aborted
      <3>1. CASE scope' = scope
        BY <1>1, <3>1 DEF Types, ScopeType
      <3>2. CASE \E s \in Settings : Apply(s)
        BY <1>1, <3>2, Constants DEF Types, ScopeType, Apply
      <3> QED BY <1>7, <3>1, <3>2 DEF SaveLoaded
    <2> QED BY <1>1, <2>1, <2>2, SavingInv, Constants2
  <1> QED BY <1>3, <1>4, <1>5, <1>6, <1>7

\* What a handler closes after the launch; that of session_shutdown leaves none.
LEMMA CloseInv == ASSUME IInv, NEW h \in Handlers, Close(h) PROVE IInv'
  <1> DEFINE b == IF handler[h].browser = NoBrowser THEN scope.managed ELSE handler[h].browser
  <1>1. /\ Types /\ handler[h].pc = "close" /\ UNCHANGED <<launch, session>>
        /\ handler[h] \in Handler /\ scope.managed \in Browsers \cup {NoBrowser}
        /\ call \in [Calls -> Call] /\ launch.pc = "none"
    BY InvariantTypes DEF Types, ScopeType, Close, IInv, CloseAfterLaunch, Calm
  <1>2. b \in Held
    BY <1>1 DEF Handler, Held
  <1>3. \/ /\ b \in {NoBrowser, Gone} /\ handler' = [handler EXCEPT ![h].pc = "closed"]
           /\ UNCHANGED <<scope, browser, call>>
        \/ /\ b \notin {NoBrowser, Gone}
           /\ handler' = [handler EXCEPT ![h].pc = "cleanup", ![h].browser = b]
           /\ IF browser[b].cleaning = "no" THEN BeginCleanup(b, call)
                                            ELSE UNCHANGED <<scope, browser, call>>
    BY DEF Close
  <1>4. b = NoBrowser => scope.managed = NoBrowser
    BY Constants
  <1>5. h = "stop" => scope.managed \in {NoBrowser, b}
    BY <1>1 DEF IInv, StopTakesAll
  <1> HIDE DEF b
  <1>6. /\ handler' \in [Handlers -> Handler]
        /\ handler'[h].pc \in {"closed", "cleanup"} /\ handler'[h].stale = handler[h].stale
        /\ \A x \in Handlers : x # h => handler'[x] = handler[x]
    BY <1>1, <1>2, <1>3 DEF Types, Handler
  <1>7. /\ ScopeType' /\ browser' \in [Browsers -> Browser] /\ call' \in [Calls -> Call]
        /\ OnlyTheManagedRuns'
        /\ scope'.managed \in {scope.managed, NoBrowser} /\ scope'.aborted = scope.aborted
        /\ \A c \in Calls : call[c].pc = "idle" => call'[c].pc = "idle"
        /\ h = "stop" => scope'.managed = NoBrowser
    <2>1. CASE b \in {NoBrowser, Gone}
      <3>1. UNCHANGED <<scope, browser, call>>
        BY <1>3, <2>1
      <3> QED BY <1>1, <1>4, <1>5, <2>1, <3>1, Constants
              DEF Types, ScopeType, IInv, OnlyTheManagedRuns
    <2>2. CASE b \notin {NoBrowser, Gone} /\ browser[b].cleaning = "no"
      <3>1. b \in Browsers /\ BeginCleanup(b, call)
        BY <1>2, <1>3, <2>2 DEF Held
      <3>2. /\ browser' \in [Browsers -> Browser] /\ ScopeType' /\ call' \in [Calls -> Call]
            /\ browser' = Cleaned(b) /\ scope'.aborted = scope.aborted
            /\ scope'.managed = (IF scope.managed = b THEN NoBrowser ELSE scope.managed)
            /\ \A c \in Calls : call'[c] \in {call[c], IdleCall}
        BY <1>1, <3>1, CleanupBegins
      <3>3. OnlyTheManagedRuns'
        BY <3>1, <3>2, CleanupKeeps
      <3> QED BY <1>5, <3>2, <3>3, Constants2
    <2>3. CASE b \notin {NoBrowser, Gone} /\ browser[b].cleaning # "no"
      <3>1. UNCHANGED <<scope, browser, call>>
        BY <1>3, <2>3
      <3>2. scope.managed # b
        BY <2>3 DEF IInv, OnlyTheManagedRuns
      <3> QED BY <1>1, <1>5, <3>1, <3>2 DEF Types, ScopeType, IInv, OnlyTheManagedRuns
    <2> QED BY <2>1, <2>2, <2>3
  <1>8. Types'
    BY <1>1, <1>6, <1>7 DEF Types
  <1>9. LaunchManagesItsOwn' /\ CloseAfterLaunch'
    BY <1>1 DEF LaunchManagesItsOwn, CloseAfterLaunch
  <1>10. NoLaunchAfterStop'
    <2>1. Down => Down'
      BY <1>1, <1>7 DEF Down
    <2>2. /\ handler'["start"].pc = "idle" <=> handler["start"].pc = "idle"
          /\ handler'["start"].stale = handler["start"].stale
      BY <1>1, <1>6 DEF Handlers
    <2> QED BY <1>1, <1>7, <2>1, <2>2 DEF IInv, NoLaunchAfterStop
  <1>11. StopTakesAll'
    <2>1. CASE h = "stop"
      BY <1>1, <1>6, <1>7, <2>1 DEF IInv, StopTakesAll
    <2>2. CASE h # "stop"
      <3>1. handler'["stop"] = handler["stop"]
        BY <1>6, <2>2 DEF Handlers
      <3> QED BY <1>1, <1>7, <3>1 DEF IInv, StopTakesAll
    <2> QED BY <2>1, <2>2
  <1> QED BY <1>7, <1>8, <1>9, <1>10, <1>11, InvariantAgain

LEMMA StartClosedInv == ASSUME IInv, StartClosed PROVE IInv'
  <1>1. /\ Types /\ Calm /\ handler["start"].pc = "closed" /\ handler["start"] \in Handler
        /\ scope' = [scope EXCEPT !.aborted = FALSE] /\ launch' = Superseded(launch)
        /\ UNCHANGED <<browser, call, session>>
    BY InvariantTypes DEF StartClosed, Types, Handlers
  <1>2. Down
    BY <1>1 DEF IInv, NoLaunchAfterStop
  <1>3. ScopeType' /\ scope'.managed = scope.managed
    BY <1>1 DEF Types, ScopeType
  <1>4. launch' \in Launch /\ launch'.pc = launch.pc /\ launch'.browser = launch.browser
    BY <1>1, SupersededType
  <1> DEFINE new == IF handler["start"].stale THEN IdleHandler
                    ELSE [handler["start"] EXCEPT !.pc = "load"]
  <1>5. /\ new \in Handler /\ new.pc \in {"idle", "load"}
        /\ new.pc = "load" => ~handler["start"].stale /\ ~new.stale
    BY <1>1, Constants2 DEF Handler
  <1>6. handler' = [handler EXCEPT !["start"] = new]
    BY DEF StartClosed
  <1> HIDE DEF new
  <1>7. /\ handler' \in [Handlers -> Handler] /\ handler'["start"] = new
        /\ handler'["stop"] = handler["stop"]
        /\ \A h \in Handlers : h # "start" => handler'[h] = handler[h]
    BY <1>1, <1>5, <1>6 DEF Types, Handlers
  <1>8. Types'
    BY <1>1, <1>3, <1>4, <1>7 DEF Types
  <1>9. OnlyTheManagedRuns' /\ LaunchManagesItsOwn'
    BY <1>1, <1>3, <1>4 DEF IInv, OnlyTheManagedRuns, LaunchManagesItsOwn
  <1>10. CloseAfterLaunch' /\ Down'
    BY <1>1, <1>2, <1>3, <1>4 DEF CloseAfterLaunch, Down
  <1>11. NoLaunchAfterStop'
    BY <1>1, <1>5, <1>7, <1>10 DEF IInv, NoLaunchAfterStop
  <1>12. StopTakesAll'
    BY <1>1, <1>3, <1>4, <1>7 DEF IInv, StopTakesAll
  <1> QED BY <1>8, <1>9, <1>10, <1>11, <1>12, InvariantAgain

LEMMA StartLoadedInv == ASSUME IInv, StartLoaded PROVE IInv'
  <1>1. /\ Types /\ Calm /\ handler["start"].pc = "load"
        /\ handler' = [handler EXCEPT !["start"] = IdleHandler]
        /\ UNCHANGED <<launch, browser, call>>
    BY InvariantTypes DEF StartLoaded
  <1>2. Down
    BY <1>1 DEF IInv, NoLaunchAfterStop
  <1>3. ScopeType' /\ scope'.managed = scope.managed /\ scope'.aborted = scope.aborted
    <2>1. CASE scope' = scope
      BY <1>1, <2>1 DEF Types, ScopeType
    <2>2. CASE \E s \in Settings : Apply(s)
      BY <1>1, <2>2, Constants DEF Types, ScopeType, Apply
    <2> QED BY <2>1, <2>2 DEF StartLoaded
  <1>4. session' = session \/ (session = "starting" /\ session' = "open")
    BY <1>1 DEF StartLoaded, IInv, NoLaunchAfterStop
  <1>5. /\ handler' \in [Handlers -> Handler] /\ handler'["start"].pc = "idle"
        /\ handler'["stop"] = handler["stop"]
        /\ \A h \in Handlers : h # "start" => handler'[h] = handler[h]
    BY <1>1, Constants2 DEF Types, Handlers
  <1>6. Types'
    BY <1>1, <1>3, <1>4, <1>5 DEF Types
  <1>7. OnlyTheManagedRuns' /\ LaunchManagesItsOwn' /\ CloseAfterLaunch' /\ Down'
    BY <1>1, <1>2, <1>3
    DEF IInv, OnlyTheManagedRuns, LaunchManagesItsOwn, CloseAfterLaunch, Down
  <1>8. NoLaunchAfterStop' /\ StopTakesAll'
    BY <1>1, <1>3, <1>4, <1>5, <1>7 DEF IInv, NoLaunchAfterStop, StopTakesAll
  <1> QED BY <1>6, <1>7, <1>8, InvariantAgain

LEMMA StopClosedInv == ASSUME IInv, StopClosed PROVE IInv'
  <1>1. /\ Types /\ Calm /\ handler["stop"].pc = "closed" /\ session' = "closed"
        /\ handler' = [handler EXCEPT !["stop"] = IdleHandler]
        /\ UNCHANGED <<scope, launch, browser, call>>
    BY InvariantTypes DEF StopClosed
  <1>2. session = "stopping" /\ launch.pc = "none" /\ scope.managed = NoBrowser
    BY <1>1 DEF IInv, StopTakesAll
  <1>3. /\ handler' \in [Handlers -> Handler] /\ handler'["stop"].pc = "idle"
        /\ handler'["start"] = handler["start"]
    BY <1>1, Constants2 DEF Types, Handlers
  <1>4. Types'
    BY <1>1, <1>3 DEF Types, ScopeType
  <1>5. OnlyTheManagedRuns' /\ LaunchManagesItsOwn' /\ CloseAfterLaunch' /\ (Down => Down')
    BY <1>1, <1>2 DEF IInv, OnlyTheManagedRuns, LaunchManagesItsOwn, CloseAfterLaunch, Down
  <1>6. NoLaunchAfterStop' /\ StopTakesAll'
    BY <1>1, <1>2, <1>3, <1>5 DEF IInv, NoLaunchAfterStop, StopTakesAll
  <1> QED BY <1>4, <1>5, <1>6, InvariantAgain

(***************************************************************************)
(* Every step.                                                             *)
(***************************************************************************)
LEMMA InvariantInit == Init => IInv
  <1> SUFFICES ASSUME Init PROVE IInv
    OBVIOUS
  <1>1. launch \in Launch /\ launch.pc = "none"
    BY Constants2 DEF Init
  <1>2. browser \in [Browsers -> Browser] /\ \A b \in Browsers : browser[b] = Blank
    BY Constants2 DEF Init
  <1>3. call \in [Calls -> Call]
    BY Constants2 DEF Init
  <1>4. handler \in [Handlers -> Handler] /\ \A h \in Handlers : handler[h].pc = "idle"
    BY Constants2 DEF Init
  <1>5. ScopeType /\ scope.managed = NoBrowser
    BY Constants DEF Init, ScopeType
  <1>6. session = "closed"
    BY DEF Init
  <1>7. TypeOK
    BY <1>1, <1>2, <1>3, <1>4, <1>5, <1>6, SameTypes DEF Types
  <1>8. OnlyTheManagedRuns /\ LaunchManagesItsOwn /\ CloseAfterLaunch
    BY <1>1, <1>2, <1>5 DEF OnlyTheManagedRuns, LaunchManagesItsOwn, CloseAfterLaunch
  <1>9. handler["start"].pc = "idle" /\ handler["stop"].pc = "idle"
    BY <1>4 DEF Handlers
  <1>10. \A c \in Calls : call[c].pc = "idle"
    BY Constants2 DEF Init
  <1>11. NoLaunchAfterStop /\ StopTakesAll
    BY <1>1, <1>5, <1>6, <1>9, <1>10 DEF NoLaunchAfterStop, StopTakesAll, Down
  <1> QED BY <1>7, <1>8, <1>11 DEF IInv

LEMMA InvariantStep == IInv /\ [Next]_vars => IInv'
  <1> SUFFICES ASSUME IInv, [Next]_vars PROVE IInv'
    OBVIOUS
  <1>1. CASE UNCHANGED vars
    <2>1. UNCHANGED <<scope, launch, browser, handler, session>> /\ call' \in [Calls -> Call]
      BY <1>1, InvariantTypes DEF vars, Types
    <2>2. \A c \in Calls : call[c].pc = "idle" => call'[c].pc = "idle"
      BY <1>1 DEF vars
    <2> QED BY <2>1, <2>2, CallInv
  <1>2. CASE Next
    <2>1. CASE \E c \in Calls : \/ Attach(c) \/ Fetch(c) \/ EndCall(c)
                                \/ StartCall(c, TRUE) \/ StartCall(c, FALSE)
      BY <2>1, AttachInv, FetchInv, EndCallInv, StartCallInv
    <2>2. CASE LaunchStep
      BY <2>2, EarlyStepsInv, SpawnInv, AwaitSpawnInv, ReadPortInv, ConnectInv DEF LaunchStep
    <2>3. CASE HandlerStep \/ BeginSave
      BY <2>3, StartClosedInv, StartLoadedInv, StopClosedInv, SaveInv DEF HandlerStep
    <2>4. CASE \E h \in Handlers : Close(h)
      BY <2>4, CloseInv
    <2>5. CASE \E b \in Browsers : Publish(b) \/ Die(b) \/ Exit(b) \/ KillTimeout(b) \/ Removed(b)
      BY <2>5, PublishInv, ExitInv, KillTimeoutInv, RemovedInv
    <2>6. CASE StartSession \/ StopSession
      BY <2>6, StartSessionInv, StopSessionInv
    <2> QED BY <1>2, <2>1, <2>2, <2>3, <2>4, <2>5, <2>6 DEF Next
  <1> QED BY <1>1, <1>2

(***************************************************************************)
(* What ends with the browser.                                             *)
(***************************************************************************)
\* The managed browser stays as it is.
Spared == scope'.managed = scope.managed /\ UNCHANGED browser

\* It is cleaned up, or has exited, and an operation on it ends.
Ends(c) == call[c].web => call'[c].pc = "idle"

LEMMA CleanupEnds ==
  ASSUME Types, NEW b \in Browsers, NEW cs \in [Calls -> Call], NEW c \in Calls,
         BeginCleanup(b, cs), scope.managed = b, cs[c].web = call[c].web
  PROVE  Ends(c)
  BY CleanupBegins, Constants2 DEF Ends

LEMMA CallsSpareOrEnd ==
  ASSUME IInv, NEW c \in Calls, NEW d \in Calls,
         \/ Attach(d) \/ Fetch(d) \/ EndCall(d) \/ StartCall(d, TRUE) \/ StartCall(d, FALSE)
  PROVE  Spared \/ Ends(c)
  <1>1. Types /\ scope.managed \in Browsers \cup {NoBrowser}
    BY InvariantTypes DEF Types, ScopeType
  <1>2. CASE BeginLaunch(d)
    <2>1. CASE scope.managed = NoBrowser
      BY <1>2, <2>1 DEF BeginLaunch, Spared
    <2>2. CASE scope.managed # NoBrowser
      <3>1. At(d, "launch") \in [Calls -> Call] /\ At(d, "launch")[c].web = call[c].web
        BY <1>1, AtType
      <3> QED BY <1>1, <1>2, <2>2, <3>1, CleanupEnds DEF BeginLaunch
    <2> QED BY <2>1, <2>2
  <1>3. CASE UNCHANGED <<scope, browser>>
    BY <1>3 DEF Spared
  <1> QED BY <1>2, <1>3 DEF Attach, EnsureLaunched, Fetch, EndCall, StartCall

LEMMA LaunchSparesOrEnds ==
  ASSUME IInv, NEW c \in Calls, LaunchStep, NEW b \in Browsers, b = scope.managed
  PROVE  Spared \/ Ends(c) \/ (scope'.managed = b /\ browser'[b].exited = browser[b].exited)
  <1>1. /\ Types /\ call \in [Calls -> Call] /\ browser \in [Browsers -> Browser]
    BY InvariantTypes DEF Types
  <1>2. CASE UNCHANGED <<scope, browser>>
    BY <1>2 DEF Spared
  <1>3. CASE OldClosed \/ CheckPort \/ Resolve \/ CheckVersion \/ CandidateFailed
    BY <1>2, <1>3 DEF OldClosed, CheckPort, Resolve, CheckVersion, CandidateFailed, TryNext,
                      Unsuccessful
  <1>4. CASE Spawn
    <2>1. scope.managed = NoBrowser
      BY <1>4 DEF IInv, LaunchManagesItsOwn, Spawn
    <2> QED BY <2>1, Constants
  <1>5. CASE AwaitSpawn \/ ReadPort \/ Connect
    <2>1. launch.browser = b
      BY <1>5 DEF AwaitSpawn, ReadPort, Connect, IInv, LaunchManagesItsOwn
    <2>2. CASE Abandon
      BY <1>1, <2>1, <2>2, CleanupEnds DEF Abandon
    <2>3. CASE /\ \/ browser' = browser
                  \/ browser' = [browser EXCEPT ![b].port = scope.port]
                  \/ browser' = [browser EXCEPT ![b].port = Listens(b)]
                  \/ browser' = [browser EXCEPT ![b].ready = TRUE]
               /\ scope' = scope \/ scope' = [scope EXCEPT !.port = Listens(b)]
      <3>1. scope'.managed = b
        BY <1>1, <2>3 DEF Types, ScopeType
      <3>2. browser'[b].exited = browser[b].exited
        BY <1>1, <2>3 DEF Browser
      <3> QED BY <3>1, <3>2
    <2> QED BY <1>5, <2>1, <2>2, <2>3 DEF AwaitSpawn, ReadPort, Connect
  <1> QED BY <1>3, <1>4, <1>5 DEF LaunchStep

LEMMA BrowserSparesOrEnds ==
  ASSUME IInv, NEW c \in Calls, NEW x \in Browsers, NEW b \in Browsers, b = scope.managed,
         Publish(x) \/ Die(x) \/ Exit(x) \/ KillTimeout(x) \/ Removed(x)
  PROVE  Ends(c) \/ (scope'.managed = b /\ browser'[b].exited = browser[b].exited)
  <1>1. /\ Types /\ call \in [Calls -> Call] /\ browser \in [Browsers -> Browser]
        /\ browser[b] \in Browser
    BY InvariantTypes DEF Types
  <1>2. scope'.managed = b
    <2>1. CASE UNCHANGED scope
      BY <2>1
    <2>2. CASE scope' = PortReset(x)
      BY <1>1, <2>2, PortResetType
    <2> QED BY <2>1, <2>2 DEF Publish, Die, Exit, KillTimeout, Removed
  <1>3. CASE Publish(x) \/ Die(x)
    <2>1. browser'[b].exited = browser[b].exited
      BY <1>1, <1>3 DEF Publish, Die, Browser
    <2> QED BY <1>2, <2>1
  <1>4. CASE KillTimeout(x)
    <2>1. browser'[b].exited = browser[b].exited
      BY <1>1, <1>4 DEF KillTimeout, Browser
    <2> QED BY <1>2, <2>1
  <1>5. CASE Exit(x)
    <2>1. CASE x = b
      BY <1>1, <1>5, <2>1, InvalidatedType, Constants2 DEF Exit, Ends
    <2>2. CASE x # b
      <3>1. browser'[b] = browser[b]
        BY <1>1, <1>5, <2>2 DEF Exit
      <3> QED BY <1>2, <3>1
    <2> QED BY <2>1, <2>2
  <1>6. CASE Removed(x)
    <2>1. x # b
      BY <1>6, Constants DEF Removed, IInv, OnlyTheManagedRuns
    <2>2. browser'[b] = browser[b]
      BY <1>1, <1>6, <2>1 DEF Removed
    <2> QED BY <1>2, <2>2
  <1> QED BY <1>3, <1>4, <1>5, <1>6

LEMMA HandlersSpareOrEnd ==
  ASSUME IInv, NEW c \in Calls, NEW b \in Browsers, b = scope.managed,
         \/ HandlerStep \/ BeginSave \/ StartSession \/ StopSession
         \/ \E h \in Handlers : Close(h)
  PROVE  Spared \/ Ends(c) \/ (scope'.managed = b /\ browser'[b].exited = browser[b].exited)
  <1>1. /\ Types /\ call \in [Calls -> Call] /\ handler \in [Handlers -> Handler]
        /\ scope.managed \in Browsers \cup {NoBrowser}
    BY InvariantTypes DEF Types, ScopeType
  <1>2. CASE HandlerStep \/ BeginSave \/ StartSession \/ StopSession
    <2>1. UNCHANGED browser
      BY <1>2 DEF HandlerStep, BeginSave, StartSession, StopSession, StartClosed, StartLoaded,
                  StopClosed, SaveClosed, SaveLoaded, Write, WriteFails
    <2>2. \/ UNCHANGED scope \/ scope' = [scope EXCEPT !.aborted = TRUE]
          \/ scope' = [scope EXCEPT !.aborted = FALSE] \/ \E s \in Settings : Apply(s)
      BY <1>2 DEF HandlerStep, BeginSave, StartSession, StopSession, StartClosed, StartLoaded,
                  StopClosed, SaveClosed, SaveLoaded, Write, WriteFails, Replace
    <2>3. scope'.managed = scope.managed
      BY <1>1, <2>2 DEF Types, ScopeType, Apply
    <2> QED BY <2>1, <2>3 DEF Spared
  <1>3. ASSUME NEW h \in Handlers, Close(h) PROVE Spared \/ Ends(c)
                       \/ (scope'.managed = b /\ browser'[b].exited = browser[b].exited)
    <2>1. CASE UNCHANGED <<scope, browser, call>>
      BY <2>1 DEF Spared
    <2> DEFINE x == IF handler[h].browser = NoBrowser THEN scope.managed ELSE handler[h].browser
    <2>2. CASE x \notin {NoBrowser, Gone} /\ BeginCleanup(x, call)
      <3>1. x \in Browsers
        BY <1>1, <2>2 DEF Handler, Held
      <3> HIDE DEF x
      <3>2. CASE x = b
        BY <1>1, <2>2, <3>2, CleanupEnds
      <3>3. CASE x # b
        <4>1. browser' = Cleaned(x) /\ scope'.managed = scope.managed
          BY <1>1, <2>2, <3>1, <3>3, CleanupBegins
        <4>2. browser'[b] = browser[b]
          BY <1>1, <3>1, <3>3, <4>1, CleanedType
        <4> QED BY <4>1, <4>2
      <3> QED BY <3>2, <3>3
    <2> QED BY <1>3, <2>1, <2>2 DEF Close
  <1> QED BY <1>2, <1>3

LEMMA OperationsStep ==
  ASSUME IInv, [Next]_vars, NEW c \in Calls, call[c].web, call[c].server \in Browsers,
         call[c].server = scope.managed, ~browser[call[c].server].exited,
         scope'.managed # call[c].server \/ browser'[call[c].server].exited
  PROVE  call'[c].pc = "idle"
  <1> DEFINE b == call[c].server
  <1>1. /\ b \in Browsers /\ b = scope.managed
        /\ ~(scope'.managed = b /\ browser'[b].exited = browser[b].exited)
    OBVIOUS
  <1> HIDE DEF b
  <1>2. ~Spared
    BY <1>1 DEF Spared
  <1>3. Next
    <2>1. UNCHANGED vars => Spared
      BY DEF vars, Spared
    <2> QED BY <1>2, <2>1
  <1>4. Ends(c)
    BY <1>1, <1>2, <1>3, CallsSpareOrEnd, LaunchSparesOrEnds, BrowserSparesOrEnds,
       HandlersSpareOrEnd DEF Next
  <1> QED BY <1>4 DEF Ends

(***************************************************************************)
(* The inductive invariant holds in every behaviour.                       *)
(***************************************************************************)
THEOREM ChromeInvariant == Spec => []IInv
  BY InvariantInit, InvariantStep, PTL DEF Spec

(***************************************************************************)
(* On whichever await a launch fails, is cancelled or loses its session,   *)
(* no running browser is out of reach of a shutdown; and when a session    *)
(* has ended every browser was told to go, and no launch is on its way.    *)
(***************************************************************************)
THEOREM ReleaseCorrect == Spec => []BrowsersAreReleased
  <1>1. IInv => BrowsersAreReleased
    <2> SUFFICES ASSUME IInv PROVE NoStrayBrowser /\ ShutdownReleasesAll
      BY DEF BrowsersAreReleased
    <2>1. \A b \in Browsers : browser[b].os = "alive" => browser[b] # Blank
      BY Constants2
    <2>2. NoStrayBrowser
      BY <2>1 DEF NoStrayBrowser, IInv, OnlyTheManagedRuns
    <2>3. ShutdownReleasesAll
      BY Constants DEF ShutdownReleasesAll, IInv, OnlyTheManagedRuns, StopTakesAll
    <2> QED BY <2>2, <2>3
  <1> QED BY <1>1, ChromeInvariant, PTL

(***************************************************************************)
(* An operation of WebMCP ends in the step in which its browser exits or   *)
(* stops being the managed one.                                            *)
(***************************************************************************)
THEOREM OperationsCorrect == Spec => OperationsDieWithTheirBrowser
  <1>1. IInv /\ [Next]_vars =>
          [\A c \in Calls : LET b == call[c].server IN
             (call[c].web /\ b \in Browsers /\ b = scope.managed /\ ~browser[b].exited
                /\ (scope'.managed # b \/ browser'[b].exited))
                  => call'[c].pc = "idle"]_vars
    BY OperationsStep
  <1> QED BY <1>1, ChromeInvariant, PTL DEF Spec, OperationsDieWithTheirBrowser
==============================================================================
