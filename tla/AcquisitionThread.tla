------------------------- MODULE AcquisitionThread -------------------------
(***************************************************************************)
(* The life of the GPIB acquisition thread (Threads/AcquisitionThread.cpp) *)
(* together with everybody who starts, stops or commands it: the UI thread *)
(* (MainFrm, ScopeControlPanel, through CTds520AApp), the web command      *)
(* thread of the HTTP server, and the background thread of the Connect     *)
(* dialog, which shares the instrument with it.                            *)
(*                                                                         *)
(* Each load or store of m_state and m_stopRequest, each post to the       *)
(* command queue, each GPIB call and each operation on m_thread is a step. *)
(* A GPIB call may fail at any time and any number of times.  Samples,     *)
(* scales and log lines are left out; of the commands, the six that change *)
(* a scale or the trigger level are one ("setting").                       *)
(***************************************************************************)
EXTENDS Naturals, Sequences

CONSTANTS Channels,     \* input channels; ReconnectChannel is CH1
          ReconnectChannel,
          MaxErrors,    \* kMaxConsecutiveErrors, 15 in the program
          MaxQueue,     \* bound: users post no further command beyond this many
          Posted        \* bound: what users post besides channels, of "run", "single"
                        \* and "setting"

ASSUME ChannelAssumption == ReconnectChannel \in Channels
ASSUME MaxErrorsAssumption == MaxErrors \in Nat /\ MaxErrors > 0
ASSUME MaxQueueAssumption == MaxQueue \in Nat

VARIABLES
  state,        \* m_state
  stopRequest,  \* m_stopRequest
  errors,       \* m_consecutiveErrors, counted up to MaxErrors
  queue,        \* m_cmdQueue
  joinable,     \* m_thread.joinable()
  acqPc,        \* where ThreadProc stands; "off" when no thread runs
  local,        \* DrainCommandQueue's snapshot, the first one being executed
  pc,           \* where the UI thread and the web command thread stand
  call,         \* what the UI handler goes on to do after a stop, and its channel
  connPc,       \* where the connect background thread stands
  open,         \* TektronixScope::IsConnected()
  lock,         \* TektronixScope::m_mutex
  channel,      \* TektronixScope::m_channel
  wanted,       \* history: the channel a user asked for last
  decided,      \* history: the channel all commands given so far amount to
  overruled,    \* history: what made that another than wanted, or "no"
  unsure        \* history: the last channel command carried out failed

threadVars == <<state, stopRequest, errors, joinable>>
procVars == <<acqPc, local>>
callVars == <<pc, call>>
scopeVars == <<open, lock, channel>>
historyVars == <<wanted, decided, overruled, unsure>>
vars == <<state, stopRequest, errors, queue, joinable, acqPc, local, pc, call,
          connPc, open, lock, channel, wanted, decided, overruled, unsure>>

Callers == {"ui", "web"}

SetChannelCmd(c) == [op |-> "channel", ch |-> c]
RunCmd == [op |-> "run"]
SingleCmd == [op |-> "single"]
SettingCmd == [op |-> "setting"]
Commands == {SetChannelCmd(c) : c \in Channels} \cup {RunCmd, SingleCmd, SettingCmd}

\* A UI handler's local state; between handlers there is none
NoCall == [then |-> "idle", ch |-> ReconnectChannel]

\* Bound: users stop clicking while MaxQueue commands wait.
MayPost == Len(queue) < MaxQueue

Init ==
  /\ state = "Stopped" /\ stopRequest = FALSE /\ errors = 0
  /\ queue = << >> /\ joinable = FALSE
  /\ acqPc = "off" /\ local = << >>
  /\ pc = [t \in Callers |-> "idle"] /\ call = NoCall
  /\ connPc = "idle" /\ open = FALSE /\ lock = "free"
  /\ channel = ReconnectChannel
  /\ wanted = ReconnectChannel /\ decided = ReconnectChannel
  /\ overruled = "no" /\ unsure = FALSE

-----------------------------------------------------------------------------
(* Who chooses the channel: the user in the window or on the web page, the
   command Start begins with, and a reconnect *)

ChannelWaits == \/ \E i \in DOMAIN local : local[i].op = "channel"
                \/ \E i \in DOMAIN queue : queue[i].op = "channel"

\* History: from now on the commands amount to channel c
Decides(c, by) ==
  /\ decided' = c
  /\ overruled' = IF c = wanted' THEN "no" ELSE by

\* PostCommand(SetChannel<c>) on behalf of a user
PostChannel(c) ==
  /\ queue' = Append(queue, SetChannelCmd(c))
  /\ wanted' = c /\ Decides(c, "no")
  /\ UNCHANGED unsure

-----------------------------------------------------------------------------
(* ThreadProc, on the acquisition thread *)

\* HandleError
CountError == errors' = IF errors < MaxErrors THEN errors + 1 ELSE errors

\* Mutated form of ProcTop: the loop condition ignores m_stopRequest
ProcTopIgnoresStop ==
  /\ acqPc = "top"
  /\ acqPc' = "drain"
  /\ UNCHANGED <<threadVars, queue, local, callVars, connPc, scopeVars, historyVars>>

ProcTop ==
  /\ acqPc = "top"
  /\ acqPc' = IF stopRequest THEN "exit" ELSE "drain"
  /\ UNCHANGED <<threadVars, queue, local, callVars, connPc, scopeVars, historyVars>>

\* Mutated form of DrainSwap: the queue is copied and not emptied
DrainCopies ==
  /\ acqPc = "drain"
  /\ local' = queue
  /\ acqPc' = "exec"
  /\ UNCHANGED <<threadVars, queue, callVars, connPc, scopeVars, historyVars>>

DrainSwap ==
  /\ acqPc = "drain"
  /\ local' = queue
  /\ queue' = << >>
  /\ acqPc' = "exec"
  /\ UNCHANGED <<threadVars, callVars, connPc, scopeVars, historyVars>>

\* Mutated form of ExecChannel: the channel counted from the wrong base
ExecChannelOffByOne ==
  /\ acqPc = "exec" /\ local # << >> /\ Head(local).op = "channel"
  /\ open
  /\ channel' = Head(local).ch + 1
  /\ local' = Tail(local)
  /\ UNCHANGED <<threadVars, queue, acqPc, callVars, connPc, open, lock, historyVars>>

\* One command; SetChannel and AcquireSingle count a failure, the others do not
ExecChannel ==
  /\ acqPc = "exec" /\ local # << >> /\ Head(local).op = "channel"
  /\ \/ /\ open
        /\ channel' = Head(local).ch
        /\ unsure' = FALSE
        /\ UNCHANGED errors
     \/ /\ CountError
        /\ unsure' = TRUE
        /\ UNCHANGED channel
  /\ local' = Tail(local)
  /\ UNCHANGED <<state, stopRequest, joinable, queue, acqPc, callVars, connPc, open, lock,
                 wanted, decided, overruled>>

ExecSingle ==
  /\ acqPc = "exec" /\ local # << >> /\ Head(local).op = "single"
  /\ \/ open /\ UNCHANGED errors
     \/ CountError
  /\ local' = Tail(local)
  /\ UNCHANGED <<state, stopRequest, joinable, queue, acqPc, callVars, connPc, scopeVars,
                 historyVars>>

ExecRun ==
  /\ acqPc = "exec" /\ local # << >> /\ Head(local).op = "run"
  /\ local' = Tail(local)
  /\ UNCHANGED <<threadVars, queue, acqPc, callVars, connPc, scopeVars, historyVars>>

\* A scale is queried first, and left alone if that fails
ExecSetting ==
  /\ acqPc = "exec" /\ local # << >> /\ Head(local).op = "setting"
  /\ local' = Tail(local)
  /\ acqPc' \in {"exec", "setting"}
  /\ UNCHANGED <<threadVars, queue, callVars, connPc, scopeVars, historyVars>>

\* SetHorizontalScale, SetChannelScale and AdjustTriggerLevel lock m_mutex
SettingLocks ==
  /\ acqPc = "setting" /\ lock = "free"
  /\ acqPc' = "exec"
  /\ UNCHANGED <<threadVars, queue, local, callVars, connPc, scopeVars, historyVars>>

DrainDone ==
  /\ acqPc = "exec" /\ local = << >>
  /\ acqPc' = "fetch"
  /\ UNCHANGED <<threadVars, queue, local, callVars, connPc, scopeVars, historyVars>>

\* DoAcquisitionCycle; a waveform that decodes goes through the callback
FetchOk ==
  /\ acqPc = "fetch" /\ open
  /\ errors' = 0
  /\ acqPc' \in {"top", "callback"}
  /\ UNCHANGED <<state, stopRequest, joinable, queue, local, callVars, connPc, scopeVars,
                 historyVars>>

\* PostWaveform returns once it has had m_statusMutex, which a client thread of the
\* HTTP server holds during a send
CallbackReturns ==
  /\ acqPc = "callback"
  /\ acqPc' = "top"
  /\ UNCHANGED <<threadVars, queue, local, callVars, connPc, scopeVars, historyVars>>

FetchFails ==
  /\ acqPc = "fetch"
  /\ CountError
  /\ acqPc' = "failed"
  /\ UNCHANGED <<state, stopRequest, joinable, queue, local, callVars, connPc, scopeVars,
                 historyVars>>

AfterFailure ==
  /\ acqPc = "failed"
  /\ acqPc' = CASE stopRequest -> "exit"
                [] ~stopRequest /\ errors >= MaxErrors -> "reconnect"
                [] OTHER -> "top"
  /\ UNCHANGED <<threadVars, queue, local, callVars, connPc, scopeVars, historyVars>>

\* AttemptReconnect: Disconnect, two seconds of sleep, Connect
ReconnectCloses ==
  /\ acqPc = "reconnect" /\ lock = "free"
  /\ errors' = 0
  /\ open' = FALSE
  /\ acqPc' = "reSleep"
  /\ UNCHANGED <<state, stopRequest, joinable, queue, local, callVars, connPc, lock, channel,
                 historyVars>>

ReconnectOpens ==
  /\ acqPc = "reSleep" /\ lock = "free"
  /\ \/ open' = TRUE /\ lock' = "acq" /\ acqPc' = "reIdent"
     \/ open' = FALSE /\ acqPc' = "giveUp" /\ UNCHANGED lock
  /\ UNCHANGED <<threadVars, queue, local, callVars, connPc, channel, historyVars>>

\* Identification and data encoding; a failure leaves the device open
ReconnectIdentifies ==
  /\ acqPc = "reIdent"
  /\ lock' = "free"
  /\ acqPc' \in {"reStart", "giveUp"}
  /\ UNCHANGED <<threadVars, queue, local, callVars, connPc, open, channel, historyVars>>

\* StartContinuous, whose result is ignored, and "re-apply channel"
ReconnectResumes ==
  /\ acqPc = "reStart"
  /\ queue' = Append(queue, SetChannelCmd(ReconnectChannel))
  /\ wanted' = wanted /\ Decides(ReconnectChannel, "reconnect")
  /\ acqPc' = "top"
  /\ UNCHANGED <<threadVars, local, callVars, connPc, scopeVars, unsure>>

GiveUpState ==
  /\ acqPc = "giveUp"
  /\ state' = "Error"
  /\ acqPc' = "giveUp2"
  /\ UNCHANGED <<stopRequest, errors, joinable, queue, local, callVars, connPc, scopeVars,
                 historyVars>>

GiveUpRequest ==
  /\ acqPc = "giveUp2"
  /\ stopRequest' = TRUE
  /\ acqPc' = "top"
  /\ UNCHANGED <<state, errors, joinable, queue, local, callVars, connPc, scopeVars,
                 historyVars>>

ProcExit ==
  /\ acqPc = "exit"
  /\ state' = "Stopped"
  /\ acqPc' = "off"
  /\ UNCHANGED <<stopRequest, errors, joinable, queue, local, callVars, connPc, scopeVars,
                 historyVars>>

ThreadProc ==
  \/ ProcTop \/ DrainSwap \/ ExecChannel \/ ExecSingle \/ ExecRun \/ ExecSetting \/ SettingLocks
  \/ DrainDone \/ FetchOk \/ CallbackReturns \/ FetchFails \/ AfterFailure
  \/ ReconnectCloses \/ ReconnectOpens \/ ReconnectIdentifies \/ ReconnectResumes \/ GiveUpState
  \/ GiveUpRequest \/ ProcExit
-----------------------------------------------------------------------------
(* Stop and WaitForStop, called by the UI thread or the web command thread *)

\* std::terminate ends every thread of the process
Terminate == /\ acqPc' = "dead" /\ connPc' = "dead"
             /\ pc' = [t \in Callers |-> "dead"]
             /\ call' = NoCall

Goto(t, where) == pc' = [pc EXCEPT ![t] = where]

\* What follows StopAcquisition: the web callback returns, the UI goes on
Continue(t) == IF t = "ui" THEN call.then ELSE "idle"

\* Mutated form of StopRequests: only m_state is set
StopForgetsRequest(t) ==
  /\ pc[t] = "stop"
  /\ Goto(t, "stopState")
  /\ UNCHANGED <<threadVars, queue, procVars, call, connPc, scopeVars, historyVars>>

StopRequests(t) ==
  /\ pc[t] = "stop"
  /\ stopRequest' = TRUE
  /\ Goto(t, "stopState")
  /\ UNCHANGED <<state, errors, joinable, queue, procVars, call, connPc, scopeVars, historyVars>>

StopSetsState(t) ==
  /\ pc[t] = "stopState"
  /\ state' = "Stopping"
  /\ Goto(t, "wait")
  /\ UNCHANGED <<stopRequest, errors, joinable, queue, procVars, call, connPc,
                 scopeVars, historyVars>>

WaitFindsNoThread(t) ==
  /\ pc[t] \in {"wait", "poll"} /\ ~joinable
  /\ Goto(t, Continue(t))
  /\ UNCHANGED <<threadVars, queue, procVars, call, connPc, scopeVars,
                 historyVars>>

\* Polls every 50 ms until m_state is Stopped or the timeout has passed
WaitBegins(t) ==
  /\ pc[t] = "wait" /\ joinable
  /\ Goto(t, "poll")
  /\ UNCHANGED <<threadVars, queue, procVars, call, connPc, scopeVars,
                 historyVars>>

\* Mutated form of PollEnds: the timeout abandons the thread
PollAbandons(t) ==
  /\ pc[t] = "poll" /\ joinable
  /\ Goto(t, Continue(t))
  /\ UNCHANGED <<threadVars, queue, procVars, call, connPc, scopeVars, historyVars>>

\* Either way out of the poll loop leads to join()
PollEnds(t) ==
  /\ pc[t] = "poll" /\ joinable
  /\ Goto(t, "join")
  /\ UNCHANGED <<threadVars, queue, procVars, call, connPc, scopeVars,
                 historyVars>>

\* join() waits for the thread and closes its handle; another caller that is
\* already waiting for the same handle will find it closed
Join(t) ==
  /\ pc[t] = "join" /\ acqPc = "off"
  /\ joinable' = FALSE
  /\ pc' = [u \in Callers |-> IF u = t THEN Continue(t)
                              ELSE IF pc[u] = "join" THEN "rejoin" ELSE pc[u]]
  /\ UNCHANGED <<state, stopRequest, errors, queue, procVars, call, connPc, scopeVars, historyVars>>

\* join() on the closed handle throws std::system_error, which nobody catches
JoinThrows(t) ==
  /\ pc[t] = "rejoin"
  /\ Terminate
  /\ UNCHANGED <<threadVars, queue, local, scopeVars, historyVars>>

StopAcquisition(t) ==
  \/ StopRequests(t) \/ StopSetsState(t) \/ WaitFindsNoThread(t) \/ WaitBegins(t)
  \/ PollEnds(t) \/ Join(t) \/ JoinThrows(t)

-----------------------------------------------------------------------------
(* StartAcquisition, called by the UI thread only *)

UiGoto(where) == Goto("ui", where)
UiDone == UiGoto("idle") /\ call' = NoCall

\* "Stop any existing thread before starting a new one", if it is Running
RunChecksState ==
  /\ pc["ui"] = "run"
  /\ IF state = "Running" THEN call' = [call EXCEPT !.then = "post"] /\ UiGoto("stop")
                          ELSE UNCHANGED call /\ UiGoto("post")
  /\ UNCHANGED <<threadVars, queue, procVars, connPc, scopeVars, historyVars>>

RunPosts ==
  /\ pc["ui"] = "post"
  /\ queue' = Append(queue, RunCmd)
  /\ UiGoto("start")
  /\ UNCHANGED <<threadVars, procVars, call, connPc, scopeVars, historyVars>>

\* Start refuses unless m_state is Stopped and the scope is connected
StartRefused ==
  /\ pc["ui"] = "start"
  /\ state # "Stopped" \/ ~open
  /\ UiDone
  /\ UNCHANGED <<threadVars, queue, procVars, connPc, scopeVars,
                 historyVars>>

StartAccepted ==
  /\ pc["ui"] = "start"
  /\ state = "Stopped" /\ open
  /\ UiGoto("startReset")
  /\ UNCHANGED <<threadVars, queue, procVars, call, connPc, scopeVars,
                 historyVars>>

StartResets ==
  /\ pc["ui"] = "startReset"
  /\ stopRequest' = FALSE
  /\ errors' = 0
  /\ UiGoto("startSeed")
  /\ UNCHANGED <<state, joinable, queue, procVars, call, connPc, scopeVars,
                 historyVars>>

\* Mutated form of StartSeeds: the channel argument ignored
StartSeedsDefault ==
  /\ pc["ui"] = "startSeed"
  /\ queue' = Append(queue, SetChannelCmd(ReconnectChannel))
  /\ wanted' = wanted /\ Decides(call.ch, "seed")
  /\ UiGoto("startState")
  /\ UNCHANGED <<threadVars, procVars, call, connPc, scopeVars, unsure>>

\* The channel is the one the scope object reported when Run was pressed, not the
\* user's: a request that waited then, or came since, is overruled.
StartSeeds ==
  /\ pc["ui"] = "startSeed"
  /\ queue' = Append(queue, SetChannelCmd(call.ch))
  /\ wanted' = wanted /\ Decides(call.ch, "seed")
  /\ UiGoto("startState")
  /\ UNCHANGED <<threadVars, procVars, call, connPc, scopeVars, unsure>>

StartSetsState ==
  /\ pc["ui"] = "startState"
  /\ state' = "Running"
  /\ UiGoto("startThread")
  /\ UNCHANGED <<stopRequest, errors, joinable, queue, procVars, call, connPc,
                 scopeVars, historyVars>>

\* m_thread = std::thread(...) ends the process if m_thread is still joinable
StartLaunches ==
  /\ pc["ui"] = "startThread"
  /\ IF joinable
     THEN Terminate /\ UNCHANGED joinable
     ELSE joinable' = TRUE /\ acqPc' = "top" /\ UiDone /\ UNCHANGED connPc
  /\ UNCHANGED <<state, stopRequest, errors, queue, local, scopeVars, historyVars>>

StartAcquisition ==
  \/ RunChecksState \/ RunPosts \/ StartRefused \/ StartAccepted \/ StartResets
  \/ StartSeeds \/ StartSetsState \/ StartLaunches

-----------------------------------------------------------------------------
(* What the user does in the window *)

UiIdle == pc["ui"] = "idle" /\ MayPost

\* OnBtnRun and OnScopeStart, with the channel the scope object reports
ClickRun ==
  /\ UiIdle /\ open
  /\ call' = [NoCall EXCEPT !.ch = channel]
  /\ UiGoto("run")
  /\ UNCHANGED <<threadVars, queue, procVars, connPc, scopeVars, historyVars>>

\* OnBtnStop
ClickStop ==
  /\ UiIdle
  /\ call' = [NoCall EXCEPT !.then = "idle"]
  /\ UiGoto("stop")
  /\ UNCHANGED <<threadVars, queue, procVars, connPc, scopeVars, historyVars>>

\* OnScopeStop: then TektronixScope::Stop on the UI thread
ClickMenuStop ==
  /\ UiIdle /\ state = "Running"
  /\ call' = [NoCall EXCEPT !.then = "scopeStop"]
  /\ UiGoto("stop")
  /\ UNCHANGED <<threadVars, queue, procVars, connPc, scopeVars, historyVars>>

\* OnScopeDisconnect: then TektronixScope::Disconnect on the UI thread
ClickDisconnect ==
  /\ UiIdle /\ open
  /\ call' = [NoCall EXCEPT !.then = "disconnect"]
  /\ UiGoto("stop")
  /\ UNCHANGED <<threadVars, queue, procVars, connPc, scopeVars, historyVars>>

\* OnChannelSelChange and OnScopeCH: through the queue while Running, else
\* TektronixScope::SetChannel on the UI thread
ClickChannel(c) ==
  /\ UiIdle
  /\ call' = [NoCall EXCEPT !.ch = c]
  /\ UiGoto(IF state = "Running" THEN "postChannel" ELSE "setChannel")
  /\ UNCHANGED <<threadVars, queue, procVars, connPc, scopeVars, historyVars>>

UiPostsChannel ==
  /\ pc["ui"] = "postChannel"
  /\ PostChannel(call.ch)
  /\ UiDone
  /\ UNCHANGED <<threadVars, procVars, connPc, scopeVars>>

\* Past the queue: what waits there, or in the snapshot of a thread that is being
\* stopped, is carried out afterwards.
UiSetsChannel ==
  /\ pc["ui"] = "setChannel"
  /\ \/ open /\ channel' = call.ch /\ unsure' = FALSE
     \/ UNCHANGED channel /\ unsure' = TRUE
  /\ wanted' = call.ch
  /\ Decides(IF ChannelWaits THEN decided ELSE call.ch, "older")
  /\ UiDone
  /\ UNCHANGED <<threadVars, queue, procVars, connPc, open, lock>>

\* The scale and trigger buttons post only while Running
ClickSetting ==
  /\ UiIdle /\ state = "Running" /\ "setting" \in Posted
  /\ UiGoto("postSetting")
  /\ UNCHANGED <<threadVars, queue, procVars, call, connPc, scopeVars,
                 historyVars>>

UiPostsSetting ==
  /\ pc["ui"] = "postSetting"
  /\ queue' = Append(queue, SettingCmd)
  /\ UiDone
  /\ UNCHANGED <<threadVars, procVars, connPc, scopeVars, historyVars>>

\* OnBtnSingle posts in every state
ClickSingle ==
  /\ UiIdle /\ "single" \in Posted
  /\ queue' = Append(queue, SingleCmd)
  /\ UNCHANGED <<threadVars, procVars, callVars, connPc, scopeVars, historyVars>>

UiStopsScope ==
  /\ pc["ui"] = "scopeStop"
  /\ UiDone
  /\ UNCHANGED <<threadVars, queue, procVars, connPc, scopeVars,
                 historyVars>>

UiDisconnects ==
  /\ pc["ui"] = "disconnect" /\ lock = "free"
  /\ open' = FALSE
  /\ UiDone
  /\ UNCHANGED <<threadVars, queue, procVars, connPc, lock, channel,
                 historyVars>>

\* MainFrm::OnClose: then the message loop ends and ExitInstance runs
ClickClose ==
  /\ UiIdle
  /\ call' = [NoCall EXCEPT !.then = "exit"]
  /\ UiGoto("stop")
  /\ UNCHANGED <<threadVars, queue, procVars, connPc, scopeVars, historyVars>>

\* ExitInstance: StopAcquisition again, and DisconnectScope with its own
UiExits ==
  /\ pc["ui"] \in {"exit", "exitScope"}
  /\ call' = [call EXCEPT !.then = IF pc["ui"] = "exit" THEN "exitScope" ELSE "quit"]
  /\ UiGoto("stop")
  /\ UNCHANGED <<threadVars, queue, procVars, connPc, scopeVars, historyVars>>

UiQuits ==
  /\ pc["ui"] = "quit" /\ lock = "free"
  /\ open' = FALSE
  /\ UiGoto("closed") /\ call' = NoCall
  /\ UNCHANGED <<threadVars, queue, procVars, connPc, lock, channel, historyVars>>

\* OnScopeConnect, once the dialog has returned a device
ClickConnect ==
  /\ UiIdle /\ connPc = "idle" /\ ~open
  /\ connPc' = "connect"
  /\ UNCHANGED <<threadVars, queue, procVars, callVars, scopeVars, historyVars>>

\* OnConnectDone
UiConnectDone ==
  /\ pc["ui"] = "idle" /\ connPc = "done"
  /\ connPc' = "idle"
  /\ UNCHANGED <<threadVars, queue, procVars, callVars, scopeVars, historyVars>>

Click == \/ ClickRun \/ ClickStop \/ ClickMenuStop \/ ClickDisconnect \/ ClickSetting
         \/ ClickSingle \/ ClickConnect \/ ClickClose
         \/ \E c \in Channels : ClickChannel(c)

\* The rest of a handler the UI thread has begun
UiWork ==
  \/ StopAcquisition("ui") \/ StartAcquisition \/ UiPostsChannel \/ UiSetsChannel
  \/ UiPostsSetting \/ UiStopsScope \/ UiDisconnects \/ UiExits \/ UiQuits
  \/ UiConnectDone

-----------------------------------------------------------------------------
(* Web commands, run one after the other by the HTTP server's command thread *)

WebIdle == pc["web"] = "idle" /\ MayPost

WebChannel(c) ==
  /\ WebIdle
  /\ PostChannel(c)
  /\ UNCHANGED <<threadVars, procVars, callVars, connPc, scopeVars>>

WebPosts(cmd) ==
  /\ WebIdle /\ cmd.op \in Posted
  /\ queue' = Append(queue, cmd)
  /\ UNCHANGED <<threadVars, procVars, callVars, connPc, scopeVars, historyVars>>

WebStop ==
  /\ WebIdle
  /\ Goto("web", "stop")
  /\ UNCHANGED <<threadVars, queue, procVars, call, connPc, scopeVars,
                 historyVars>>

WebCommand == \/ \E c \in Channels : WebChannel(c)
              \/ \E cmd \in {RunCmd, SingleCmd} : WebPosts(cmd)
              \/ WebStop

WebWork == StopAcquisition("web")

-----------------------------------------------------------------------------
(* CTds520AApp::ConnectScope on the thread OnScopeConnect starts *)

\* Connect: locks m_mutex, closes any device and opens the chosen one
ConnectOpens ==
  /\ connPc = "connect" /\ lock = "free"
  /\ \/ open' = TRUE /\ lock' = "conn" /\ connPc' = "ident"
     \/ open' = FALSE /\ connPc' = "done" /\ UNCHANGED lock
  /\ UNCHANGED <<threadVars, queue, procVars, callVars, channel, historyVars>>

\* A failure here is reported to the user, yet leaves the device open
ConnectIdentifies ==
  /\ connPc = "ident"
  /\ lock' = "free"
  /\ connPc' \in {"sync", "done"}
  /\ UNCHANGED <<threadVars, queue, procVars, callVars, open, channel, historyVars>>

\* SyncSettingsFromScope: two queries
ConnectSyncs ==
  /\ connPc = "sync"
  /\ connPc' = "done"
  /\ UNCHANGED <<threadVars, queue, procVars, callVars, scopeVars, historyVars>>

ConnectWork == ConnectOpens \/ ConnectIdentifies \/ ConnectSyncs

-----------------------------------------------------------------------------
Next == ThreadProc \/ UiWork \/ WebWork \/ ConnectWork \/ Click \/ WebCommand

\* A running thread keeps running: its GPIB calls end by the driver's timeout
\* and its sleeps are finite.  The callback need not return: a send that somebody
\* else is in has no timeout.  Nobody has to click or to send a command.
Fairness == WF_vars(ThreadProc /\ acqPc # "callback") /\ WF_vars(UiWork)
            /\ WF_vars(WebWork) /\ WF_vars(ConnectWork)

Spec == Init /\ [][Next]_vars
FairSpec == Spec /\ Fairness

-----------------------------------------------------------------------------
(* The service all this implements: of the posted commands, those in the snapshot
   are the older ones *)

States == {"Stopped", "Running", "Stopping", "Error"}

Service == INSTANCE CommandService WITH pending <- local \o queue

-----------------------------------------------------------------------------
(* Properties *)

CallPcs == {"idle", "stop", "stopState", "wait", "poll", "join", "rejoin", "dead"}
UiPcs == CallPcs \cup {"run", "post", "start", "startReset", "startSeed", "startState",
                       "startThread", "postChannel", "setChannel", "postSetting",
                       "scopeStop", "disconnect", "exit", "exitScope", "quit", "closed"}
ProcPcs == {"off", "top", "drain", "exec", "setting", "fetch", "callback", "failed", "reconnect",
            "reSleep", "reIdent", "reStart", "giveUp", "giveUp2", "exit", "dead"}

\* Every variable keeps its type.
TypeOK ==
  /\ state \in States
  /\ stopRequest \in BOOLEAN /\ joinable \in BOOLEAN /\ errors \in 0 .. MaxErrors
  /\ queue \in Seq(Commands) /\ local \in Seq(Commands)
  /\ acqPc \in ProcPcs
  /\ pc \in [Callers -> UiPcs] /\ pc["web"] \in CallPcs
  /\ call \in [then : {"idle", "post", "scopeStop", "disconnect", "exit", "exitScope", "quit"},
               ch : Channels]
  /\ connPc \in {"idle", "connect", "ident", "sync", "done", "dead"}
  /\ open \in BOOLEAN /\ lock \in {"free", "acq", "conn"}
  /\ channel \in Channels /\ wanted \in Channels /\ decided \in Channels
  /\ overruled \in {"no", "seed", "reconnect", "older"} /\ unsure \in BOOLEAN

\* OnScopeStop, DisconnectScope and ExitInstance use the instrument from the UI thread after
\* StopAcquisition, and after ExitInstance the objects are destroyed: no acquisition
\* thread may be left by then, whatever the timeout of WaitForStop, the web thread
\* and a reconnect in progress did.
StoppedBeforeUiUsesBus ==
  pc["ui"] \in {"scopeStop", "disconnect", "quit", "closed"} => acqPc = "off"

\* PostCommand, DrainCommandQueue and Start's seed implement the service: of what
\* three threads post, nothing is lost, repeated or overtaken, although the queue is
\* emptied in batches, and none is carried out while Stopped
\* (Threads/AcquisitionThread.cpp:124).
CommandSpec == Service!Spec

\* Frames come from the channel a user asked for last, once no channel command
\* waits and unless the last one failed (Threads/AcquisitionThread.cpp:126).  Three
\* things overrule a user, and then the channel is exactly theirs: Start's seed,
\* when it is not that channel; a reconnect, which takes CH1; and an older request
\* that waited while the window set the channel itself.
ChannelSettled == ~ChannelWaits /\ ~unsure

FramesFromWantedChannel ==
  ChannelSettled => /\ channel = decided
                    /\ overruled = "no" => channel = wanted
                    /\ overruled = "reconnect" => channel = ReconnectChannel

\* OnBtnRun says StartAcquisition handles a thread that is running and one that
\* was stopped (ScopeControlPanel.cpp:156): with the scope connected, Start is
\* never called in a state it refuses.
RunStartsThread == pc["ui"] = "start" /\ open => state = "Stopped"

\* StartAcquisition will "Stop any existing thread before starting a new one"
\* (TDS520AApp.cpp:116): m_thread is never assigned over a thread not joined.
OldThreadJoined == pc["ui"] = "startThread" => ~joinable

\* SyncSettingsFromScope runs where "GPIB is free" (TDS520AApp.cpp:173): the
\* acquisition thread must not be in a GPIB call meanwhile.
AcqInGpibCall == \/ acqPc \in {"fetch", "reIdent", "reStart"}
                 \/ acqPc = "exec" /\ local # << >>

BusFreeDuringSync == connPc = "sync" => ~AcqInGpibCall

\* The thread is for ever in the callback
CallbackHangs == [](acqPc = "callback")

\* A stop request ends the thread, also in the middle of a reconnect, unless a
\* Start has withdrawn it or the callback never returns.
StopRequestHonoured ==
  stopRequest ~> (acqPc \in {"off", "dead"} \/ ~stopRequest \/ CallbackHangs)

\* A handler of the UI thread always returns, unless the callback never does: nothing
\* else lets the unbounded join() in WaitForStop hang the window.
UiReturns ==
  pc["ui"] # "idle" ~> (pc["ui"] \in {"idle", "closed", "dead"} \/ CallbackHangs)
=============================================================================
