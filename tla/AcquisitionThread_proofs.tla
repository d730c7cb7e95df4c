---------------------- MODULE AcquisitionThread_proofs ----------------------
(***************************************************************************)
(* Proofs about the acquisition thread's life, for every set of channels,  *)
(* every error limit and any number of queued commands.                    *)
(***************************************************************************)
EXTENDS AcquisitionThread, SequenceTheorems, TLAPS

USE ChannelAssumption, MaxErrorsAssumption

-----------------------------------------------------------------------------
(* Types *)

LEMMA CommandTypes ==
  /\ \A c \in Channels : SetChannelCmd(c) \in Commands
  /\ RunCmd \in Commands /\ SingleCmd \in Commands /\ SettingCmd \in Commands
  /\ \A cmd \in Commands : cmd.op = "channel" => cmd.ch \in Channels
BY DEF Commands, SetChannelCmd, RunCmd, SingleCmd, SettingCmd

LEMMA TypeInit == Init => TypeOK
<1> SUFFICES ASSUME Init PROVE TypeOK
  OBVIOUS
<1>1. queue \in Seq(Commands) /\ local \in Seq(Commands)
  BY EmptySeq DEF Init
<1>2. /\ stopRequest \in BOOLEAN /\ joinable \in BOOLEAN /\ open \in BOOLEAN
      /\ unsure \in BOOLEAN
  BY DEF Init
<1>3. pc \in [Callers -> UiPcs] /\ pc["web"] \in CallPcs
  BY DEF Init, Callers, CallPcs, UiPcs
<1>4. /\ call \in [then : {"idle", "post", "scopeStop", "disconnect", "exit", "exitScope",
                           "quit"},
                   ch : Channels]
      /\ channel \in Channels /\ wanted \in Channels /\ errors \in 0 .. MaxErrors
      /\ decided \in Channels /\ overruled \in {"no", "seed", "reconnect", "older"}
  BY DEF Init, NoCall
<1> QED BY <1>1, <1>2, <1>3, <1>4 DEF Init, TypeOK, States, ProcPcs

\* Queue operations stay in Seq(Commands).
LEMMA QueueTypes ==
  ASSUME NEW s \in Seq(Commands)
  PROVE  /\ \A cmd \in Commands : Append(s, cmd) \in Seq(Commands)
         /\ s # << >> => Head(s) \in Commands /\ Tail(s) \in Seq(Commands)
         /\ << >> \in Seq(Commands)
BY AppendProperties, HeadTailProperties, EmptySeq

LEMMA ProcTypes ==
  ASSUME TypeOK, ThreadProc
  PROVE  TypeOK'
<1> USE DEF TypeOK, States, ProcPcs, callVars, scopeVars, historyVars, threadVars, procVars
<1>1. ASSUME ProcTop PROVE TypeOK'
  BY <1>1 DEF ProcTop
<1>2. ASSUME DrainSwap PROVE TypeOK'
  BY <1>2, QueueTypes DEF DrainSwap
<1>3. ASSUME ExecChannel PROVE TypeOK'
  <2>1. local' \in Seq(Commands) /\ Head(local).ch \in Channels
    BY <1>3, QueueTypes, CommandTypes DEF ExecChannel
  <2>2. channel' \in Channels /\ errors' \in 0 .. MaxErrors
    BY <1>3, <2>1 DEF ExecChannel, CountError
  <2>3. unsure' \in BOOLEAN
    BY <1>3 DEF ExecChannel
  <2> QED BY <1>3, <2>1, <2>2, <2>3 DEF ExecChannel
<1>4. ASSUME ExecSingle PROVE TypeOK'
  BY <1>4, QueueTypes DEF ExecSingle, CountError
<1>5. ASSUME ExecRun PROVE TypeOK'
  BY <1>5, QueueTypes DEF ExecRun
<1>6. ASSUME ExecSetting PROVE TypeOK'
  BY <1>6, QueueTypes DEF ExecSetting
<1>7. ASSUME DrainDone PROVE TypeOK'
  BY <1>7 DEF DrainDone
<1>8. ASSUME FetchOk \/ CallbackReturns PROVE TypeOK'
  BY <1>8 DEF FetchOk, CallbackReturns
<1>9. ASSUME FetchFails PROVE TypeOK'
  BY <1>9 DEF FetchFails, CountError
<1>10. ASSUME AfterFailure PROVE TypeOK'
  BY <1>10 DEF AfterFailure
<1>11. ASSUME ReconnectCloses PROVE TypeOK'
  <2>1. errors' \in 0 .. MaxErrors
    BY <1>11 DEF ReconnectCloses
  <2>2. open' \in BOOLEAN
    BY <1>11 DEF ReconnectCloses
  <2> QED BY <1>11, <2>1, <2>2 DEF ReconnectCloses
<1>12. ASSUME ReconnectOpens PROVE TypeOK'
  <2>1. open' \in BOOLEAN /\ lock' \in {"free", "acq", "conn"}
    BY <1>12 DEF ReconnectOpens
  <2> QED BY <1>12, <2>1 DEF ReconnectOpens
<1>13. ASSUME ReconnectIdentifies PROVE TypeOK'
  BY <1>13 DEF ReconnectIdentifies
<1>14. ASSUME ReconnectResumes PROVE TypeOK'
  BY <1>14, QueueTypes, CommandTypes DEF ReconnectResumes, Decides
<1>15. ASSUME GiveUpState PROVE TypeOK'
  BY <1>15 DEF GiveUpState
<1>16. ASSUME GiveUpRequest PROVE TypeOK'
  BY <1>16 DEF GiveUpRequest
<1>17. ASSUME ProcExit PROVE TypeOK'
  BY <1>17 DEF ProcExit
<1>18. ASSUME SettingLocks PROVE TypeOK'
  BY <1>18 DEF SettingLocks
<1> QED BY <1>1, <1>2, <1>3, <1>4, <1>5, <1>6, <1>7, <1>8, <1>9, <1>10, <1>11, <1>12,
           <1>13, <1>14, <1>15, <1>16, <1>17, <1>18 DEF ThreadProc

LEMMA StopTypes ==
  ASSUME TypeOK, NEW t \in Callers, StopAcquisition(t)
  PROVE  TypeOK'
<1> USE DEF TypeOK, States, Callers, CallPcs, UiPcs, callVars, scopeVars, historyVars, threadVars,
            procVars,
            Goto, UiGoto, UiDone, NoCall, PostChannel, Continue
<1>1. ASSUME StopRequests(t) PROVE TypeOK'
  BY <1>1 DEF StopRequests
<1>2. ASSUME StopSetsState(t) PROVE TypeOK'
  BY <1>2 DEF StopSetsState
<1>3. ASSUME WaitFindsNoThread(t) PROVE TypeOK'
  BY <1>3 DEF WaitFindsNoThread
<1>4. ASSUME WaitBegins(t) PROVE TypeOK'
  BY <1>4 DEF WaitBegins
<1>5. ASSUME PollEnds(t) PROVE TypeOK'
  BY <1>5 DEF PollEnds
<1>6. ASSUME Join(t) PROVE TypeOK'
  <2>1. pc' \in [Callers -> UiPcs] /\ pc'["web"] \in CallPcs
    BY <1>6 DEF Join
  <2>2. joinable' \in BOOLEAN
    BY <1>6 DEF Join
  <2> QED BY <1>6, <2>1, <2>2 DEF Join
<1>7. ASSUME JoinThrows(t) PROVE TypeOK'
  BY <1>7 DEF JoinThrows, Terminate, ProcPcs
<1> QED BY <1>1, <1>2, <1>3, <1>4, <1>5, <1>6, <1>7 DEF StopAcquisition

LEMMA StartTypes ==
  ASSUME TypeOK, StartAcquisition
  PROVE  TypeOK'
<1> USE DEF TypeOK, States, Callers, CallPcs, UiPcs, callVars, scopeVars, historyVars, threadVars,
            procVars,
            Goto, UiGoto, UiDone, NoCall, PostChannel
<1>1. ASSUME RunChecksState PROVE TypeOK'
  BY <1>1 DEF RunChecksState
<1>2. ASSUME RunPosts PROVE TypeOK'
  BY <1>2, QueueTypes, CommandTypes DEF RunPosts
<1>3. ASSUME StartRefused PROVE TypeOK'
  BY <1>3 DEF StartRefused
<1>4. ASSUME StartAccepted PROVE TypeOK'
  BY <1>4 DEF StartAccepted
<1>5. ASSUME StartResets PROVE TypeOK'
  <2>1. errors' \in 0 .. MaxErrors
    BY <1>5 DEF StartResets
  <2>2. stopRequest' \in BOOLEAN
    BY <1>5 DEF StartResets
  <2> QED BY <1>5, <2>1, <2>2 DEF StartResets
<1>6. ASSUME StartSeeds PROVE TypeOK'
  <2>1. queue' \in Seq(Commands) /\ wanted' \in Channels
    BY <1>6, QueueTypes, CommandTypes DEF StartSeeds
  <2>2. decided' \in Channels /\ overruled' \in {"no", "seed", "reconnect", "older"}
    BY <1>6 DEF StartSeeds, Decides
  <2> QED BY <1>6, <2>1, <2>2 DEF StartSeeds
<1>7. ASSUME StartSetsState PROVE TypeOK'
  BY <1>7 DEF StartSetsState
<1>8. ASSUME StartLaunches PROVE TypeOK'
  <2>1. joinable' \in BOOLEAN
    BY <1>8 DEF StartLaunches
  <2>2. /\ pc' \in [Callers -> UiPcs] /\ pc'["web"] \in CallPcs
        /\ acqPc' \in ProcPcs
        /\ connPc' \in {"idle", "connect", "ident", "sync", "done", "dead"}
        /\ call' \in [then : {"idle", "post", "scopeStop", "disconnect", "exit", "exitScope",
                              "quit"},
                   ch : Channels]
    <3>1. CASE joinable
      BY <1>8, <3>1 DEF StartLaunches, Terminate, ProcPcs
    <3>2. CASE ~joinable
      BY <1>8, <3>2 DEF StartLaunches, ProcPcs
    <3> QED BY <3>1, <3>2
  <2> QED BY <1>8, <2>1, <2>2 DEF StartLaunches
<1> QED BY <1>1, <1>2, <1>3, <1>4, <1>5, <1>6, <1>7, <1>8 DEF StartAcquisition

LEMMA ClickTypes ==
  ASSUME TypeOK, Click
  PROVE  TypeOK'
<1> USE DEF TypeOK, States, Callers, CallPcs, UiPcs, callVars, scopeVars, historyVars, threadVars,
            procVars,
            Goto, UiGoto, UiDone, NoCall, PostChannel
<1>1. ASSUME ClickRun PROVE TypeOK'
  BY <1>1 DEF ClickRun, UiIdle
<1>2. ASSUME ClickStop PROVE TypeOK'
  BY <1>2 DEF ClickStop, UiIdle
<1>3. ASSUME ClickMenuStop PROVE TypeOK'
  BY <1>3 DEF ClickMenuStop, UiIdle
<1>4. ASSUME ClickDisconnect PROVE TypeOK'
  BY <1>4 DEF ClickDisconnect, UiIdle
<1>5. ASSUME ClickSetting PROVE TypeOK'
  BY <1>5 DEF ClickSetting, UiIdle
<1>6. ASSUME ClickSingle PROVE TypeOK'
  BY <1>6, QueueTypes, CommandTypes DEF ClickSingle, UiIdle
<1>7. ASSUME ClickConnect PROVE TypeOK'
  BY <1>7 DEF ClickConnect, UiIdle
<1>8. ASSUME NEW c \in Channels, ClickChannel(c) PROVE TypeOK'
  BY <1>8 DEF ClickChannel, UiIdle
<1>9. ASSUME ClickClose PROVE TypeOK'
  BY <1>9 DEF ClickClose, UiIdle
<1> QED BY <1>1, <1>2, <1>3, <1>4, <1>5, <1>6, <1>7, <1>8, <1>9 DEF Click

LEMMA UiClosesTypes ==
  ASSUME TypeOK, UiDisconnects \/ UiQuits
  PROVE  TypeOK'
<1>1. pc["ui"] \in {"disconnect", "quit"} /\ open' = FALSE /\ call' = NoCall
  BY DEF UiDisconnects, UiQuits, UiDone
<1>2. \E next \in {"idle", "closed"} : pc' = [pc EXCEPT !["ui"] = next]
  BY DEF UiDisconnects, UiQuits, UiDone, UiGoto, Goto
<1>3. pc' \in [Callers -> UiPcs] /\ pc'["web"] = pc["web"]
  <2>1. pc \in [Callers -> UiPcs]
    BY DEF TypeOK
  <2>2. "idle" \in UiPcs /\ "closed" \in UiPcs
    BY DEF UiPcs, CallPcs
  <2> QED BY <1>2, <2>1, <2>2 DEF Callers
<1>4. call' \in [then : {"idle", "post", "scopeStop", "disconnect", "exit", "exitScope",
                         "quit"},
                 ch : Channels]
  BY <1>1, ChannelAssumption DEF NoCall
<1>5. UNCHANGED <<state, stopRequest, joinable, errors, queue, local, acqPc>>
  BY DEF UiDisconnects, UiQuits, threadVars, procVars
<1>6. UNCHANGED <<connPc, lock, channel, wanted, decided, overruled, unsure>>
  BY DEF UiDisconnects, UiQuits, historyVars
<1> QED BY <1>1, <1>3, <1>4, <1>5, <1>6 DEF TypeOK

LEMMA UiTypes ==
  ASSUME TypeOK, UiWork
  PROVE  TypeOK'
<1> USE DEF TypeOK, States, Callers, CallPcs, UiPcs, callVars, scopeVars, historyVars, threadVars,
            procVars,
            Goto, UiGoto, UiDone, NoCall, PostChannel
<1>1. ASSUME StopAcquisition("ui") PROVE TypeOK'
  BY <1>1, StopTypes DEF Callers
<1>2. ASSUME StartAcquisition PROVE TypeOK'
  BY <1>2, StartTypes DEF Callers
<1>3. ASSUME UiPostsChannel PROVE TypeOK'
  <2>1. queue' \in Seq(Commands) /\ wanted' \in Channels
    BY <1>3, QueueTypes, CommandTypes DEF UiPostsChannel
  <2>2. decided' \in Channels /\ overruled' \in {"no", "seed", "reconnect", "older"}
    BY <1>3 DEF UiPostsChannel, Decides
  <2> QED BY <1>3, <2>1, <2>2 DEF UiPostsChannel
<1>4. ASSUME UiSetsChannel PROVE TypeOK'
  <2>1. channel' \in Channels /\ wanted' \in Channels
    BY <1>4 DEF UiSetsChannel
  <2>2. decided' \in Channels /\ overruled' \in {"no", "seed", "reconnect", "older"}
    BY <1>4 DEF UiSetsChannel, Decides
  <2>3. unsure' \in BOOLEAN
    BY <1>4 DEF UiSetsChannel
  <2> QED BY <1>4, <2>1, <2>2, <2>3 DEF UiSetsChannel
<1>5. ASSUME UiPostsSetting PROVE TypeOK'
  BY <1>5, QueueTypes, CommandTypes DEF UiPostsSetting
<1>6. ASSUME UiStopsScope PROVE TypeOK'
  BY <1>6 DEF UiStopsScope
<1>7. ASSUME UiDisconnects PROVE TypeOK'
  BY <1>7, UiClosesTypes
<1>8. ASSUME UiConnectDone PROVE TypeOK'
  BY <1>8 DEF UiConnectDone
<1>9. ASSUME UiExits PROVE TypeOK'
  BY <1>9 DEF UiExits
<1>10. ASSUME UiQuits PROVE TypeOK'
  BY <1>10, UiClosesTypes
<1> QED BY <1>1, <1>2, <1>3, <1>4, <1>5, <1>6, <1>7, <1>8, <1>9, <1>10 DEF UiWork

LEMMA WebTypes ==
  ASSUME TypeOK, WebWork \/ WebCommand
  PROVE  TypeOK'
<1> USE DEF TypeOK, States, Callers, CallPcs, UiPcs, callVars, scopeVars, historyVars, threadVars,
            procVars,
            Goto, UiGoto, UiDone, NoCall, PostChannel
<1>1. ASSUME WebWork PROVE TypeOK'
  BY <1>1, StopTypes DEF WebWork, Callers
<1>2. ASSUME NEW c \in Channels, WebChannel(c) PROVE TypeOK'
  <2>1. queue' \in Seq(Commands) /\ wanted' \in Channels
    BY <1>2, QueueTypes, CommandTypes DEF WebChannel
  <2>2. decided' \in Channels /\ overruled' \in {"no", "seed", "reconnect", "older"}
    BY <1>2 DEF WebChannel, Decides
  <2> QED BY <1>2, <2>1, <2>2 DEF WebChannel
<1>3. ASSUME NEW cmd \in {RunCmd, SingleCmd}, WebPosts(cmd) PROVE TypeOK'
  BY <1>3, QueueTypes, CommandTypes DEF WebPosts
<1>4. ASSUME WebStop PROVE TypeOK'
  BY <1>4 DEF WebStop, WebIdle
<1> QED BY <1>1, <1>2, <1>3, <1>4 DEF WebCommand

LEMMA ConnectTypes ==
  ASSUME TypeOK, ConnectWork
  PROVE  TypeOK'
<1> USE DEF TypeOK, States, Callers, CallPcs, UiPcs, callVars, scopeVars, historyVars, threadVars,
            procVars,
            Goto, UiGoto, UiDone, NoCall, PostChannel
<1>1. ASSUME ConnectOpens PROVE TypeOK'
  <2>1. open' \in BOOLEAN
    BY <1>1 DEF ConnectOpens
  <2> QED BY <1>1, <2>1 DEF ConnectOpens
<1>2. ASSUME ConnectIdentifies PROVE TypeOK'
  BY <1>2 DEF ConnectIdentifies
<1>3. ASSUME ConnectSyncs PROVE TypeOK'
  BY <1>3 DEF ConnectSyncs
<1> QED BY <1>1, <1>2, <1>3 DEF ConnectWork

LEMMA TypeStep == TypeOK /\ [Next]_vars => TypeOK'
<1>1. TypeOK /\ UNCHANGED vars => TypeOK'
  BY DEF TypeOK, vars
<1> QED BY <1>1, ProcTypes, UiTypes, WebTypes, ConnectTypes, ClickTypes DEF Next

\* Every variable of the acquisition thread's model keeps its type.
THEOREM TypeCorrect == Spec => []TypeOK
BY TypeInit, TypeStep, PTL DEF Spec
-----------------------------------------------------------------------------
(* The UI thread has the instrument to itself after StopAcquisition *)

\* A running thread can always be joined, and the process ends as a whole.
ThreadHeld ==
  /\ acqPc \notin {"off", "dead"} => joinable
  /\ acqPc = "dead" => \A t \in Callers : pc[t] = "dead"

HandedOver == ThreadHeld /\ StoppedBeforeUiUsesBus

\* A step of ThreadProc is one of a live thread and moves nobody else.
LEMMA ProcFrame ==
  ASSUME ThreadProc
  PROVE  /\ acqPc \notin {"off", "dead"} /\ acqPc' # "dead"
         /\ joinable' = joinable /\ pc' = pc
BY DEF ThreadProc, threadVars, callVars, procVars, ProcTop, DrainSwap, ExecChannel,
       ExecSingle, ExecRun, ExecSetting, SettingLocks,
         DrainDone, FetchOk, CallbackReturns,
         FetchFails, AfterFailure, ReconnectCloses, ReconnectOpens, ReconnectIdentifies,
         ReconnectResumes, GiveUpState, GiveUpRequest, ProcExit

LEMMA ProcHandedOver ==
  ASSUME HandedOver, ThreadProc
  PROVE  HandedOver'
BY ProcFrame DEF HandedOver, ThreadHeld, StoppedBeforeUiUsesBus

\* Only Join and StartLaunches touch m_thread; the others leave it alone and move
\* the UI thread to a place where it does not use the instrument.
LEMMA QuietStep ==
  ASSUME HandedOver, TypeOK,
         acqPc' = acqPc, joinable' = joinable,
         NEW t \in Callers, NEW where,
         pc[t] # "dead", pc' = [pc EXCEPT ![t] = where],
         t = "ui" => where \notin {"scopeStop", "disconnect", "quit", "closed"}
  PROVE  HandedOver'
BY DEF HandedOver, ThreadHeld, StoppedBeforeUiUsesBus, TypeOK, Callers

LEMMA StopHandedOver ==
  ASSUME HandedOver, TypeOK, NEW t \in Callers, StopAcquisition(t)
  PROVE  HandedOver'
<1> USE DEF threadVars, procVars, Goto
<1>1. CASE StopRequests(t)
  <2>1. acqPc' = acqPc /\ joinable' = joinable /\ pc[t] # "dead"
        /\ pc' = [pc EXCEPT ![t] = "stopState"]
    BY <1>1 DEF StopRequests
  <2> QED BY <2>1, QuietStep
<1>2. CASE StopSetsState(t)
  <2>1. acqPc' = acqPc /\ joinable' = joinable /\ pc[t] # "dead"
        /\ pc' = [pc EXCEPT ![t] = "wait"]
    BY <1>2 DEF StopSetsState
  <2> QED BY <2>1, QuietStep
<1>3. CASE WaitFindsNoThread(t)
  \* No thread to join, and the process is alive: the thread is off.
  <2>1. acqPc = "off"
    BY <1>3 DEF WaitFindsNoThread, HandedOver, ThreadHeld
  <2>2. acqPc' = acqPc /\ joinable' = joinable
    BY <1>3 DEF WaitFindsNoThread
  <2> QED BY <2>1, <2>2 DEF HandedOver, ThreadHeld, StoppedBeforeUiUsesBus
<1>4. CASE WaitBegins(t)
  <2>1. acqPc' = acqPc /\ joinable' = joinable /\ pc[t] # "dead"
        /\ pc' = [pc EXCEPT ![t] = "poll"]
    BY <1>4 DEF WaitBegins
  <2> QED BY <2>1, QuietStep
<1>5. CASE PollEnds(t)
  <2>1. acqPc' = acqPc /\ joinable' = joinable /\ pc[t] # "dead"
        /\ pc' = [pc EXCEPT ![t] = "join"]
    BY <1>5 DEF PollEnds
  <2> QED BY <2>1, QuietStep
<1>6. CASE Join(t)
  BY <1>6 DEF Join, HandedOver, ThreadHeld, StoppedBeforeUiUsesBus
<1>7. CASE JoinThrows(t)
  BY <1>7 DEF JoinThrows, Terminate, HandedOver, ThreadHeld, StoppedBeforeUiUsesBus, Callers
<1> QED BY <1>1, <1>2, <1>3, <1>4, <1>5, <1>6, <1>7 DEF StopAcquisition

LEMMA StartHandedOver ==
  ASSUME HandedOver, TypeOK, StartAcquisition
  PROVE  HandedOver'
<1>1. CASE StartLaunches
  <2>1. CASE joinable
    BY <1>1, <2>1 DEF StartLaunches, Terminate, HandedOver, ThreadHeld,
                      StoppedBeforeUiUsesBus, Callers
  <2>2. CASE ~joinable
    BY <1>1, <2>2 DEF StartLaunches, UiDone, UiGoto, Goto, HandedOver, ThreadHeld,
                      StoppedBeforeUiUsesBus, Callers, TypeOK
  <2> QED BY <2>1, <2>2
<1>2. CASE ~StartLaunches
  <2>1. /\ acqPc' = acqPc /\ joinable' = joinable /\ pc["ui"] # "dead"
        /\ \E where \in UiPcs \ {"scopeStop", "disconnect", "quit", "closed"} :
              pc' = [pc EXCEPT !["ui"] = where]
    BY <1>2 DEF StartAcquisition, RunChecksState, RunPosts, StartRefused, StartAccepted,
                StartResets, StartSeeds, StartSetsState,
                UiDone, UiGoto, Goto, threadVars, procVars, UiPcs, CallPcs
  <2> QED BY <2>1, QuietStep DEF Callers
<1> QED BY <1>1, <1>2

LEMMA UiHandedOver ==
  ASSUME HandedOver, TypeOK, UiWork
  PROVE  HandedOver'
<1>1. CASE StopAcquisition("ui")
  BY <1>1, StopHandedOver DEF Callers
<1>2. CASE StartAcquisition
  BY <1>2, StartHandedOver
<1>3. CASE \/ UiPostsChannel \/ UiSetsChannel \/ UiPostsSetting \/ UiStopsScope
           \/ UiDisconnects \/ UiExits
  <2>1. /\ acqPc' = acqPc /\ joinable' = joinable /\ pc["ui"] # "dead"
        /\ \E where \in {"idle", "stop"} : pc' = [pc EXCEPT !["ui"] = where]
    BY <1>3 DEF UiPostsChannel, UiSetsChannel, UiPostsSetting, UiStopsScope, UiDisconnects,
                UiExits, UiDone, UiGoto, Goto, threadVars, procVars
  <2> QED BY <2>1, QuietStep DEF Callers
<1>5. CASE UiQuits
  <2>1. /\ acqPc' = acqPc /\ joinable' = joinable /\ acqPc = "off"
        /\ pc' = [pc EXCEPT !["ui"] = "closed"]
    BY <1>5 DEF UiQuits, UiGoto, Goto, threadVars, procVars, HandedOver,
                StoppedBeforeUiUsesBus
  <2> QED BY <2>1 DEF HandedOver, ThreadHeld, StoppedBeforeUiUsesBus
<1>4. CASE UiConnectDone
  BY <1>4 DEF UiConnectDone, HandedOver, ThreadHeld, StoppedBeforeUiUsesBus,
              threadVars, procVars, callVars
<1> QED BY <1>1, <1>2, <1>3, <1>4, <1>5 DEF UiWork

LEMMA ClickHandedOver ==
  ASSUME HandedOver, TypeOK, Click
  PROVE  HandedOver'
<1>1. CASE ClickSingle \/ ClickConnect
  BY <1>1 DEF ClickSingle, ClickConnect, HandedOver, ThreadHeld, StoppedBeforeUiUsesBus,
              threadVars, procVars, callVars
<1>2. CASE ~(ClickSingle \/ ClickConnect)
  <2>1. /\ acqPc' = acqPc /\ joinable' = joinable /\ pc["ui"] # "dead"
        /\ \E where \in UiPcs \ {"scopeStop", "disconnect", "quit", "closed"} :
              pc' = [pc EXCEPT !["ui"] = where]
    BY <1>2 DEF Click, ClickRun, ClickStop, ClickMenuStop, ClickDisconnect, ClickSetting,
                ClickClose, ClickChannel, UiIdle, UiGoto, Goto, threadVars, procVars, UiPcs, CallPcs
  <2> QED BY <2>1, QuietStep DEF Callers
<1> QED BY <1>1, <1>2

LEMMA WebHandedOver ==
  ASSUME HandedOver, TypeOK, WebWork \/ WebCommand
  PROVE  HandedOver'
<1>1. CASE WebWork
  BY <1>1, StopHandedOver DEF WebWork, Callers
<1>2. CASE WebStop
  <2>1. /\ acqPc' = acqPc /\ joinable' = joinable /\ pc["web"] # "dead"
        /\ pc' = [pc EXCEPT !["web"] = "stop"]
    BY <1>2 DEF WebStop, WebIdle, Goto, threadVars, procVars
  <2> QED BY <2>1, QuietStep DEF Callers
<1>3. CASE \/ \E c \in Channels : WebChannel(c)
           \/ \E cmd \in {RunCmd, SingleCmd} : WebPosts(cmd)
  BY <1>3 DEF WebChannel, WebPosts, HandedOver, ThreadHeld, StoppedBeforeUiUsesBus,
              threadVars, procVars, callVars
<1> QED BY <1>1, <1>2, <1>3 DEF WebCommand

LEMMA ConnectHandedOver ==
  ASSUME HandedOver, ConnectWork
  PROVE  HandedOver'
BY DEF ConnectWork, ConnectOpens, ConnectIdentifies, ConnectSyncs, HandedOver, ThreadHeld,
       StoppedBeforeUiUsesBus, threadVars, procVars, callVars

LEMMA HandedOverStep == HandedOver /\ TypeOK /\ [Next]_vars => HandedOver'
<1>1. HandedOver /\ UNCHANGED vars => HandedOver'
  BY DEF HandedOver, ThreadHeld, StoppedBeforeUiUsesBus, vars
<1> QED BY <1>1, ProcHandedOver, UiHandedOver, WebHandedOver, ConnectHandedOver,
           ClickHandedOver DEF Next

\* When the UI thread uses the instrument after StopAcquisition, no acquisition
\* thread runs, and none is left when the window is closed: holds for any number of
\* stops by the UI and the web at once.
THEOREM StopIsComplete == Spec => []StoppedBeforeUiUsesBus
<1>1. Init => HandedOver
  BY DEF Init, HandedOver, ThreadHeld, StoppedBeforeUiUsesBus, Callers
<1>2. HandedOver => StoppedBeforeUiUsesBus
  BY DEF HandedOver
<1> QED BY <1>1, <1>2, HandedOverStep, TypeCorrect, PTL DEF Spec
-----------------------------------------------------------------------------
(* Frames come from the channel last asked for *)

Silent(s) == \A i \in DOMAIN s : s[i].op # "channel"

\* The last channel command of s asks for c.
Asks(s, c) ==
  \E i \in DOMAIN s : /\ s[i] = SetChannelCmd(c)
                      /\ \A j \in DOMAIN s : j > i => s[j].op # "channel"

\* The commands still to be executed lead to the channel decided.
LeadsToDecided ==
  \/ Asks(queue, decided)
  \/ Silent(queue) /\ Asks(local, decided)
  \/ Silent(queue) /\ Silent(local) /\ (unsure \/ channel = decided)

\* What overrules a user is named.
Ruled == /\ overruled = "no" => decided = wanted
         /\ overruled = "reconnect" => decided = ReconnectChannel

\* Commands are lost only with the whole process.
LocalDrained == acqPc \notin {"exec", "setting", "dead"} => local = << >>

\* The UI thread sets the channel itself only where the state is not Running, and
\* it is the one who would set it to Running.
UiSetsAlone == pc["ui"] = "setChannel" => state # "Running"

ChannelInv == LocalDrained /\ UiSetsAlone /\ LeadsToDecided /\ Ruled

LEMMA AppendFacts ==
  ASSUME NEW s \in Seq(Commands), NEW cmd \in Commands
  PROVE  /\ DOMAIN Append(s, cmd) = 1..Len(s) + 1 /\ DOMAIN s = 1..Len(s)
         /\ Len(s) \in Nat /\ Append(s, cmd)[Len(s) + 1] = cmd
         /\ \A i \in 1..Len(s) : Append(s, cmd)[i] = s[i]
BY AppendProperties, LenProperties

\* A channel command at the end is the last one.
LEMMA AppendChannel ==
  ASSUME NEW s \in Seq(Commands), NEW c \in Channels
  PROVE  Asks(Append(s, SetChannelCmd(c)), c)
<1> DEFINE t == Append(s, SetChannelCmd(c))
<1>1. /\ DOMAIN t = 1..Len(s) + 1 /\ Len(s) \in Nat
      /\ t[Len(s) + 1] = SetChannelCmd(c)
  BY AppendFacts, CommandTypes
<1> HIDE DEF t
<1>2. Len(s) + 1 \in DOMAIN t /\ \A j \in DOMAIN t : ~(j > Len(s) + 1)
  BY <1>1
<1>3. Asks(t, c)
  BY <1>1, <1>2 DEF Asks
<1> QED BY <1>3 DEF t

\* Another command at the end changes nothing.
LEMMA AppendOther ==
  ASSUME NEW s \in Seq(Commands), NEW cmd \in Commands, cmd.op # "channel"
  PROVE  /\ Silent(s) => Silent(Append(s, cmd))
         /\ \A c \in Channels : Asks(s, c) => Asks(Append(s, cmd), c)
<1> DEFINE t == Append(s, cmd)
<1>1. /\ DOMAIN t = 1..Len(s) + 1 /\ DOMAIN s = 1..Len(s) /\ Len(s) \in Nat
      /\ t[Len(s) + 1] = cmd /\ \A i \in 1..Len(s) : t[i] = s[i]
  BY AppendFacts
<1> HIDE DEF t
<1>2. Silent(s) => Silent(t)
  BY <1>1 DEF Silent
<1>3. ASSUME NEW c \in Channels, Asks(s, c) PROVE Asks(t, c)
  <2>1. PICK i \in DOMAIN s : /\ s[i] = SetChannelCmd(c)
                              /\ \A j \in DOMAIN s : j > i => s[j].op # "channel"
    BY <1>3 DEF Asks
  <2>2. i \in DOMAIN t /\ t[i] = SetChannelCmd(c)
    BY <1>1, <2>1
  <2>3. ASSUME NEW j \in DOMAIN t, j > i PROVE t[j].op # "channel"
    BY <1>1, <2>1, <2>3
  <2> QED BY <2>2, <2>3 DEF Asks
<1> QED BY <1>2, <1>3 DEF t

\* Taking the first command: if it is the last channel command, that one is done.
LEMMA TailAsks ==
  ASSUME NEW s \in Seq(Commands), s # << >>
  PROVE  /\ Silent(s) => Silent(Tail(s)) /\ Head(s).op # "channel"
         /\ \A c \in Channels : Asks(s, c) =>
              Asks(Tail(s), c) \/ (Silent(Tail(s)) /\ Head(s) = SetChannelCmd(c))
<1> DEFINE t == Tail(s)
<1>1. /\ Len(s) \in Nat \ {0} /\ DOMAIN s = 1..Len(s) /\ Head(s) = s[1]
      /\ DOMAIN t = 1..Len(s) - 1 /\ \A i \in 1..Len(s) - 1 : t[i] = s[i + 1]
  BY HeadTailProperties, LenProperties, EmptySeq
<1> HIDE DEF t
<1>2. Silent(s) => Silent(t) /\ Head(s).op # "channel"
  BY <1>1 DEF Silent
<1>3. ASSUME NEW c \in Channels, Asks(s, c)
      PROVE  Asks(t, c) \/ (Silent(t) /\ Head(s) = SetChannelCmd(c))
  <2>1. PICK i \in DOMAIN s : /\ s[i] = SetChannelCmd(c)
                              /\ \A j \in DOMAIN s : j > i => s[j].op # "channel"
    BY <1>3 DEF Asks
  <2>2. ASSUME NEW j \in DOMAIN t, j + 1 > i PROVE t[j].op # "channel"
    BY <1>1, <2>1, <2>2
  <2>3. CASE i = 1
    <3>1. Silent(t)
      BY <1>1, <2>2, <2>3 DEF Silent
    <3> QED BY <1>1, <2>1, <2>3, <3>1
  <2>4. CASE i # 1
    <3>1. i - 1 \in DOMAIN t /\ t[i - 1] = SetChannelCmd(c)
      BY <1>1, <2>1, <2>4
    <3>2. \A j \in DOMAIN t : j > i - 1 => t[j].op # "channel"
      BY <1>1, <2>1, <2>2
    <3> QED BY <3>1, <3>2 DEF Asks
  <2> QED BY <2>3, <2>4
<1> QED BY <1>2, <1>3 DEF t

\* Steps that leave commands, channel and history alone, and do not take the UI
\* thread to where it sets the channel.
LEMMA ChannelStays ==
  ASSUME ChannelInv,
         UNCHANGED <<queue, local, channel, historyVars>>,
         acqPc' \notin {"exec", "setting", "dead"}
           => acqPc \notin {"exec", "setting", "dead"} \/ local = << >>,
         pc'["ui"] = "setChannel" => state' # "Running"
  PROVE  ChannelInv'
<1>1. LocalDrained'
  BY DEF ChannelInv, LocalDrained
<1>2. UiSetsAlone'
  BY DEF UiSetsAlone
<1>3. LeadsToDecided' /\ Ruled'
  BY DEF ChannelInv, LeadsToDecided, Ruled, historyVars
<1> QED BY <1>1, <1>2, <1>3 DEF ChannelInv

\* A channel command is posted, by whom ever.
LEMMA ChannelPosted ==
  ASSUME ChannelInv, TypeOK, NEW c \in Channels, NEW by \in {"no", "seed", "reconnect"},
         queue' = Append(queue, SetChannelCmd(c)), Decides(c, by),
         by = "no" => c = wanted',
         by = "reconnect" => c = ReconnectChannel,
         UNCHANGED local,
         acqPc' \notin {"exec", "setting", "dead"} => acqPc \notin {"exec", "setting", "dead"},
         pc'["ui"] = "setChannel" => state' # "Running"
  PROVE  ChannelInv'
<1>1. Asks(queue', decided')
  BY AppendChannel DEF Decides, TypeOK
<1>2. LeadsToDecided' /\ Ruled'
  BY <1>1 DEF LeadsToDecided, Ruled, Decides
<1> QED BY <1>2 DEF ChannelInv, LocalDrained, UiSetsAlone

\* Another command is posted.
LEMMA OtherPosted ==
  ASSUME ChannelInv, TypeOK, NEW cmd \in Commands, cmd.op # "channel",
         queue' = Append(queue, cmd),
         UNCHANGED <<state, local, acqPc, channel, historyVars>>,
         pc'["ui"] = "setChannel" => pc["ui"] = "setChannel"
  PROVE  ChannelInv'
<1>1. LeadsToDecided'
  BY AppendOther DEF ChannelInv, LeadsToDecided, TypeOK, historyVars
<1> QED BY <1>1 DEF ChannelInv, LocalDrained, UiSetsAlone, Ruled, historyVars

\* The thread executes a command.
LEMMA CommandDone ==
  ASSUME ChannelInv, TypeOK, local # << >>, local' = Tail(local),
         acqPc = "exec", acqPc' \in {"exec", "setting"},
         UNCHANGED <<state, pc, queue, wanted, decided, overruled>>,
         \/ Head(local).op # "channel" /\ UNCHANGED <<channel, unsure>>
         \/ Head(local).op = "channel" /\ channel' = Head(local).ch
         \/ unsure' = TRUE
  PROVE  ChannelInv'
<1>1. local \in Seq(Commands) /\ decided \in Channels
  BY DEF TypeOK
<1>2. LeadsToDecided'
  <2>1. CASE Asks(queue, decided)
    BY <2>1 DEF LeadsToDecided
  <2>2. CASE Silent(queue) /\ Asks(local, decided)
    <3>1. CASE Asks(Tail(local), decided)
      BY <2>2, <3>1 DEF LeadsToDecided
    <3>2. CASE Silent(Tail(local)) /\ Head(local) = SetChannelCmd(decided)
      <4>1. unsure' = TRUE \/ channel' = decided
        BY <3>2 DEF SetChannelCmd
      <4> QED BY <2>2, <3>2, <4>1 DEF LeadsToDecided
    <3> QED BY <1>1, <2>2, <3>1, <3>2, TailAsks
  <2>3. CASE Silent(queue) /\ Silent(local) /\ (unsure \/ channel = decided)
    <3>1. Silent(Tail(local)) /\ Head(local).op # "channel"
      BY <1>1, <2>3, TailAsks
    <3> QED BY <2>3, <3>1 DEF LeadsToDecided
  <2> QED BY <2>1, <2>2, <2>3 DEF ChannelInv, LeadsToDecided
<1> QED BY <1>2 DEF ChannelInv, LocalDrained, UiSetsAlone, Ruled

LEMMA ProcChannel ==
  ASSUME ChannelInv, TypeOK, ThreadProc
  PROVE  ChannelInv'
<1> USE DEF threadVars, callVars, scopeVars, historyVars
<1>1. CASE DrainSwap
  <2>1. local = << >> /\ Silent(<< >>)
    BY <1>1, EmptySeq DEF DrainSwap, ChannelInv, LocalDrained, Silent
  <2>2. ~Asks(<< >>, decided)
    BY EmptySeq DEF Asks
  <2>3. LeadsToDecided'
    BY <1>1, <2>1, <2>2 DEF DrainSwap, ChannelInv, LeadsToDecided
  <2> QED BY <1>1, <2>3 DEF DrainSwap, ChannelInv, LocalDrained, UiSetsAlone, Ruled
<1>2. CASE ExecChannel
  BY <1>2, CommandDone DEF ExecChannel
<1>3. CASE ExecSingle \/ ExecRun \/ ExecSetting
  <2>1. /\ local # << >> /\ local' = Tail(local) /\ Head(local).op # "channel"
        /\ acqPc = "exec" /\ acqPc' \in {"exec", "setting"}
        /\ UNCHANGED <<state, pc, queue, channel, wanted, decided, overruled, unsure>>
    BY <1>3 DEF ExecSingle, ExecRun, ExecSetting
  <2> QED BY <2>1, CommandDone
<1>4. CASE ReconnectResumes
  <2>1. /\ queue' = Append(queue, SetChannelCmd(ReconnectChannel))
        /\ Decides(ReconnectChannel, "reconnect")
        /\ acqPc = "reStart" /\ UNCHANGED <<state, pc, local>>
    BY <1>4 DEF ReconnectResumes
  <2>2. pc'["ui"] = "setChannel" => state' # "Running"
    BY <2>1 DEF ChannelInv, UiSetsAlone
  <2> QED BY <2>1, <2>2, ChannelPosted
<1>5. CASE SettingLocks \/ DrainDone
  <2>1. /\ UNCHANGED <<state, pc, queue, local, channel, historyVars>>
        /\ acqPc' = "exec" \/ local = << >>
    BY <1>5 DEF SettingLocks, DrainDone
  <2> QED BY <2>1, ChannelStays DEF ChannelInv, UiSetsAlone
<1>6. CASE \/ ProcTop \/ FetchOk \/ CallbackReturns \/ FetchFails \/ AfterFailure \/ ReconnectCloses
           \/ ReconnectOpens \/ ReconnectIdentifies \/ GiveUpState \/ GiveUpRequest
           \/ ProcExit
  <2>1. /\ UNCHANGED <<pc, queue, local, channel, historyVars>>
        /\ acqPc \notin {"exec", "setting", "dead"}
        /\ state' = state \/ state' \in {"Error", "Stopped"}
    BY <1>6 DEF ProcTop, FetchOk, CallbackReturns, FetchFails, AfterFailure, ReconnectCloses,
                ReconnectOpens, ReconnectIdentifies, GiveUpState, GiveUpRequest, ProcExit
  <2> QED BY <2>1, ChannelStays DEF ChannelInv, UiSetsAlone
<1> QED BY <1>1, <1>2, <1>3, <1>4, <1>5, <1>6 DEF ThreadProc

LEMMA StopChannel ==
  ASSUME ChannelInv, TypeOK, NEW t \in Callers, StopAcquisition(t)
  PROVE  ChannelInv'
<1>1. /\ UNCHANGED <<queue, local, channel, historyVars>>
      /\ acqPc' = acqPc \/ acqPc' = "dead"
      /\ state' = state \/ state' = "Stopping"
  BY DEF StopAcquisition, StopRequests, StopSetsState, WaitFindsNoThread, WaitBegins, PollEnds,
         Join, JoinThrows, Terminate, threadVars, procVars, scopeVars, historyVars
<1>2. pc'["ui"] = "setChannel" => pc["ui"] = "setChannel"
  <2>1. call.then # "setChannel" /\ "ui" \in Callers
    BY DEF TypeOK, Callers
  <2>2. CASE Join(t)
    BY <2>1, <2>2 DEF Join, Continue
  <2>3. CASE JoinThrows(t)
    BY <2>1, <2>3 DEF JoinThrows, Terminate
  <2>4. CASE ~Join(t) /\ ~JoinThrows(t)
    <3>1. PICK where : /\ pc' = [pc EXCEPT ![t] = where]
                       /\ where # "setChannel"
      BY <2>1, <2>4 DEF StopAcquisition, StopRequests, StopSetsState, WaitFindsNoThread,
                        WaitBegins, PollEnds, Goto, Continue
    <3> QED BY <3>1 DEF TypeOK, Callers
  <2> QED BY <2>2, <2>3, <2>4
<1> QED BY <1>1, <1>2, ChannelStays DEF ChannelInv, LocalDrained, UiSetsAlone

LEMMA StartChannel ==
  ASSUME ChannelInv, TypeOK, HandedOver, StartAcquisition
  PROVE  ChannelInv'
<1> USE DEF threadVars, procVars, scopeVars, UiDone, UiGoto, Goto, TypeOK, Callers
<1>1. CASE RunChecksState \/ StartRefused \/ StartAccepted \/ StartResets
  <2>1. /\ UNCHANGED <<queue, local, channel, historyVars, acqPc, state>>
        /\ pc'["ui"] # "setChannel"
    BY <1>1 DEF RunChecksState, StartRefused, StartAccepted, StartResets
  <2> QED BY <2>1, ChannelStays DEF ChannelInv, LocalDrained
<1>2. CASE RunPosts
  <2>1. /\ queue' = Append(queue, RunCmd) /\ pc'["ui"] = "start"
        /\ UNCHANGED <<state, local, acqPc, channel, historyVars>>
    BY <1>2 DEF RunPosts
  <2>2. RunCmd \in Commands /\ RunCmd.op # "channel"
    BY CommandTypes DEF RunCmd
  <2> QED BY <2>1, <2>2, OtherPosted
<1>3. CASE StartSeeds
  <2>1. /\ call.ch \in Channels /\ pc'["ui"] = "startState"
        /\ queue' = Append(queue, SetChannelCmd(call.ch)) /\ Decides(call.ch, "seed")
        /\ UNCHANGED <<local, acqPc>>
    BY <1>3 DEF StartSeeds
  <2> QED BY <2>1, ChannelPosted
<1>4. CASE StartSetsState
  <2>1. /\ UNCHANGED <<queue, local, channel, historyVars, acqPc>>
        /\ pc'["ui"] = "startThread"
    BY <1>4 DEF StartSetsState
  <2> QED BY <2>1, ChannelStays DEF ChannelInv, LocalDrained
<1>5. CASE StartLaunches
  <2>1. /\ UNCHANGED <<queue, local, channel, historyVars, state>>
        /\ pc'["ui"] # "setChannel"
    BY <1>5 DEF StartLaunches, Terminate
  <2>2. acqPc' = "dead" \/ acqPc \notin {"exec", "setting", "dead"}
    BY <1>5 DEF StartLaunches, Terminate, HandedOver, ThreadHeld
  <2> QED BY <2>1, <2>2, ChannelStays DEF ChannelInv, LocalDrained
<1> QED BY <1>1, <1>2, <1>3, <1>4, <1>5 DEF StartAcquisition

\* The UI thread sets the channel itself, past what waits.
LEMMA UiSetsKeeps ==
  ASSUME ChannelInv, TypeOK, UiSetsChannel
  PROVE  ChannelInv'
<1> USE DEF UiDone, UiGoto, Goto, procVars
<1>1. /\ UNCHANGED <<queue, local, acqPc>>
      /\ unsure' = TRUE \/ channel' = call.ch
      /\ UNCHANGED channel \/ channel' = call.ch
  BY DEF UiSetsChannel
<1>2. LocalDrained'
  BY <1>1 DEF ChannelInv, LocalDrained
<1>3. pc'["ui"] = "idle"
  BY DEF UiSetsChannel, TypeOK, Callers
<1>4. LeadsToDecided' /\ Ruled'
  <2>1. CASE ChannelWaits
    <3>1. decided' = decided /\ (overruled' = "no" => decided' = wanted')
          /\ overruled' # "reconnect"
      BY <2>1 DEF UiSetsChannel, Decides
    <3>2. ~(Silent(queue) /\ Silent(local))
      BY <2>1 DEF ChannelWaits, Silent
    <3> QED BY <1>1, <3>1, <3>2 DEF ChannelInv, LeadsToDecided, Ruled
  <2>2. CASE ~ChannelWaits
    <3>1. decided' = call.ch /\ (overruled' = "no" => decided' = wanted')
          /\ overruled' # "reconnect"
      BY <2>2 DEF UiSetsChannel, Decides
    <3>2. Silent(queue) /\ Silent(local)
      BY <2>2 DEF ChannelWaits, Silent
    <3> QED BY <1>1, <3>1, <3>2 DEF LeadsToDecided, Ruled
  <2> QED BY <2>1, <2>2
<1> QED BY <1>2, <1>3, <1>4 DEF ChannelInv, UiSetsAlone

LEMMA UiChannel ==
  ASSUME ChannelInv, TypeOK, HandedOver, UiWork
  PROVE  ChannelInv'
<1> USE DEF threadVars, procVars, callVars, scopeVars, UiDone, UiGoto, Goto
<1>0. "ui" \in DOMAIN pc /\ call.ch \in Channels
  BY DEF TypeOK, Callers
<1>1. CASE StopAcquisition("ui")
  BY <1>1, StopChannel DEF Callers
<1>2. CASE StartAcquisition
  BY <1>2, StartChannel
<1>3. CASE UiPostsChannel
  <2>1. /\ PostChannel(call.ch) /\ pc'["ui"] = "idle" /\ UNCHANGED <<state, local, acqPc>>
    BY <1>0, <1>3 DEF UiPostsChannel
  <2> QED BY <1>0, <2>1, ChannelPosted DEF PostChannel
<1>4. CASE UiSetsChannel
  BY <1>4, UiSetsKeeps
<1>5. CASE UiPostsSetting
  <2>1. /\ queue' = Append(queue, SettingCmd) /\ pc'["ui"] = "idle"
        /\ UNCHANGED <<state, local, acqPc, channel, historyVars>>
    BY <1>0, <1>5 DEF UiPostsSetting
  <2>2. SettingCmd \in Commands /\ SettingCmd.op # "channel"
    BY CommandTypes DEF SettingCmd
  <2> QED BY <2>1, <2>2, OtherPosted
<1>6. CASE UiStopsScope \/ UiDisconnects \/ UiExits \/ UiQuits \/ UiConnectDone
  <2>1. /\ UNCHANGED <<queue, local, channel, historyVars, acqPc, state>>
        /\ pc'["ui"] \in {"idle", "stop", "closed"}
    BY <1>0, <1>6 DEF UiStopsScope, UiDisconnects, UiExits, UiQuits, UiConnectDone
  <2> QED BY <2>1, ChannelStays DEF ChannelInv, LocalDrained
<1> QED BY <1>1, <1>2, <1>3, <1>4, <1>5, <1>6 DEF UiWork

LEMMA ClickedChannel ==
  ASSUME ChannelInv, TypeOK, Click
  PROVE  ChannelInv'
<1> USE DEF threadVars, procVars, callVars, scopeVars, UiIdle, UiGoto, Goto
<1>0. "ui" \in DOMAIN pc
  BY DEF TypeOK, Callers
<1>1. CASE ClickSingle
  <2>1. /\ queue' = Append(queue, SingleCmd)
        /\ UNCHANGED <<state, local, acqPc, channel, historyVars, pc>>
    BY <1>1 DEF ClickSingle
  <2>2. SingleCmd \in Commands /\ SingleCmd.op # "channel"
    BY CommandTypes DEF SingleCmd
  <2> QED BY <2>1, <2>2, OtherPosted
<1>2. ASSUME NEW c \in Channels, ClickChannel(c) PROVE ChannelInv'
  <2>1. /\ UNCHANGED <<queue, local, channel, historyVars, acqPc, state>>
        /\ pc'["ui"] = IF state = "Running" THEN "postChannel" ELSE "setChannel"
    BY <1>0, <1>2 DEF ClickChannel
  <2> QED BY <2>1, ChannelStays DEF ChannelInv, LocalDrained
<1>3. CASE \/ ClickRun \/ ClickStop \/ ClickMenuStop \/ ClickDisconnect \/ ClickSetting
           \/ ClickConnect \/ ClickClose
  <2>1. /\ UNCHANGED <<queue, local, channel, historyVars, acqPc, state>>
        /\ pc'["ui"] \in {"idle", "run", "stop", "postSetting"}
    BY <1>0, <1>3 DEF ClickRun, ClickStop, ClickMenuStop, ClickDisconnect, ClickSetting,
                      ClickConnect, ClickClose
  <2> QED BY <2>1, ChannelStays DEF ChannelInv, LocalDrained
<1> QED BY <1>1, <1>2, <1>3 DEF Click

LEMMA WebConnectChannel ==
  ASSUME ChannelInv, TypeOK, WebWork \/ WebCommand \/ ConnectWork
  PROVE  ChannelInv'
<1> USE DEF threadVars, procVars, callVars, scopeVars
<1>1. CASE WebWork
  BY <1>1, StopChannel DEF WebWork, Callers
<1>2. ASSUME NEW c \in Channels, WebChannel(c) PROVE ChannelInv'
  <2>1. PostChannel(c) /\ UNCHANGED <<state, local, acqPc, pc>>
    BY <1>2 DEF WebChannel
  <2>2. pc'["ui"] = "setChannel" => state' # "Running"
    BY <2>1 DEF ChannelInv, UiSetsAlone
  <2> QED BY <2>1, <2>2, ChannelPosted DEF PostChannel
<1>3. ASSUME NEW cmd \in {RunCmd, SingleCmd}, WebPosts(cmd) PROVE ChannelInv'
  <2>1. cmd \in Commands /\ cmd.op # "channel"
    BY CommandTypes DEF RunCmd, SingleCmd
  <2>2. /\ queue' = Append(queue, cmd)
        /\ UNCHANGED <<state, local, acqPc, channel, historyVars, pc>>
    BY <1>3 DEF WebPosts
  <2> QED BY <2>1, <2>2, OtherPosted
<1>4. CASE WebStop
  <2>1. /\ UNCHANGED <<queue, local, channel, historyVars, acqPc, state>>
        /\ pc'["ui"] = pc["ui"]
    BY <1>4 DEF WebStop, Goto, TypeOK, Callers
  <2> QED BY <2>1, ChannelStays DEF ChannelInv, LocalDrained, UiSetsAlone
<1>5. CASE ConnectWork
  <2>1. UNCHANGED <<queue, local, channel, historyVars, acqPc, state, pc>>
    BY <1>5 DEF ConnectWork, ConnectOpens, ConnectIdentifies, ConnectSyncs
  <2> QED BY <2>1, ChannelStays DEF ChannelInv, LocalDrained, UiSetsAlone
<1> QED BY <1>1, <1>2, <1>3, <1>4, <1>5 DEF WebCommand

LEMMA ChannelStep == ChannelInv /\ TypeOK /\ HandedOver /\ [Next]_vars => ChannelInv'
<1>1. ChannelInv /\ UNCHANGED vars => ChannelInv'
  <2> SUFFICES ASSUME ChannelInv, UNCHANGED vars PROVE ChannelInv'
    OBVIOUS
  <2>1. UNCHANGED <<queue, local, channel, historyVars, acqPc, state, pc>>
    BY DEF vars, historyVars
  <2> QED BY <2>1, ChannelStays DEF ChannelInv, LocalDrained, UiSetsAlone
<1> QED BY <1>1, ProcChannel, UiChannel, ClickedChannel, WebConnectChannel DEF Next

LEMMA ChannelInit == Init => ChannelInv
<1> SUFFICES ASSUME Init PROVE ChannelInv
  OBVIOUS
<1>1. queue = << >> /\ local = << >> /\ channel = decided /\ decided = wanted
      /\ overruled = "no" /\ pc["ui"] = "idle"
  BY DEF Init, Callers
<1>2. Silent(<< >>)
  BY EmptySeq DEF Silent
<1> QED BY <1>1, <1>2 DEF ChannelInv, LocalDrained, UiSetsAlone, LeadsToDecided, Ruled

\* Once no channel command waits and the last one went well, the channel is that of
\* the last request or of what overruled it, whichever of the window, the web page,
\* Start and a reconnect gave commands, in any order, for any number of channels
\* and waiting commands (Threads/AcquisitionThread.cpp:126).
THEOREM RightChannel == Spec => []FramesFromWantedChannel
<1>1. Init => HandedOver
  BY DEF Init, HandedOver, ThreadHeld, StoppedBeforeUiUsesBus, Callers
<1>2. ChannelInv => FramesFromWantedChannel
  <2> SUFFICES ASSUME ChannelInv, ChannelSettled
               PROVE  channel = decided
    BY DEF FramesFromWantedChannel, ChannelInv, Ruled
  <2>1. LeadsToDecided /\ Silent(local) /\ Silent(queue) /\ ~unsure
    BY DEF ChannelSettled, ChannelWaits, ChannelInv, Silent
  <2>2. ~Asks(queue, decided)
    BY <2>1 DEF Asks, Silent, SetChannelCmd
  <2>3. ~Asks(local, decided)
    BY <2>1 DEF Asks, Silent, SetChannelCmd
  <2> QED BY <2>1, <2>2, <2>3 DEF LeadsToDecided
<1> QED BY <1>1, <1>2, ChannelInit, HandedOverStep, ChannelStep, TypeCorrect, PTL DEF Spec
=============================================================================
