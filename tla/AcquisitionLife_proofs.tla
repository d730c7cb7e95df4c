----------------------- MODULE AcquisitionLife_proofs -----------------------
(***************************************************************************)
(* More about the acquisition thread's life, for every set of channels,    *)
(* every error limit and any number of queued commands: what the states    *)
(* that everybody reads tell about the thread, the service that the queue  *)
(* implements, how long a stop may take, and what has to happen before     *)
(* three claims of the code's comments fail.                               *)
(***************************************************************************)
EXTENDS AcquisitionThread_proofs

-----------------------------------------------------------------------------
(* What m_state tells *)

\* Start has been accepted and has not launched the thread yet.
Starting == {"startReset", "startSeed", "startState", "startThread"}

\* The readers of m_state may rely on it as follows: Stopped means that no thread
\* runs, Running that one does or is just being launched, Error that one runs and
\* is about to end.  Nobody relies on Stopping, which may stay for ever.
StateTruth ==
  /\ state = "Stopped" => acqPc \in {"off", "dead"}
  /\ state = "Running" => acqPc # "off" \/ pc["ui"] = "startThread"
  /\ state = "Error" => \/ acqPc \in {"giveUp2", "dead"}
                        \/ acqPc \in {"top", "exit"} /\ stopRequest

\* Start works on a thread object that nobody runs.
StartAlone ==
  /\ pc["ui"] \in Starting => acqPc = "off"
  /\ pc["ui"] = "startThread" => state \in {"Running", "Stopping"}

StateInv == StateTruth /\ StartAlone

LEMMA ProcStates ==
  ASSUME StateInv, ThreadProc
  PROVE  StateInv'
<1>1. pc' = pc /\ pc["ui"] \notin Starting
  BY ProcFrame DEF StateInv, StartAlone
<1>2. StartAlone'
  BY <1>1 DEF StartAlone, Starting
<1>3. CASE GiveUpState
  BY <1>2, <1>3 DEF GiveUpState, StateInv, StateTruth
<1>4. CASE GiveUpRequest
  BY <1>2, <1>4 DEF GiveUpRequest, StateInv, StateTruth
<1>5. CASE ProcExit
  BY <1>2, <1>5 DEF ProcExit, StateInv, StateTruth
<1>6. CASE ProcTop
  BY <1>2, <1>6 DEF ProcTop, threadVars, StateInv, StateTruth
<1>7. CASE ~(GiveUpState \/ GiveUpRequest \/ ProcExit \/ ProcTop)
  <2>1. /\ UNCHANGED <<state, stopRequest>>
        /\ acqPc \notin {"off", "dead", "giveUp2", "top", "exit"} /\ acqPc' # "off"
    BY <1>7 DEF ThreadProc, threadVars, DrainSwap, ExecChannel, ExecSingle, ExecRun,
                ExecSetting, SettingLocks, DrainDone, FetchOk, CallbackReturns, FetchFails, AfterFailure,
                ReconnectCloses, ReconnectOpens, ReconnectIdentifies, ReconnectResumes
  <2> QED BY <1>2, <2>1 DEF StateInv, StateTruth
<1> QED BY <1>3, <1>4, <1>5, <1>6, <1>7

\* What a stop may do to the rest.
LEMMA StopFrame ==
  ASSUME TypeOK, NEW t \in Callers, StopAcquisition(t)
  PROVE  /\ UNCHANGED <<queue, local, open, lock, channel>>
         /\ connPc' = connPc \/ acqPc' = "dead"
         /\ acqPc' = acqPc \/ (acqPc' = "dead" /\ pc' = [u \in Callers |-> "dead"])
         /\ state' \in {state, "Stopping"} /\ (stopRequest => stopRequest')
         /\ pc'["ui"] = pc["ui"] \/ pc'["ui"] \notin Starting \cup {"setChannel"}
<1>1. CASE Join(t)
  BY <1>1 DEF Join, Continue, Starting, TypeOK, Callers, scopeVars, procVars
<1>2. CASE JoinThrows(t)
  BY <1>2 DEF JoinThrows, Terminate, Starting, TypeOK, Callers, threadVars, scopeVars
<1>3. CASE ~(Join(t) \/ JoinThrows(t))
  <2>1. PICK where : /\ pc' = [pc EXCEPT ![t] = where]
                     /\ where \notin Starting \cup {"setChannel"}
    BY <1>3 DEF StopAcquisition, StopRequests, StopSetsState, WaitFindsNoThread, WaitBegins,
                PollEnds, Goto, Continue, Starting, TypeOK
  <2>2. /\ UNCHANGED <<acqPc, queue, local, connPc, open, lock, channel>>
        /\ state' \in {state, "Stopping"} /\ (stopRequest => stopRequest')
    BY <1>3 DEF StopAcquisition, StopRequests, StopSetsState, WaitFindsNoThread, WaitBegins,
                PollEnds, threadVars, procVars, scopeVars
  <2> QED BY <2>1, <2>2 DEF TypeOK, Callers
<1> QED BY <1>1, <1>2, <1>3

LEMMA StopStates ==
  ASSUME StateInv, HandedOver, TypeOK, NEW t \in Callers, StopAcquisition(t)
  PROVE  StateInv'
<1>1. /\ acqPc' = acqPc \/ (acqPc' = "dead" /\ pc' = [u \in Callers |-> "dead"])
      /\ state' \in {state, "Stopping"} /\ (stopRequest => stopRequest')
      /\ pc'["ui"] = pc["ui"] \/ pc'["ui"] \notin Starting
  BY StopFrame
<1>5. acqPc # "dead"
  BY DEF HandedOver, ThreadHeld, StopAcquisition, StopRequests, StopSetsState,
         WaitFindsNoThread, WaitBegins, PollEnds, Join, JoinThrows
<1>2. CASE pc["ui"] = "startThread" /\ pc'["ui"] # "startThread" /\ acqPc' # "dead"
  \* The UI thread is not in a stop, and nobody else moves it.
  <2>1. t # "ui" /\ ~Join("ui")
    BY <1>2 DEF StopAcquisition, StopRequests, StopSetsState, WaitFindsNoThread, WaitBegins,
                PollEnds, Join, JoinThrows
  <2>2. pc'["ui"] = pc["ui"]
    BY <1>2, <2>1 DEF StopAcquisition, StopRequests, StopSetsState, WaitFindsNoThread,
                WaitBegins, PollEnds, Join, JoinThrows, Terminate, Goto, TypeOK, Callers
  <2> QED BY <1>2, <2>2
<1>3. CASE acqPc' = "dead"
  <2>1. pc'["ui"] \notin Starting
    BY <1>1, <1>3, <1>5 DEF Starting, Callers
  <2> QED BY <1>3, <2>1 DEF StateInv, StateTruth, StartAlone, Starting
<1>4. CASE acqPc' = acqPc /\ (pc["ui"] = "startThread" => pc'["ui"] = "startThread")
  <2>1. StateTruth'
    <3>1. CASE state' = state
      BY <1>1, <1>4, <3>1 DEF StateInv, StateTruth
    <3>2. CASE state' = "Stopping"
      BY <3>2 DEF StateTruth
    <3> QED BY <1>1, <3>1, <3>2
  <2>2. StartAlone'
    <3>1. pc'["ui"] \in Starting => pc'["ui"] = pc["ui"]
      BY <1>1
    <3>2. state \in {"Running", "Stopping"} => state' \in {"Running", "Stopping"}
      BY <1>1
    <3>3. "startThread" \in Starting
      BY DEF Starting
    <3> QED BY <1>4, <3>1, <3>2, <3>3 DEF StateInv, StartAlone
  <2> QED BY <2>1, <2>2 DEF StateInv
<1> QED BY <1>1, <1>2, <1>3, <1>4

LEMMA StartStates ==
  ASSUME StateInv, HandedOver, TypeOK, StartAcquisition
  PROVE  StateInv'
<1> USE DEF UiDone, UiGoto, Goto, threadVars, procVars, Starting
<1>0. "ui" \in DOMAIN pc
  BY DEF TypeOK, Callers
<1>1. CASE RunChecksState \/ RunPosts \/ StartRefused
  <2>1. UNCHANGED <<state, stopRequest, acqPc>> /\ pc'["ui"] \notin Starting
        /\ pc["ui"] \notin Starting
    BY <1>0, <1>1 DEF RunChecksState, RunPosts, StartRefused
  <2> QED BY <2>1 DEF StateInv, StateTruth, StartAlone
<1>2. CASE StartAccepted
  <2>1. acqPc # "dead"
    BY <1>2 DEF StartAccepted, HandedOver, ThreadHeld, Callers
  <2>2. UNCHANGED <<state, stopRequest, acqPc>> /\ pc'["ui"] = "startReset"
        /\ state = "Stopped"
    BY <1>0, <1>2 DEF StartAccepted
  <2> QED BY <2>1, <2>2 DEF StateInv, StateTruth, StartAlone
<1>3. CASE StartResets
  <2>1. UNCHANGED <<state, acqPc>> /\ pc["ui"] = "startReset" /\ pc'["ui"] = "startSeed"
    BY <1>0, <1>3 DEF StartResets
  <2> QED BY <2>1 DEF StateInv, StateTruth, StartAlone
<1>4. CASE StartSeeds
  <2>1. UNCHANGED <<state, stopRequest, acqPc>> /\ pc["ui"] = "startSeed"
        /\ pc'["ui"] = "startState"
    BY <1>0, <1>4 DEF StartSeeds
  <2> QED BY <2>1 DEF StateInv, StateTruth, StartAlone
<1>5. CASE StartSetsState
  <2>1. UNCHANGED <<stopRequest, acqPc>> /\ pc["ui"] = "startState"
        /\ pc'["ui"] = "startThread" /\ state' = "Running"
    BY <1>0, <1>5 DEF StartSetsState
  <2> QED BY <2>1 DEF StateInv, StateTruth, StartAlone
<1>6. CASE StartLaunches
  <2>1. UNCHANGED <<state, stopRequest>> /\ pc["ui"] = "startThread"
        /\ pc'["ui"] \notin Starting /\ acqPc' \in {"top", "dead"}
    BY <1>0, <1>6 DEF StartLaunches, Terminate, Callers
  <2> QED BY <2>1 DEF StateInv, StateTruth, StartAlone
<1> QED BY <1>1, <1>2, <1>3, <1>4, <1>5, <1>6 DEF StartAcquisition

\* Everybody else leaves state, request and thread alone.
LEMMA OtherStates ==
  ASSUME StateInv, TypeOK, UNCHANGED <<state, stopRequest, acqPc>>,
         pc'["ui"] # pc["ui"] => pc["ui"] # "startThread" /\ pc'["ui"] \notin Starting
  PROVE  StateInv'
BY DEF StateInv, StateTruth, StartAlone, Starting

LEMMA UiStates ==
  ASSUME StateInv, HandedOver, TypeOK, UiWork
  PROVE  StateInv'
<1>1. CASE StopAcquisition("ui")
  BY <1>1, StopStates DEF Callers
<1>2. CASE StartAcquisition
  BY <1>2, StartStates
<1>3. CASE ~(StopAcquisition("ui") \/ StartAcquisition)
  <2>1. /\ UNCHANGED <<state, stopRequest, acqPc>>
        /\ pc["ui"] # "startThread" /\ pc'["ui"] \notin Starting
    BY <1>3 DEF UiWork, UiPostsChannel, UiSetsChannel, UiPostsSetting, UiStopsScope,
                UiDisconnects, UiExits, UiQuits, UiConnectDone, UiDone, UiGoto, Goto,
                threadVars, procVars, callVars, Starting, TypeOK, Callers
  <2> QED BY <2>1, OtherStates
<1> QED BY <1>1, <1>2, <1>3

LEMMA ClickStates ==
  ASSUME StateInv, TypeOK, Click
  PROVE  StateInv'
<1>1. /\ UNCHANGED <<state, stopRequest, acqPc>>
      /\ pc["ui"] # "startThread" /\ pc'["ui"] \notin Starting
  BY DEF Click, ClickRun, ClickStop, ClickMenuStop, ClickDisconnect, ClickSetting, ClickSingle,
         ClickConnect, ClickClose, ClickChannel, UiIdle, UiGoto, Goto, threadVars, procVars,
         callVars, Starting, TypeOK, Callers
<1> QED BY <1>1, OtherStates

LEMMA WebConnectStates ==
  ASSUME StateInv, HandedOver, TypeOK, WebWork \/ WebCommand \/ ConnectWork
  PROVE  StateInv'
<1>1. CASE WebWork
  BY <1>1, StopStates DEF WebWork, Callers
<1>2. CASE WebCommand \/ ConnectWork
  <2>1. UNCHANGED <<state, stopRequest, acqPc>> /\ pc'["ui"] = pc["ui"]
    BY <1>2 DEF WebCommand, WebChannel, WebPosts, WebStop, Goto, ConnectWork, ConnectOpens,
                ConnectIdentifies, ConnectSyncs, threadVars, procVars, callVars, TypeOK, Callers
  <2> QED BY <2>1, OtherStates
<1> QED BY <1>1, <1>2

LEMMA StateStep == StateInv /\ HandedOver /\ TypeOK /\ [Next]_vars => StateInv'
<1>1. StateInv /\ UNCHANGED vars => StateInv'
  BY DEF StateInv, StateTruth, StartAlone, vars
<1> QED BY <1>1, ProcStates, UiStates, ClickStates, WebConnectStates DEF Next

LEMMA StateHolds == Spec => [](TypeOK /\ HandedOver /\ StateInv)
<1>1. Init => HandedOver /\ StateInv
  BY DEF Init, HandedOver, ThreadHeld, StoppedBeforeUiUsesBus, Callers, StateInv, StateTruth,
         StartAlone, Starting
<1> QED BY <1>1, HandedOverStep, StateStep, TypeCorrect, PTL DEF Spec

\* m_state can be relied on as StateTruth says (Threads/AcquisitionThread.cpp:111,
\* 308), through stops by two threads, failed reconnects and restarts.
THEOREM StateIsTrue == Spec => []StateTruth
<1>1. StateInv => StateTruth
  BY DEF StateInv
<1> QED BY <1>1, StateHolds, PTL
-----------------------------------------------------------------------------
(* The service implemented *)

\* Behind a snapshot, posting appends to the whole and taking takes its head.
LEMMA BehindSnapshot ==
  ASSUME NEW s \in Seq(Commands), NEW r \in Seq(Commands)
  PROVE  /\ \A cmd \in Commands : s \o Append(r, cmd) = Append(s \o r, cmd)
         /\ s # << >> => /\ s \o r # << >> /\ Head(s \o r) = Head(s)
                         /\ Tail(s \o r) = Tail(s) \o r
<1>1. ASSUME NEW cmd \in Commands PROVE s \o Append(r, cmd) = Append(s \o r, cmd)
  <2>1. <<cmd>> \in Seq(Commands) /\ s \o r \in Seq(Commands)
    BY ConcatProperties
  <2>2. Append(r, cmd) = r \o <<cmd>> /\ Append(s \o r, cmd) = (s \o r) \o <<cmd>>
    BY <2>1, AppendIsConcat
  <2>3. (s \o r) \o <<cmd>> = s \o (r \o <<cmd>>)
    BY <2>1, ConcatAssociative
  <2> QED BY <2>2, <2>3
<1>2. ASSUME s # << >>
      PROVE  /\ s \o r # << >> /\ Head(s \o r) = Head(s)
             /\ Tail(s \o r) = Tail(s) \o r
  <2> DEFINE u == s \o r
             v == Tail(s) \o r
  <2>1. /\ u \in Seq(Commands) /\ Len(u) = Len(s) + Len(r)
        /\ \A i \in 1..Len(s) + Len(r) : u[i] = IF i <= Len(s) THEN s[i] ELSE r[i - Len(s)]
    BY ConcatProperties
  <2>2. /\ Len(s) \in Nat \ {0} /\ Len(r) \in Nat /\ Head(s) = s[1]
        /\ Tail(s) \in Seq(Commands) /\ Len(Tail(s)) = Len(s) - 1
        /\ \A i \in 1..Len(s) - 1 : Tail(s)[i] = s[i + 1]
    BY <1>2, HeadTailProperties, LenProperties, EmptySeq
  <2>3. /\ v \in Seq(Commands) /\ Len(v) = Len(Tail(s)) + Len(r)
        /\ \A i \in 1..Len(Tail(s)) + Len(r) :
             v[i] = IF i <= Len(Tail(s)) THEN Tail(s)[i] ELSE r[i - Len(Tail(s))]
    BY <2>2, ConcatProperties
  <2> HIDE DEF u, v
  <2>4. u # << >>
    BY <2>1, <2>2, EmptySeq
  <2>5. /\ Head(u) = u[1] /\ Tail(u) \in Seq(Commands) /\ Len(Tail(u)) = Len(u) - 1
        /\ \A i \in 1..Len(u) - 1 : Tail(u)[i] = u[i + 1]
    BY <2>1, <2>4, HeadTailProperties
  <2>6. Head(u) = Head(s)
    <3>1. 1 \in 1..Len(s) + Len(r) /\ 1 <= Len(s)
      BY <2>2
    <3>2. u[1] = s[1]
      BY <2>1, <3>1
    <3> QED BY <2>2, <2>5, <3>2
  <2>7. ASSUME NEW i \in 1..Len(u) - 1 PROVE Tail(u)[i] = v[i]
    <3>1. /\ i \in Nat \ {0} /\ i <= Len(s) + Len(r) - 1 /\ i + 1 \in 1..Len(s) + Len(r)
          /\ i \in 1..Len(Tail(s)) + Len(r)
      BY <2>1, <2>2
    <3>2. u[i + 1] = IF i + 1 <= Len(s) THEN s[i + 1] ELSE r[i + 1 - Len(s)]
      BY <2>1, <3>1
    <3>3. v[i] = IF i <= Len(s) - 1 THEN Tail(s)[i] ELSE r[i - (Len(s) - 1)]
      BY <2>2, <2>3, <3>1
    <3>4. CASE i <= Len(s) - 1
      <4>1. Tail(s)[i] = s[i + 1]
        BY <2>2, <3>1, <3>4
      <4> QED BY <2>2, <2>5, <3>1, <3>2, <3>3, <3>4, <4>1
    <3>5. CASE ~(i <= Len(s) - 1)
      <4>1. i + 1 - Len(s) = i - (Len(s) - 1) /\ ~(i + 1 <= Len(s))
        BY <2>2, <3>1, <3>5
      <4> QED BY <2>5, <3>2, <3>3, <3>5, <4>1
    <3> QED BY <3>4, <3>5
  <2>8. Len(Tail(u)) = Len(v)
    BY <2>1, <2>2, <2>3, <2>5
  <2>9. Tail(u) = v
    BY <2>1, <2>3, <2>5, <2>7, <2>8, SeqEqual
  <2> QED BY <2>4, <2>6, <2>9 DEF u, v
<1> QED BY <1>1, <1>2

\* A post by anybody is one of the service.
LEMMA PostMaps ==
  ASSUME TypeOK, NEW cmd \in Commands, queue' = Append(queue, cmd),
         UNCHANGED <<local, state, channel>>
  PROVE  Service!Post
<1>1. (local \o queue)' = Append(local \o queue, cmd)
  BY BehindSnapshot DEF TypeOK
<1> QED BY <1>1 DEF Service!Post

\* So is a step that leaves the commands alone.
LEMMA StayMaps ==
  ASSUME TypeOK, TypeOK', UNCHANGED <<local, queue>>,
         \/ UNCHANGED channel
         \/ UNCHANGED state /\ state # "Running"
  PROVE  [Service!Next]_(Service!serviceVars)
<1>1. (local \o queue)' = local \o queue
  OBVIOUS
<1>2. CASE UNCHANGED channel
  BY <1>1, <1>2 DEF Service!Next, Service!ChangeState, TypeOK
<1>3. CASE UNCHANGED state /\ state # "Running"
  BY <1>1, <1>3 DEF Service!Next, Service!Choose, TypeOK
<1> QED BY <1>2, <1>3

LEMMA CarryOutMaps ==
  ASSUME TypeOK, StateInv, acqPc = "exec", local # << >>, local' = Tail(local),
         UNCHANGED <<state, queue>>,
         \/ Head(local).op = "channel" /\ channel' = Head(local).ch
         \/ UNCHANGED channel
  PROVE  Service!CarryOut
<1>1. /\ local \o queue # << >> /\ Head(local \o queue) = Head(local)
      /\ (local \o queue)' = Tail(local \o queue)
  BY BehindSnapshot DEF TypeOK
<1>2. state \in {"Running", "Stopping"}
  BY DEF StateInv, StateTruth, TypeOK, States
<1> QED BY <1>1, <1>2 DEF Service!CarryOut

LEMMA ProcMaps ==
  ASSUME TypeOK, TypeOK', StateInv, ChannelInv, ThreadProc
  PROVE  [Service!Next]_(Service!serviceVars)
<1> USE DEF threadVars, scopeVars
<1>1. CASE DrainSwap
  \* The snapshot before is empty, so that the whole stays as it is.
  <2>1. local = << >> /\ local' = queue /\ queue' = << >> /\ UNCHANGED <<state, channel>>
    BY <1>1 DEF DrainSwap, ChannelInv, LocalDrained
  <2>2. (local \o queue)' = local \o queue
    BY <2>1, ConcatEmptySeq DEF TypeOK
  <2> QED BY <2>1, <2>2 DEF Service!serviceVars
<1>2. CASE ExecChannel
  BY <1>2, CarryOutMaps DEF ExecChannel, Service!Next
<1>3. CASE ExecSingle \/ ExecRun \/ ExecSetting
  <2>1. /\ acqPc = "exec" /\ local # << >> /\ local' = Tail(local)
        /\ UNCHANGED <<state, queue, channel>>
    BY <1>3 DEF ExecSingle, ExecRun, ExecSetting
  <2> QED BY <2>1, CarryOutMaps DEF Service!Next
<1>4. CASE ReconnectResumes
  <2>1. /\ SetChannelCmd(ReconnectChannel) \in Commands
        /\ queue' = Append(queue, SetChannelCmd(ReconnectChannel))
        /\ UNCHANGED <<local, state, channel>>
    BY <1>4, ChannelAssumption, CommandTypes DEF ReconnectResumes
  <2> QED BY <2>1, PostMaps DEF Service!Next
<1>5. CASE ~(DrainSwap \/ ExecChannel \/ ExecSingle \/ ExecRun \/ ExecSetting \/ ReconnectResumes)
  <2>1. UNCHANGED <<local, queue, channel>>
    BY <1>5 DEF ThreadProc, ProcTop, SettingLocks, DrainDone, FetchOk, CallbackReturns, FetchFails,
                AfterFailure, ReconnectCloses, ReconnectOpens, ReconnectIdentifies, GiveUpState,
                GiveUpRequest, ProcExit
  <2> QED BY <2>1, StayMaps
<1> QED BY <1>1, <1>2, <1>3, <1>4, <1>5

LEMMA UiMaps ==
  ASSUME TypeOK, TypeOK', ChannelInv, UiWork
  PROVE  [Service!Next]_(Service!serviceVars)
<1> USE DEF threadVars, procVars, scopeVars
<1>1. CASE StopAcquisition("ui")
  BY <1>1, StopFrame, StayMaps DEF Callers
<1>2. CASE RunPosts
  BY <1>2, CommandTypes, PostMaps DEF RunPosts, Service!Next
<1>3. CASE UiPostsSetting
  BY <1>3, CommandTypes, PostMaps DEF UiPostsSetting, Service!Next
<1>4. CASE StartSeeds \/ UiPostsChannel
  <2>1. /\ SetChannelCmd(call.ch) \in Commands
        /\ queue' = Append(queue, SetChannelCmd(call.ch))
        /\ UNCHANGED <<local, state, channel>>
    BY <1>4, CommandTypes DEF StartSeeds, UiPostsChannel, PostChannel, TypeOK
  <2> QED BY <2>1, PostMaps DEF Service!Next
<1>5. CASE UiSetsChannel
  <2>1. state # "Running" /\ UNCHANGED <<local, queue, state>>
    BY <1>5 DEF UiSetsChannel, ChannelInv, UiSetsAlone
  <2> QED BY <2>1, StayMaps
<1>6. CASE \/ RunChecksState \/ StartRefused \/ StartAccepted \/ StartResets \/ StartSetsState
           \/ StartLaunches \/ UiStopsScope \/ UiDisconnects \/ UiExits \/ UiQuits \/ UiConnectDone
  <2>1. UNCHANGED <<local, queue, channel>>
    BY <1>6 DEF RunChecksState, StartRefused, StartAccepted, StartResets, StartSetsState,
                StartLaunches, UiStopsScope, UiDisconnects, UiExits, UiQuits, UiConnectDone
  <2> QED BY <2>1, StayMaps
<1> QED BY <1>1, <1>2, <1>3, <1>4, <1>5, <1>6 DEF UiWork, StartAcquisition

LEMMA OtherMaps ==
  ASSUME TypeOK, TypeOK', Click \/ WebWork \/ WebCommand \/ ConnectWork
  PROVE  [Service!Next]_(Service!serviceVars)
<1> USE DEF threadVars, procVars, scopeVars
<1>1. CASE ClickSingle
  BY <1>1, CommandTypes, PostMaps DEF ClickSingle, Service!Next
<1>2. ASSUME NEW c \in Channels, WebChannel(c) PROVE [Service!Next]_(Service!serviceVars)
  <2>1. /\ SetChannelCmd(c) \in Commands /\ queue' = Append(queue, SetChannelCmd(c))
        /\ UNCHANGED <<local, state, channel>>
    BY <1>2, CommandTypes DEF WebChannel, PostChannel
  <2> QED BY <2>1, PostMaps DEF Service!Next
<1>3. ASSUME NEW cmd \in {RunCmd, SingleCmd}, WebPosts(cmd)
      PROVE  [Service!Next]_(Service!serviceVars)
  BY <1>3, CommandTypes, PostMaps DEF WebPosts, Service!Next
<1>4. CASE WebWork
  BY <1>4, StopFrame, StayMaps DEF WebWork, Callers
<1>5. CASE WebStop \/ ConnectWork
  <2>1. UNCHANGED <<local, queue, channel>>
    BY <1>5 DEF WebStop, ConnectWork, ConnectOpens, ConnectIdentifies, ConnectSyncs
  <2> QED BY <2>1, StayMaps
<1>6. CASE Click /\ ~ClickSingle
  <2>1. UNCHANGED <<local, queue, channel>>
    BY <1>6 DEF Click, ClickRun, ClickStop, ClickMenuStop, ClickDisconnect, ClickSetting,
                ClickConnect, ClickClose, ClickChannel
  <2> QED BY <2>1, StayMaps
<1> QED BY <1>1, <1>2, <1>3, <1>4, <1>5, <1>6 DEF WebCommand

\* The queue is a service of commands: of what the window, the web page, Start and a
\* reconnect post, each is carried out once and in order, though the queue is
\* emptied in batches (Threads/AcquisitionThread.cpp:124), and the channel of a
\* Running acquisition changes in no other way.
THEOREM ImplementsService == Spec => CommandSpec
<1>1. Init => HandedOver /\ StateInv /\ ChannelInv /\ Service!Init
  <2> SUFFICES ASSUME Init PROVE HandedOver /\ StateInv /\ ChannelInv /\ Service!Init
    OBVIOUS
  <2>1. HandedOver /\ StateInv /\ ChannelInv
    BY ChannelInit DEF Init, HandedOver, ThreadHeld, StoppedBeforeUiUsesBus, Callers, StateInv, StateTruth,
           StartAlone, Starting
  <2>2. local \o queue = << >>
    BY TypeInit, ConcatEmptySeq DEF Init, TypeOK
  <2> QED BY <2>1, <2>2, ChannelAssumption DEF Init, Service!Init
<1>2. TypeOK /\ TypeOK' /\ StateInv /\ ChannelInv /\ [Next]_vars
        => [Service!Next]_(Service!serviceVars)
  <2>1. UNCHANGED vars => UNCHANGED Service!serviceVars
    BY DEF vars, Service!serviceVars
  <2> QED BY <2>1, ProcMaps, UiMaps, OtherMaps DEF Next
<1> QED BY <1>1, <1>2, HandedOverStep, StateStep, ChannelStep, TypeCorrect, PTL
        DEF Spec, CommandSpec, Service!Spec
-----------------------------------------------------------------------------
(* How long a stop may take *)

\* Bound on the steps the thread still takes once m_stopRequest is set.  While the
\* queue is not drained yet, its commands count as well.
StepsLeft ==
  CASE acqPc \in {"off", "dead"} -> 0
    [] acqPc = "exit" -> 1
    [] acqPc = "top" -> 2
    [] acqPc \in {"callback", "failed", "giveUp2", "reStart"} -> 3
    [] acqPc \in {"fetch", "giveUp"} -> 4
    [] acqPc = "reIdent" -> 5
    [] acqPc = "reSleep" -> 6
    [] acqPc = "reconnect" -> 7
    [] acqPc = "exec" -> 5 + 2 * Len(local)
    [] acqPc = "setting" -> 6 + 2 * Len(local)
    [] acqPc = "drain" -> 6 + 2 * Len(queue)

\* While a stop is requested, every step of ThreadProc brings its end nearer and
\* none drains the queue once more; what the others do, posting included, does not
\* put it off.  Only what is posted before the batch is taken adds to it.
StopBounded ==
  [][stopRequest => /\ ThreadProc => StepsLeft' < StepsLeft /\ acqPc' # "drain"
                    /\ ~ThreadProc /\ acqPc \notin {"drain", "off"}
                         => StepsLeft' <= StepsLeft]_vars

LEMMA StepsLeftNat == TypeOK => StepsLeft \in Nat
<1> SUFFICES ASSUME TypeOK PROVE StepsLeft \in Nat
  OBVIOUS
<1>1. Len(local) \in Nat /\ Len(queue) \in Nat /\ acqPc \in ProcPcs
  BY LenProperties DEF TypeOK
<1> QED BY <1>1 DEF StepsLeft, ProcPcs

LEMMA StopShortens ==
  ASSUME TypeOK, TypeOK', stopRequest, ThreadProc
  PROVE  StepsLeft' < StepsLeft /\ acqPc' # "drain"
<1> USE DEF threadVars, StepsLeft
<1>0. Len(local) \in Nat /\ Len(queue) \in Nat
  BY LenProperties DEF TypeOK
<1>1. CASE ProcTop
  BY <1>1 DEF ProcTop
<1>2. CASE DrainSwap
  BY <1>0, <1>2 DEF DrainSwap
<1>3. CASE ExecChannel \/ ExecSingle \/ ExecRun \/ ExecSetting
  <2>1. /\ acqPc = "exec" /\ acqPc' \in {"exec", "setting"}
        /\ local # << >> /\ local' = Tail(local)
    BY <1>3 DEF ExecChannel, ExecSingle, ExecRun, ExecSetting
  <2>2. Len(local') = Len(local) - 1
    BY <2>1, HeadTailProperties DEF TypeOK
  <2> HIDE DEF threadVars
  <2>3. CASE acqPc' = "exec"
    BY <1>0, <2>1, <2>2, <2>3
  <2>4. CASE acqPc' = "setting"
    BY <1>0, <2>1, <2>2, <2>4
  <2> QED BY <2>1, <2>3, <2>4
<1>4. CASE SettingLocks
  BY <1>0, <1>4 DEF SettingLocks
<1>5. CASE DrainDone
  <2>1. Len(local) = 0
    BY <1>5, EmptySeq DEF DrainDone
  <2> QED BY <1>5, <2>1 DEF DrainDone
<1>6. CASE FetchOk
  BY <1>6 DEF FetchOk
<1>16. CASE CallbackReturns
  BY <1>16 DEF CallbackReturns
<1>13. CASE FetchFails
  BY <1>13 DEF FetchFails
<1>7. CASE AfterFailure
  BY <1>7 DEF AfterFailure
<1>8. CASE ReconnectCloses
  BY <1>8 DEF ReconnectCloses
<1>9. CASE ReconnectOpens
  BY <1>9 DEF ReconnectOpens
<1>10. CASE ReconnectIdentifies
  BY <1>10 DEF ReconnectIdentifies
<1>11. CASE ReconnectResumes
  BY <1>11 DEF ReconnectResumes
<1>12. CASE GiveUpState
  BY <1>12 DEF GiveUpState
<1>14. CASE GiveUpRequest
  BY <1>14 DEF GiveUpRequest
<1>15. CASE ProcExit
  BY <1>15 DEF ProcExit
<1> QED BY <1>1, <1>2, <1>3, <1>4, <1>5, <1>6, <1>7, <1>8, <1>9, <1>10, <1>11, <1>12,
           <1>13, <1>14, <1>15, <1>16 DEF ThreadProc

\* Nobody but the thread itself moves it, short of ending the process.
LEMMA ThreadMovesItself ==
  ASSUME TypeOK, StateInv, [Next]_vars, ~ThreadProc, acqPc # "off"
  PROVE  acqPc' \in {acqPc, "dead"} /\ local' = local
<1> USE DEF procVars
<1>1. CASE UiWork
  <2>1. CASE StopAcquisition("ui")
    BY <2>1, StopFrame DEF Callers
  <2>2. CASE StartAcquisition
    BY <2>2 DEF StartAcquisition, RunChecksState, RunPosts, StartRefused, StartAccepted,
                StartResets, StartSeeds, StartSetsState, StartLaunches, Terminate, StateInv,
                StartAlone, Starting
  <2>3. CASE ~(StopAcquisition("ui") \/ StartAcquisition)
    BY <1>1, <2>3 DEF UiWork, UiPostsChannel, UiSetsChannel, UiPostsSetting, UiStopsScope,
                      UiDisconnects, UiExits, UiQuits, UiConnectDone
  <2> QED BY <2>1, <2>2, <2>3
<1>2. CASE WebWork
  BY <1>2, StopFrame DEF WebWork, Callers
<1>3. CASE Click \/ WebCommand
  BY <1>3 DEF Click, ClickRun, ClickStop, ClickMenuStop, ClickDisconnect, ClickSetting,
              ClickSingle, ClickConnect, ClickClose, ClickChannel, WebCommand, WebChannel,
              WebPosts, WebStop
<1>4. CASE ConnectWork
  BY <1>4 DEF ConnectWork, ConnectOpens, ConnectIdentifies, ConnectSyncs
<1>5. CASE UNCHANGED vars
  BY <1>5 DEF vars
<1> QED BY <1>1, <1>2, <1>3, <1>4, <1>5 DEF Next

\* The safety half of StopRequestHonoured, for any number of channels, errors and
\* commands: a requested stop is a bounded number of calls and sleeps away,
\* also in the middle of a reconnect (Threads/AcquisitionThread.cpp:47, 80).
THEOREM StopIsBounded == Spec => [](StepsLeft \in Nat) /\ StopBounded
<1>1. TypeOK /\ TypeOK' /\ StateInv /\ [Next]_vars
        => (stopRequest => /\ ThreadProc => StepsLeft' < StepsLeft /\ acqPc' # "drain"
                           /\ ~ThreadProc /\ acqPc \notin {"drain", "off"}
                                => StepsLeft' <= StepsLeft)
  <2> SUFFICES ASSUME TypeOK, TypeOK', StateInv, [Next]_vars, stopRequest, ~ThreadProc,
                      acqPc \notin {"drain", "off"}
               PROVE  StepsLeft' <= StepsLeft
    BY StopShortens
  <2>1. acqPc' \in {acqPc, "dead"} /\ local' = local
    BY ThreadMovesItself
  <2>2. StepsLeft \in Nat
    BY StepsLeftNat
  <2>3. CASE acqPc' = "dead"
    <3>1. StepsLeft' = 0
      BY <2>3 DEF StepsLeft
    <3> QED BY <2>2, <3>1
  <2>4. CASE acqPc' = acqPc
    <3>1. StepsLeft' = StepsLeft
      BY <2>1, <2>4 DEF StepsLeft, TypeOK, ProcPcs
    <3> QED BY <2>2, <3>1
  <2> QED BY <2>1, <2>3, <2>4
<1> QED BY <1>1, StepsLeftNat, StateHolds, PTL DEF Spec, StopBounded
-----------------------------------------------------------------------------
(* Whoever holds m_mutex waits for nobody *)

\* m_mutex is held only across the identification after an opening, by the thread
\* that does it: of the threads that wait for it (a setting, a reconnect, the UI's
\* disconnect, the connect thread), and of those that wait in join(), none can be part
\* of a circle.  In the two places it is held.
HolderIdentifies ==
  /\ lock = "acq" => acqPc \in {"reIdent", "dead"}
  /\ lock = "conn" => connPc \in {"ident", "dead"}
  /\ acqPc = "reIdent" => lock = "acq"
  /\ connPc = "ident" => lock = "conn"

LEMMA HolderStep ==
  ASSUME TypeOK, StateInv, HolderIdentifies, [Next]_vars
  PROVE  HolderIdentifies'
<1> USE DEF HolderIdentifies, threadVars, procVars, callVars, scopeVars
<1>1. CASE ThreadProc
  BY <1>1 DEF ThreadProc, ProcTop, DrainSwap, ExecChannel, ExecSingle, ExecRun, ExecSetting,
              SettingLocks, DrainDone, FetchOk, CallbackReturns, FetchFails, AfterFailure, ReconnectCloses,
              ReconnectOpens, ReconnectIdentifies, ReconnectResumes, GiveUpState,
              GiveUpRequest, ProcExit
<1>2. CASE ConnectWork
  BY <1>2 DEF ConnectWork, ConnectOpens, ConnectIdentifies, ConnectSyncs
<1>3. CASE UNCHANGED vars
  BY <1>3 DEF vars
<1>4. CASE Click \/ WebCommand
  BY <1>4 DEF Click, ClickRun, ClickStop, ClickMenuStop, ClickDisconnect, ClickSetting,
              ClickSingle, ClickConnect, ClickClose, ClickChannel, WebCommand, WebChannel,
              WebPosts, WebStop
<1>5. ASSUME NEW t \in Callers, StopAcquisition(t) PROVE HolderIdentifies'
  BY <1>5 DEF StopAcquisition, StopRequests, StopSetsState, WaitFindsNoThread, WaitBegins,
              PollEnds, Join, JoinThrows, Terminate
<1>6. CASE UiWork /\ ~StopAcquisition("ui")
  <2>1. CASE StartAcquisition
    BY <2>1 DEF StartAcquisition, RunChecksState, RunPosts, StartRefused, StartAccepted,
                StartResets, StartSeeds, StartSetsState, StartLaunches, Terminate, StateInv,
                StartAlone, Starting
  <2>2. CASE ~StartAcquisition
    BY <1>6, <2>2 DEF UiWork, UiPostsChannel, UiSetsChannel, UiPostsSetting, UiStopsScope,
                      UiDisconnects, UiExits, UiQuits, UiConnectDone
  <2> QED BY <2>1, <2>2
<1> QED BY <1>1, <1>2, <1>3, <1>4, <1>5, <1>6 DEF Next, UiWork, WebWork, Callers

\* The mutex of TektronixScope is never held by a thread that waits.
THEOREM HolderNeverWaits == Spec => []HolderIdentifies
<1>1. Init => HolderIdentifies
  BY DEF Init, HolderIdentifies
<1>2. TypeOK /\ StateInv /\ HolderIdentifies /\ [Next]_vars => HolderIdentifies'
  BY HolderStep
<1> QED BY <1>1, <1>2, StateHolds, PTL DEF Spec
-----------------------------------------------------------------------------
(* What it takes for the comments to be wrong: the two about starting *)

\* No stop from the web, and no reconnect fails.
CalmNext == Next /\ ~WebStop /\ acqPc' # "giveUp"
CalmSpec == Init /\ [][CalmNext]_vars

\* From the stored request until join() has returned
InStop == pc["ui"] \in {"stopState", "wait", "poll", "join"}

CalmInv ==
  /\ pc["web"] = "idle" /\ pc["ui"] \notin {"rejoin", "dead"}
  /\ acqPc \notin {"giveUp", "giveUp2", "dead"} /\ state # "Error"
  /\ acqPc = "exit" => stopRequest
  /\ joinable /\ ~InStop => ~stopRequest /\ acqPc # "off" /\ state = "Running"
  /\ pc["ui"] \in Starting => ~joinable
  /\ pc["ui"] \in {"startSeed", "startState", "startThread"} => ~stopRequest
  /\ pc["ui"] = "startThread" => state = "Running"

LEMMA CalmProc ==
  ASSUME TypeOK, HandedOver, CalmInv, ThreadProc, acqPc' # "giveUp"
  PROVE  CalmInv'
<1>1. pc' = pc /\ joinable' = joinable /\ acqPc \notin {"off", "dead"} /\ acqPc' # "dead"
  BY ProcFrame
<1>2. joinable /\ pc["ui"] \notin Starting
  BY <1>1 DEF HandedOver, ThreadHeld, CalmInv
<1>3. /\ acqPc' # "giveUp2" /\ state' # "Error" /\ stopRequest' = stopRequest
      /\ state' = state \/ acqPc = "exit"
      /\ acqPc' = "exit" => stopRequest
      /\ acqPc' = "off" => acqPc = "exit"
  BY DEF CalmInv, ThreadProc, threadVars, ProcTop, DrainSwap, ExecChannel, ExecSingle, ExecRun,
         ExecSetting, SettingLocks, DrainDone, FetchOk, CallbackReturns, FetchFails, AfterFailure,
         ReconnectCloses, ReconnectOpens, ReconnectIdentifies, ReconnectResumes, GiveUpState,
         GiveUpRequest, ProcExit
<1> QED BY <1>1, <1>2, <1>3 DEF CalmInv, InStop, Starting

LEMMA CalmStop ==
  ASSUME TypeOK, HandedOver, CalmInv, StopAcquisition("ui")
  PROVE  CalmInv'
<1> USE DEF CalmInv, InStop, Starting, threadVars, procVars, Goto, TypeOK, Callers
<1>1. CASE StopRequests("ui")
  BY <1>1 DEF StopRequests
<1>2. CASE StopSetsState("ui")
  BY <1>2 DEF StopSetsState
<1>3. CASE WaitFindsNoThread("ui")
  BY <1>3 DEF WaitFindsNoThread, Continue
<1>4. CASE WaitBegins("ui")
  BY <1>4 DEF WaitBegins
<1>5. CASE PollEnds("ui")
  BY <1>5 DEF PollEnds
<1>6. CASE Join("ui")
  BY <1>6 DEF Join, Continue
<1>7. CASE JoinThrows("ui")
  BY <1>7 DEF JoinThrows
<1> QED BY <1>1, <1>2, <1>3, <1>4, <1>5, <1>6, <1>7 DEF StopAcquisition

LEMMA CalmStart ==
  ASSUME TypeOK, HandedOver, StateInv, CalmInv, StartAcquisition
  PROVE  CalmInv'
<1> USE DEF CalmInv, InStop, Starting, threadVars, procVars, UiDone, UiGoto, Goto, TypeOK, Callers
<1>1. CASE RunChecksState \/ RunPosts \/ StartRefused
  BY <1>1 DEF RunChecksState, RunPosts, StartRefused
<1>2. CASE StartAccepted
  BY <1>2 DEF StartAccepted
<1>3. CASE StartResets
  BY <1>3 DEF StartResets, StateInv, StartAlone
<1>4. CASE StartSeeds
  BY <1>4 DEF StartSeeds
<1>5. CASE StartSetsState
  BY <1>5 DEF StartSetsState, StateInv, StartAlone
<1>6. CASE StartLaunches
  BY <1>6 DEF StartLaunches
<1> QED BY <1>1, <1>2, <1>3, <1>4, <1>5, <1>6 DEF StartAcquisition

LEMMA CalmOther ==
  ASSUME TypeOK, CalmInv, ~WebStop,
         \/ Click \/ WebCommand \/ ConnectWork \/ WebWork
         \/ UiWork /\ ~StopAcquisition("ui") /\ ~StartAcquisition
  PROVE  CalmInv'
<1>1. ~WebWork
  BY DEF CalmInv, WebWork, StopAcquisition, StopRequests, StopSetsState, WaitFindsNoThread,
         WaitBegins, PollEnds, Join, JoinThrows
<1>2. "ui" \in DOMAIN pc /\ "web" \in DOMAIN pc
  BY DEF TypeOK, Callers
<1> DEFINE Quiet == /\ UNCHANGED <<acqPc, stopRequest, joinable, state>>
                    /\ pc'["web"] = pc["web"]
                    /\ \/ pc'["ui"] = pc["ui"]
                       \/ /\ ~InStop
                          /\ pc'["ui"] \notin {"stopState", "wait", "poll", "join", "startReset",
                                               "startSeed", "startState", "startThread",
                                               "rejoin", "dead"}
<1>3. Click => Quiet
  BY <1>2 DEF Click, ClickRun, ClickStop, ClickMenuStop, ClickDisconnect, ClickSetting,
        ClickSingle, ClickConnect, ClickClose, ClickChannel, UiIdle, UiGoto, Goto, threadVars,
        procVars, callVars, InStop
<1>4. WebCommand => Quiet
  BY DEF WebCommand, WebChannel, WebPosts, threadVars, procVars, callVars
<1>5. ConnectWork => Quiet
  BY DEF ConnectWork, ConnectOpens, ConnectIdentifies, ConnectSyncs, threadVars, procVars,
        callVars
<1>6. UiWork /\ ~StopAcquisition("ui") /\ ~StartAcquisition => Quiet
  BY <1>2 DEF UiWork, UiPostsChannel, UiSetsChannel, UiPostsSetting, UiStopsScope,
        UiDisconnects, UiExits, UiQuits, UiConnectDone, UiDone, UiGoto, Goto, threadVars,
        procVars, callVars, InStop
<1>7. Quiet
  BY <1>1, <1>3, <1>4, <1>5, <1>6
<1>8. pc'["ui"] = pc["ui"] \/ (~InStop /\ ~InStop')
  BY <1>7 DEF InStop
<1> QED BY <1>7, <1>8 DEF CalmInv, InStop, Starting

LEMMA CalmStep == TypeOK /\ HandedOver /\ StateInv /\ CalmInv /\ [CalmNext]_vars => CalmInv'
<1>1. CalmInv /\ UNCHANGED vars => CalmInv'
  BY DEF CalmInv, InStop, Starting, vars
<1> QED BY <1>1, CalmProc, CalmStop, CalmStart, CalmOther DEF CalmNext, Next, UiWork

LEMMA CalmHolds == CalmSpec => [](TypeOK /\ HandedOver /\ StateInv /\ CalmInv)
<1>1. Init => CalmInv
  BY DEF Init, CalmInv, InStop, Starting, Callers
<1>2. [CalmNext]_vars => [Next]_vars
  BY DEF CalmNext
<1> QED BY <1>1, <1>2, CalmStep, StateHolds, PTL DEF CalmSpec, Spec

\* StartAcquisition is to "Stop any existing thread before starting a new one"
\* (App/TDS520AApp.cpp:116).  This is violated only by a web stop or after a
\* reconnect that failed; without them m_thread is never assigned over a thread, and
\* no join() or assignment ends the process.
THEOREM RestartNeedsCalm == CalmSpec => [](OldThreadJoined /\ acqPc # "dead")
<1>1. CalmInv => OldThreadJoined /\ acqPc # "dead"
  BY DEF CalmInv, OldThreadJoined, Starting
<1> QED BY <1>1, CalmHolds, PTL

\* Besides, Stop never stores Stopping over the Stopped of a thread that has ended.
OrderlyNext == CalmNext /\ (StopSetsState("ui") => acqPc # "off")
OrderlySpec == Init /\ [][OrderlyNext]_vars

OrderlyInv ==
  /\ state = "Stopping" => pc["ui"] \in {"wait", "poll", "join"} /\ acqPc # "off"
  /\ pc["ui"] \in {"post", "start"} => state = "Stopped"

LEMMA OrderlyStep ==
  ASSUME TypeOK, HandedOver, StateInv, CalmInv, OrderlyInv, [OrderlyNext]_vars
  PROVE  OrderlyInv'
<1> USE DEF OrderlyInv, threadVars, procVars, callVars, Goto, UiGoto, UiDone
<1>1. CASE ThreadProc
  <2>1. /\ pc' = pc /\ (acqPc' = "off" => state' = "Stopped")
        /\ state' \in {state, "Stopped", "Error"} /\ acqPc \notin {"off", "dead"}
    BY <1>1 DEF ThreadProc, ProcTop, DrainSwap, ExecChannel, ExecSingle, ExecRun,
                ExecSetting, SettingLocks, DrainDone, FetchOk, CallbackReturns, FetchFails, AfterFailure,
                ReconnectCloses, ReconnectOpens, ReconnectIdentifies, ReconnectResumes,
                GiveUpState, GiveUpRequest, ProcExit
  <2>2. state # "Stopped"
    BY <2>1 DEF StateInv, StateTruth
  <2> QED BY <2>1, <2>2
<1>2. CASE StopAcquisition("ui")
  <2>1. "ui" \in DOMAIN pc /\ ~JoinThrows("ui")
    BY DEF TypeOK, Callers, JoinThrows, CalmInv
  <2>2. CASE StopRequests("ui") \/ WaitBegins("ui") \/ PollEnds("ui")
    BY <2>1, <2>2 DEF StopRequests, WaitBegins, PollEnds
  <2>3. CASE StopSetsState("ui")
    <3>1. acqPc # "off"
      BY <2>1, <2>3 DEF OrderlyNext, vars, StopSetsState
    <3> QED BY <2>1, <2>3, <3>1 DEF StopSetsState
  \* Leaving the stop: there is no thread, so that Stopping and Running are over.
  <2>4. CASE WaitFindsNoThread("ui") \/ Join("ui")
    <3>1. acqPc = "off" /\ acqPc' = acqPc /\ state' = state /\ pc["ui"] # "startThread"
      BY <2>4 DEF WaitFindsNoThread, Join, HandedOver, ThreadHeld, CalmInv
    <3>2. state = "Stopped"
      BY <3>1 DEF StateInv, StateTruth, TypeOK, States, CalmInv
    <3> QED BY <3>1, <3>2
  <2> QED BY <1>2, <2>1, <2>2, <2>3, <2>4 DEF StopAcquisition
<1>3. CASE StartAcquisition
  <2>1. "ui" \in DOMAIN pc
    BY DEF TypeOK, Callers
  <2>2. CASE RunChecksState
    <3>1. state \in {"Stopped", "Running"} /\ pc["ui"] = "run"
      BY <2>2 DEF RunChecksState, TypeOK, States, CalmInv
    <3> QED BY <2>1, <2>2, <3>1 DEF RunChecksState
  <2>3. CASE RunPosts \/ StartRefused \/ StartAccepted \/ StartResets \/ StartSeeds \/ StartSetsState
    BY <2>1, <2>3 DEF RunPosts, StartRefused, StartAccepted, StartResets, StartSeeds,
                      StartSetsState
  <2>4. CASE StartLaunches
    BY <2>1, <2>4 DEF StartLaunches, Terminate, CalmInv, Starting
  <2> QED BY <1>3, <2>2, <2>3, <2>4 DEF StartAcquisition
<1>4. CASE UiWork /\ ~StopAcquisition("ui") /\ ~StartAcquisition
  <2>1. /\ UNCHANGED <<acqPc, state>> /\ pc["ui"] \notin {"wait", "poll", "join"}
        /\ pc'["ui"] \notin {"wait", "poll", "join", "post", "start"}
    BY <1>4 DEF UiWork, UiPostsChannel, UiSetsChannel, UiPostsSetting, UiStopsScope,
                UiDisconnects, UiExits, UiQuits, UiConnectDone, TypeOK, Callers
  <2> QED BY <2>1
<1>5. CASE Click
  <2>1. /\ UNCHANGED <<acqPc, state>> /\ pc["ui"] = "idle"
        /\ pc'["ui"] \notin {"wait", "poll", "join", "post", "start"}
    BY <1>5 DEF Click, ClickRun, ClickStop, ClickMenuStop, ClickDisconnect, ClickSetting,
                ClickSingle, ClickConnect, ClickClose, ClickChannel, UiIdle, TypeOK, Callers
  <2> QED BY <2>1
<1>6. CASE WebWork \/ WebCommand \/ ConnectWork \/ UNCHANGED vars
  <2>1. ~WebWork
    BY DEF CalmInv, WebWork, StopAcquisition, StopRequests, StopSetsState, WaitFindsNoThread,
           WaitBegins, PollEnds, Join, JoinThrows
  <2>2. UNCHANGED <<acqPc, state>> /\ pc'["ui"] = pc["ui"]
    BY <1>6, <2>1 DEF WebCommand, WebChannel, WebPosts, WebStop, ConnectWork, ConnectOpens,
                      ConnectIdentifies, ConnectSyncs, vars, TypeOK, Callers
  <2> QED BY <2>2
<1> QED BY <1>1, <1>2, <1>3, <1>4, <1>5, <1>6 DEF OrderlyNext, CalmNext, Next, UiWork

\* OnBtnRun says that StartAcquisition handles a thread that is running and one that
\* was stopped (App/ScopeControlPanel.cpp:156).  This is violated only by a web stop,
\* after a reconnect that failed, or when Stop stores Stopping after the thread has
\* stored Stopped, be it because none ran or because it ended between Stop's stores
\* (Threads/AcquisitionThread.cpp:47).
THEOREM RunNeedsOrder == OrderlySpec => []RunStartsThread
<1>1. Init => OrderlyInv
  BY DEF Init, OrderlyInv, Callers
<1>2. [OrderlyNext]_vars => [CalmNext]_vars
  BY DEF OrderlyNext
<1>3. OrderlyInv => RunStartsThread
  BY DEF OrderlyInv, RunStartsThread
<1> QED BY <1>1, <1>2, <1>3, OrderlyStep, CalmHolds, PTL DEF OrderlySpec, CalmSpec
-----------------------------------------------------------------------------
(* What it takes for the comments to be wrong: the one about connecting *)

\* Run waits for the connect thread, and Connect for the acquisition thread.
ExclusiveNext == /\ Next
                 /\ ClickRun => connPc = "idle"
                 /\ ClickConnect => acqPc = "off"
ExclusiveSpec == Init /\ [][ExclusiveNext]_vars

ToStart == Starting \cup {"run", "post", "start"}

ExclusiveInv ==
  /\ connPc # "idle" =>
        acqPc \in {"off", "dead"} /\ pc["ui"] \notin ToStart /\ call.then # "post"
  /\ pc["ui"] \in {"idle", "scopeStop", "disconnect", "exit", "exitScope", "quit"}
        => call.then # "post"

LEMMA ExclusiveStep ==
  ASSUME TypeOK, HandedOver, ExclusiveInv, [ExclusiveNext]_vars
  PROVE  ExclusiveInv'
<1> USE DEF ExclusiveInv, threadVars, procVars, callVars, Goto, UiGoto, UiDone, NoCall
<1>0. /\ "ui" \in DOMAIN pc /\ "web" \in DOMAIN pc /\ pc \in [Callers -> UiPcs]
      /\ call.then \in {"idle", "post", "scopeStop", "disconnect", "exit", "exitScope", "quit"}
      /\ [call EXCEPT !.then = "post"].then = "post"
      /\ [call EXCEPT !.then = "exitScope"].then = "exitScope"
      /\ [call EXCEPT !.then = "quit"].then = "quit"
  BY DEF TypeOK, Callers
<1>1. CASE ThreadProc
  BY <1>1, ProcFrame DEF ThreadProc, ProcTop, DrainSwap, ExecChannel, ExecSingle, ExecRun,
                ExecSetting, SettingLocks, DrainDone, FetchOk, CallbackReturns, FetchFails, AfterFailure,
                ReconnectCloses, ReconnectOpens, ReconnectIdentifies, ReconnectResumes,
                GiveUpState, GiveUpRequest, ProcExit
<1>2. ASSUME NEW t \in Callers, StopAcquisition(t) PROVE ExclusiveInv'
  <2>1. CASE Join(t)
    <3>1. pc'["ui"] \in {pc["ui"], "rejoin", call.then}
      BY <1>0, <2>1 DEF Join, Continue, Callers
    <3>2. /\ connPc' = connPc /\ acqPc' = acqPc /\ call' = call
          /\ pc'["ui"] = call.then => t = "ui" \/ pc["ui"] = call.then
      BY <1>0, <2>1 DEF Join, Continue, Callers
    <3> QED BY <1>0, <3>1, <3>2 DEF ToStart, Starting
  <2>2. CASE ~Join(t)
    <3>1. CASE JoinThrows(t)
      BY <3>1 DEF JoinThrows, Terminate, Callers, ToStart, Starting
    <3>2. CASE WaitFindsNoThread(t)
      <4>1. pc'["ui"] \in {pc["ui"], call.then}
        BY <1>0, <3>2 DEF WaitFindsNoThread, Continue, Callers
      <4>2. connPc' = connPc /\ acqPc' = acqPc /\ call' = call
        BY <3>2 DEF WaitFindsNoThread
      <4> QED BY <1>0, <4>1, <4>2 DEF ToStart, Starting
    <3>3. CASE StopRequests(t) \/ StopSetsState(t) \/ WaitBegins(t) \/ PollEnds(t)
      BY <1>0, <3>3 DEF StopRequests, StopSetsState, WaitBegins, PollEnds, Callers, ToStart,
                        Starting
    <3> QED BY <1>2, <2>2, <3>1, <3>2, <3>3 DEF StopAcquisition
  <2> QED BY <2>1, <2>2
<1>3. CASE StartAcquisition
  BY <1>0, <1>3 DEF StartAcquisition, RunChecksState, RunPosts, StartRefused, StartAccepted,
        StartResets, StartSeeds, StartSetsState, StartLaunches, Terminate, Starting, ToStart
<1>4. CASE UiWork /\ ~StopAcquisition("ui") /\ ~StartAcquisition
  BY <1>0, <1>4 DEF UiWork, UiPostsChannel, UiSetsChannel, UiPostsSetting, UiStopsScope,
        UiDisconnects, UiExits, UiQuits, UiConnectDone, ToStart, Starting, TypeOK
<1>5. CASE Click
  BY <1>0, <1>5 DEF Click, ClickRun, ClickStop, ClickMenuStop, ClickDisconnect, ClickSetting,
        ClickSingle, ClickConnect, ClickClose, ClickChannel, UiIdle, ExclusiveNext, vars,
        ToStart, Starting
<1>6. CASE WebCommand \/ ConnectWork \/ UNCHANGED vars
  BY <1>0, <1>6 DEF WebCommand, WebChannel, WebPosts, WebStop, ConnectWork, ConnectOpens,
        ConnectIdentifies, ConnectSyncs, vars, ToStart, Starting
<1> QED BY <1>1, <1>2, <1>3, <1>4, <1>5, <1>6 DEF ExclusiveNext, Next, UiWork, WebWork, Callers

\* SyncSettingsFromScope is to run while "GPIB is free" (App/TDS520AApp.cpp:173).
\* This is violated only by a Run while a connection is being made, or by a
\* connection made while an acquisition thread still runs.
THEOREM SyncNeedsExclusion == ExclusiveSpec => []BusFreeDuringSync
<1>1. Init => ExclusiveInv
  BY DEF Init, ExclusiveInv, NoCall, Callers
<1>2. [ExclusiveNext]_vars => [Next]_vars
  BY DEF ExclusiveNext
<1>3. ExclusiveInv => BusFreeDuringSync
  BY DEF ExclusiveInv, BusFreeDuringSync, AcqInGpibCall
<1>4. TypeOK /\ HandedOver /\ ExclusiveInv /\ [ExclusiveNext]_vars => ExclusiveInv'
  BY ExclusiveStep
<1> QED BY <1>1, <1>2, <1>3, <1>4, StateHolds, PTL DEF ExclusiveSpec, Spec
=============================================================================
