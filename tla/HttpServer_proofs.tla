-------------------------- MODULE HttpServer_proofs --------------------------
(***************************************************************************)
(* Proofs about the server for every set of connections and every bound.   *)
(* The invariant orders the copies of a waveform along its way: what a     *)
(* page shows is never newer than the cache, the cache never newer than    *)
(* the broadcast thread's local, and that never newer than what is pending. *)
(***************************************************************************)
EXTENDS HttpServer, SequenceTheorems, TLAPS

USE HttpAssumption

\* Numbers only start above 0, so that an unsent number means a waveform.
NumbersMeanWaves ==
  /\ acqSeq <= pendingWave
  /\ pendingSeq = 0 => pendingWave = 0 /\ lastSent = 0
  /\ pendingWave = 0 => pendingSeq = 0

\* The copies of a waveform, from the page back to the pending slot.
CopiesInOrder ==
  /\ latest <= pendingWave
  /\ broadcastPc = "cache" => latest <= job /\ job <= pendingWave /\ job # 0
  /\ broadcastPc \in {"copy", "send"} => job = latest /\ job # 0
  /\ \A c \in Conns : shown[c] <= latest

\* A browser that waits to be accepted has no thread yet.
KnockersUnserved == \A c \in Conns : peer[c] = "knocking" => clientPc[c] = "none"

\* Who is being sent the latest waveform is sent one.
LatestIsThere == \A c \in Conns : clientPc[c] = "sendLatest" => latest # 0

HttpInv ==
  /\ TypeOK
  /\ NumbersMeanWaves
  /\ CopiesInOrder
  /\ KnockersUnserved
  /\ LatestIsThere
  /\ ClientsHaveThreads

-----------------------------------------------------------------------------
(* Types                                                                   *)

LEMMA QueueTypes ==
  ASSUME NEW q \in Seq(1..MaxCommands)
  PROVE  /\ \A n \in 1..MaxCommands : Append(q, n) \in Seq(1..MaxCommands)
         /\ q # << >> => Head(q) \in 1..MaxCommands /\ Tail(q) \in Seq(1..MaxCommands)
BY AppendProperties, HeadTailProperties

\* The steps of the UI, accept and command threads keep the types.
LEMMA ThreadTypes ==
  ASSUME TypeOK,
         Start \/ Stop \/ StopStep \/ AcceptStep \/ CommandStep \/ CommandRuns
  PROVE  TypeOK'
<1> USE DEF TypeOK, waveVars, setVars, cmdVars, connVars, threadVars
<1>1. CASE Start \/ Stop \/ StopClears \/ StopJoins
  <2>1. CASE Start
    BY <2>1 DEF Start
  <2>2. CASE Stop
    BY <2>2 DEF Stop
  <2>3. CASE StopClears
    BY <2>3 DEF StopClears
  <2>4. CASE StopJoins
    BY <2>4 DEF StopJoins
  <2> QED BY <1>1, <2>1, <2>2, <2>3, <2>4
<1>2. CASE StopCloses
  BY <1>2 DEF StopCloses
<1>3. CASE AcceptEnds
  BY <1>3 DEF AcceptEnds
<1>4. ASSUME NEW c \in Conns, Accept(c) PROVE TypeOK'
  BY <1>4 DEF Accept, ClientPcs
<1>5. CASE CommandEnds \/ CommandRuns
  BY <1>5 DEF CommandEnds, CommandRuns
<1>6. CASE CommandTaken
  BY <1>6, QueueTypes DEF CommandTaken
<1> QED BY <1>1, <1>2, <1>3, <1>4, <1>5, <1>6 DEF StopStep, AcceptStep, CommandStep

\* So do the waveform's steps.
LEMMA WaveTypes ==
  ASSUME TypeOK, NumbersMeanWaves,
         \/ BroadcastStep \/ PostWaveform \/ AcquisitionRestarts
         \/ \E c \in Conns : SendText(c)
  PROVE  TypeOK'
<1> USE DEF TypeOK, waveVars, setVars, cmdVars, connVars, threadVars, Waves
<1>1. CASE BroadcastEnds \/ BroadcastTakes \/ BroadcastCaches
  <2>1. CASE BroadcastEnds
    BY <2>1 DEF BroadcastEnds
  <2>2. CASE BroadcastTakes
    BY <2>2 DEF BroadcastTakes
  <2>3. CASE BroadcastCaches
    BY <2>3 DEF BroadcastCaches
  <2> QED BY <1>1, <2>1, <2>2, <2>3
<1>2. CASE SendToAllClients \/ SendReturns
  <2>1. CASE SendToAllClients
    BY <2>1 DEF SendToAllClients
  <2>2. CASE SendReturns
    BY <2>2 DEF SendReturns
  <2> QED BY <1>2, <2>1, <2>2
<1>3. ASSUME NEW c \in Conns, SendText(c) PROVE TypeOK'
  BY <1>3 DEF SendText
<1>4. CASE PostWaveform
  BY <1>4 DEF PostWaveform, NumbersMeanWaves
<1>5. CASE AcquisitionRestarts
  BY <1>5 DEF AcquisitionRestarts
<1> QED BY <1>1, <1>2, <1>3, <1>4, <1>5 DEF BroadcastStep

\* And the steps of a client thread and of its browser.
LEMMA ClientTypes ==
  ASSUME TypeOK, NEW c \in Conns,
         \/ ClientStep(c) \/ ProcessWsCommand(c) \/ BrowserStep(c)
         \/ ClientAnswered(c) \/ ClientSendsLatest(c) \/ ClientSendsStatus(c)
  PROVE  TypeOK'
<1> USE DEF TypeOK, waveVars, setVars, cmdVars, connVars, threadVars, ClientAt,
            ClientPcs, NextTurn
<1>1. CASE \/ ClientCloses(c) \/ ClientAnswers(c) \/ ClientAnswered(c)
           \/ Upgrade(c) \/ ClientLocksWave(c)
  <2>1. CASE ClientCloses(c) \/ ClientAnswers(c) \/ ClientAnswered(c)
    BY <2>1 DEF ClientCloses, ClientAnswers, ClientAnswered
  <2>2. CASE Upgrade(c)
    BY <2>2 DEF Upgrade
  <2>3. CASE ClientLocksWave(c)
    BY <2>3 DEF ClientLocksWave
  <2> QED BY <1>1, <2>1, <2>2, <2>3
<1>7. CASE ClientLocksStatus(c) \/ ClientSendsStatus(c)
  <2>1. CASE ClientLocksStatus(c)
    BY <2>1 DEF ClientLocksStatus
  <2>2. CASE ClientSendsStatus(c)
    BY <2>2 DEF ClientSendsStatus
  <2> QED BY <1>7, <2>1, <2>2
<1>2. CASE ClientSendsLatest(c)
  BY <1>2 DEF ClientSendsLatest
<1>3. CASE ClientRegisters(c) \/ ClientUnregisters(c)
  <2>1. CASE ClientRegisters(c)
    BY <2>1 DEF ClientRegisters
  <2>2. CASE ClientUnregisters(c)
    BY <2>2 DEF ClientUnregisters
  <2> QED BY <1>3, <2>1, <2>2
<1>4. CASE ClientReceivesNothing(c) \/ ClientSeesEnd(c)
  <2>1. CASE ClientReceivesNothing(c)
    BY <2>1 DEF ClientReceivesNothing
  <2>2. CASE ClientSeesEnd(c)
    BY <2>2 DEF ClientSeesEnd
  <2> QED BY <1>4, <2>1, <2>2
<1>5. CASE ProcessWsCommand(c)
  <2>1. cmdQueue' \in Seq(1..MaxCommands)
    BY <1>5, QueueTypes DEF ProcessWsCommand
  <2> QED BY <1>5, <2>1 DEF ProcessWsCommand
<1>6. CASE BrowserStep(c)
  <2>1. ASSUME NEW from, NEW to \in {"away", "knocking", "up"}, Browser(c, from, to)
        PROVE  TypeOK'
    BY <2>1 DEF Browser
  <2> HIDE DEF TypeOK
  <2> QED BY <1>6, <2>1 DEF BrowserStep, BrowserConnects, BrowserLeaves, BrowserSeesClose
<1> QED BY <1>1, <1>2, <1>3, <1>4, <1>5, <1>6, <1>7 DEF ClientStep

-----------------------------------------------------------------------------
(* The rest of the invariant                                               *)

\* Steps that leave the waveforms alone.
WavesUntouched == UNCHANGED <<broadcastPc, pendingSeq, pendingWave, lastSent, job,
                              latest, acqSeq, shown>>

LEMMA UntouchedSteps ==
  ASSUME \/ Stop \/ StopStep \/ AcceptStep \/ CommandStep \/ CommandRuns
         \/ \E c \in Conns : \/ ClientStep(c) \/ ProcessWsCommand(c) \/ BrowserStep(c)
                             \/ ClientAnswered(c) \/ ClientSendsStatus(c)
         \/ UNCHANGED vars
  PROVE  WavesUntouched
<1> USE DEF WavesUntouched, waveVars, setVars, cmdVars, connVars, threadVars
<1>1. CASE Stop
  BY <1>1 DEF Stop
<1>2. CASE StopStep
  BY <1>2 DEF StopStep, StopCloses, StopClears, StopJoins
<1>3. CASE AcceptStep
  BY <1>3 DEF AcceptStep, AcceptEnds, Accept
<1>4. CASE CommandStep \/ CommandRuns
  BY <1>4 DEF CommandStep, CommandEnds, CommandTaken, CommandRuns
<1>5. ASSUME NEW c \in Conns, ClientStep(c) \/ ClientAnswered(c) \/ ClientSendsStatus(c)
      PROVE  WavesUntouched
  BY <1>5 DEF ClientStep, ClientCloses, ClientAnswers, ClientAnswered, Upgrade,
              ClientLocksWave, ClientLocksStatus, ClientSendsStatus, ClientRegisters,
              ClientReceivesNothing, ClientSeesEnd, ClientUnregisters, ClientAt
<1>6. ASSUME NEW c \in Conns, ProcessWsCommand(c) \/ BrowserStep(c) PROVE WavesUntouched
  BY <1>6 DEF ProcessWsCommand, ClientAt, BrowserStep, BrowserConnects, BrowserLeaves,
              BrowserSeesClose, Browser
<1>7. CASE UNCHANGED vars
  BY <1>7 DEF vars
<1> QED BY <1>1, <1>2, <1>3, <1>4, <1>5, <1>6, <1>7

\* Every step keeps the copies of a waveform in order.
LEMMA OrderKept ==
  ASSUME TypeOK, NumbersMeanWaves, CopiesInOrder, [Next]_vars
  PROVE  NumbersMeanWaves' /\ CopiesInOrder'
<1> USE DEF TypeOK, NumbersMeanWaves, CopiesInOrder, Waves
<1>1. CASE WavesUntouched
  BY <1>1 DEF WavesUntouched
<1>2. CASE Start
  BY <1>2 DEF Start, waveVars, connVars
<1>3. CASE PostWaveform
  BY <1>3 DEF PostWaveform, threadVars, connVars
<1>4. CASE AcquisitionRestarts
  BY <1>4 DEF AcquisitionRestarts, threadVars, connVars
<1>5. CASE BroadcastEnds
  BY <1>5 DEF BroadcastEnds, connVars
<1>6. CASE BroadcastTakes
  BY <1>6 DEF BroadcastTakes, connVars
<1>7. CASE BroadcastCaches
  BY <1>7 DEF BroadcastCaches, connVars
<1>8. CASE SendToAllClients
  BY <1>8 DEF SendToAllClients, connVars, waveVars
<1>9. ASSUME NEW c \in Conns, SendText(c) PROVE NumbersMeanWaves' /\ CopiesInOrder'
  BY <1>9 DEF SendText, threadVars, waveVars
<1>10. CASE SendReturns
  BY <1>10 DEF SendReturns, connVars
<1>11. ASSUME NEW c \in Conns, ClientSendsLatest(c)
       PROVE  NumbersMeanWaves' /\ CopiesInOrder'
  BY <1>11 DEF ClientSendsLatest, ClientAt, waveVars
<1> HIDE DEF TypeOK, NumbersMeanWaves, CopiesInOrder
<1> QED BY <1>1, <1>2, <1>3, <1>4, <1>5, <1>6, <1>7, <1>8, <1>9, <1>10, <1>11,
           UntouchedSteps DEF Next, BroadcastStep, MayHang

\* Every step keeps a thread behind each registered connection, and none behind
\* a browser that still waits.
LEMMA ThreadsKept ==
  ASSUME TypeOK, KnockersUnserved, ClientsHaveThreads, [Next]_vars
  PROVE  KnockersUnserved' /\ ClientsHaveThreads'
<1> USE DEF TypeOK, KnockersUnserved, ClientsHaveThreads, waveVars, setVars, cmdVars,
            connVars, threadVars
<1>1. CASE Start \/ Stop \/ StopClears \/ StopJoins \/ StopCloses
  BY <1>1 DEF Start, Stop, StopClears, StopJoins, StopCloses
<1>2. CASE AcceptEnds
  BY <1>2 DEF AcceptEnds
<1>3. ASSUME NEW c \in Conns, Accept(c) PROVE KnockersUnserved' /\ ClientsHaveThreads'
  BY <1>3 DEF Accept
<1>4. CASE CommandStep \/ CommandRuns
  BY <1>4 DEF CommandStep, CommandEnds, CommandTaken, CommandRuns
<1>5. CASE PostWaveform \/ AcquisitionRestarts
  BY <1>5 DEF PostWaveform, AcquisitionRestarts
<1>6. CASE BroadcastStep \/ \E c \in Conns : SendText(c)
  BY <1>6 DEF BroadcastStep, BroadcastEnds, BroadcastTakes, BroadcastCaches,
              SendToAllClients, SendReturns, SendText
<1>7. ASSUME NEW c \in Conns,
             \/ ClientCloses(c) \/ ClientAnswers(c) \/ ClientAnswered(c) \/ Upgrade(c)
             \/ ClientLocksWave(c) \/ ClientSendsLatest(c)
             \/ ClientLocksStatus(c) \/ ClientSendsStatus(c)
      PROVE  KnockersUnserved' /\ ClientsHaveThreads'
  BY <1>7 DEF ClientCloses, ClientAnswers, ClientAnswered, Upgrade, ClientLocksWave,
              ClientSendsLatest, ClientLocksStatus, ClientSendsStatus, ClientAt
<1>8. ASSUME NEW c \in Conns, ClientRegisters(c) \/ ClientUnregisters(c)
      PROVE  KnockersUnserved' /\ ClientsHaveThreads'
  BY <1>8 DEF ClientRegisters, ClientUnregisters, ClientAt, NextTurn
<1>9. ASSUME NEW c \in Conns,
             ClientReceivesNothing(c) \/ ProcessWsCommand(c) \/ ClientSeesEnd(c)
      PROVE  KnockersUnserved' /\ ClientsHaveThreads'
  BY <1>9 DEF ClientReceivesNothing, ProcessWsCommand, ClientSeesEnd, ClientAt, NextTurn
<1>10. ASSUME NEW c \in Conns, BrowserStep(c)
       PROVE  KnockersUnserved' /\ ClientsHaveThreads'
  BY <1>10 DEF BrowserStep, BrowserConnects, BrowserLeaves, BrowserSeesClose, Browser,
               Released
<1>11. CASE UNCHANGED vars
  BY <1>11 DEF vars
<1> QED BY <1>1, <1>2, <1>3, <1>4, <1>5, <1>6, <1>7, <1>8, <1>9, <1>10, <1>11
        DEF Next, StopStep, AcceptStep, ClientStep, MayHang

\* Only the broadcast thread fills the cache, and it never empties it.
LEMMA LatestKept ==
  ASSUME TypeOK, CopiesInOrder, LatestIsThere, [Next]_vars
  PROVE  LatestIsThere'
<1> USE DEF TypeOK, LatestIsThere, waveVars, threadVars
<1>1. CASE BroadcastCaches
  BY <1>1 DEF BroadcastCaches, CopiesInOrder
<1>2. ASSUME NEW c \in Conns,
             \/ ClientStep(c) \/ ProcessWsCommand(c) \/ ClientAnswered(c)
             \/ ClientSendsLatest(c) \/ ClientSendsStatus(c)
      PROVE  LatestIsThere'
  <2>1. CASE ClientLocksWave(c)
    BY <2>1 DEF ClientLocksWave, ClientAt
  <2>2. ASSUME NEW from, NEW to, to # "sendLatest", ClientAt(c, from, to)
        PROVE  LatestIsThere'
    BY <2>2 DEF ClientAt
  <2> HIDE DEF TypeOK, LatestIsThere
  <2> QED BY <1>2, <2>1, <2>2 DEF ClientStep, ClientCloses, ClientAnswers, Upgrade,
             ClientLocksStatus, ClientRegisters, ClientReceivesNothing, ClientSeesEnd,
             ClientUnregisters, ProcessWsCommand, ClientAnswered, ClientSendsLatest,
             ClientSendsStatus, NextTurn
<1>3. CASE Start \/ Stop \/ StopStep \/ CommandStep \/ CommandRuns
  BY <1>3 DEF Start, Stop, StopStep, StopCloses, StopClears, StopJoins, CommandStep,
              CommandEnds, CommandTaken, CommandRuns
<1>4. CASE AcceptStep
  BY <1>4 DEF AcceptStep, AcceptEnds, Accept
<1>5. CASE PostWaveform \/ AcquisitionRestarts
  BY <1>5 DEF PostWaveform, AcquisitionRestarts
<1>6. CASE BroadcastEnds \/ BroadcastTakes \/ SendToAllClients \/ SendReturns
  BY <1>6 DEF BroadcastEnds, BroadcastTakes, SendToAllClients, SendReturns
<1>7. ASSUME NEW c \in Conns, SendText(c) \/ BrowserStep(c) PROVE LatestIsThere'
  BY <1>7 DEF SendText, BrowserStep, BrowserConnects, BrowserLeaves, BrowserSeesClose,
              Browser
<1>8. CASE UNCHANGED vars
  BY <1>8 DEF vars
<1> HIDE DEF TypeOK, LatestIsThere
<1> QED BY <1>1, <1>2, <1>3, <1>4, <1>5, <1>6, <1>7, <1>8
        DEF Next, BroadcastStep, MayHang

-----------------------------------------------------------------------------
(* The theorems                                                            *)

LEMMA InitInv == Init => HttpInv
<1> SUFFICES ASSUME Init PROVE HttpInv
  OBVIOUS
<1>1. 0 \in Waves /\ 0 \in 0..MaxCommands
  BY DEF Waves
<1>2. cmdQueue \in Seq(1..MaxCommands)
  BY EmptySeq DEF Init
<1>3. TypeOK
  BY <1>1, <1>2 DEF Init, TypeOK, ClientPcs
<1>4. NumbersMeanWaves /\ CopiesInOrder
  BY DEF Init, NumbersMeanWaves, CopiesInOrder
<1>5. KnockersUnserved /\ LatestIsThere /\ ClientsHaveThreads
  BY DEF Init, KnockersUnserved, LatestIsThere, ClientsHaveThreads
<1> QED BY <1>3, <1>4, <1>5 DEF HttpInv

LEMMA NextInv == HttpInv /\ [Next]_vars => HttpInv'
<1> SUFFICES ASSUME HttpInv, [Next]_vars PROVE HttpInv'
  OBVIOUS
<1>1. TypeOK'
  <2>1. CASE UNCHANGED vars
    BY <2>1 DEF HttpInv, TypeOK, vars, waveVars, setVars, cmdVars, connVars, threadVars
  <2> QED BY <2>1, ThreadTypes, WaveTypes, ClientTypes DEF HttpInv, Next, MayHang
<1> QED BY <1>1, OrderKept, ThreadsKept, LatestKept DEF HttpInv

LEMMA HttpInvariant == Spec => []HttpInv
BY InitInv, NextInv, PTL DEF Spec

\* Types of the server, its threads and its browsers.
THEOREM TypeCorrect == Spec => []TypeOK
<1>1. HttpInv => TypeOK
  BY DEF HttpInv
<1> QED BY <1>1, HttpInvariant, PTL

\* No connection object stays registered without the thread that removes it,
\* however Start and Stop fall among connecting and leaving.
THEOREM RegisteredAreServed == Spec => []ClientsHaveThreads
<1>1. HttpInv => ClientsHaveThreads
  BY DEF HttpInv
<1> QED BY <1>1, HttpInvariant, PTL

\* What a step sends is the cached waveform.
LEMMA HubStep ==
  ASSUME HttpInv, HttpInv', [Next]_vars
  PROVE  [Hub!Next]_(Hub!lvVars)
<1> USE DEF HttpInv, TypeOK, Waves, Hub!lvVars
<1>1. CASE WavesUntouched
  BY <1>1 DEF WavesUntouched
<1>2. CASE UNCHANGED <<pendingWave, latest, shown>>
  BY <1>2
<1>3. CASE PostWaveform
  BY <1>3 DEF PostWaveform, connVars, Hub!Next, Hub!Post
<1>4. CASE BroadcastCaches
  BY <1>4 DEF BroadcastCaches, connVars, CopiesInOrder, Hub!Next, Hub!Publish
<1>5. ASSUME NEW c \in Conns, SendText(c) PROVE [Hub!Next]_(Hub!lvVars)
  BY <1>5 DEF SendText, waveVars, CopiesInOrder, Hub!Next, Hub!Deliver
<1>6. ASSUME NEW c \in Conns, ClientSendsLatest(c) PROVE [Hub!Next]_(Hub!lvVars)
  BY <1>6 DEF ClientSendsLatest, ClientAt, LatestIsThere, waveVars, Hub!Next, Hub!Deliver
<1>7. CASE Start \/ AcquisitionRestarts
  BY <1>7, <1>2 DEF Start, AcquisitionRestarts, waveVars, connVars
<1>8. CASE BroadcastEnds \/ BroadcastTakes \/ SendToAllClients \/ SendReturns
  BY <1>8, <1>2 DEF BroadcastEnds, BroadcastTakes, SendToAllClients, SendReturns, waveVars,
                    connVars
<1> HIDE DEF HttpInv, TypeOK
<1>9. CASE \/ Stop \/ StopStep \/ AcceptStep \/ CommandStep \/ CommandRuns
           \/ UNCHANGED vars
           \/ \E c \in Conns : \/ ClientStep(c) \/ ProcessWsCommand(c) \/ BrowserStep(c)
                               \/ ClientAnswered(c) \/ ClientSendsStatus(c)
  BY <1>9, <1>1, <1>2, UntouchedSteps
<1> QED BY <1>3, <1>4, <1>5, <1>6, <1>7, <1>8, <1>9 DEF Next, BroadcastStep, MayHang

\* The server implements the hub of the newest waveform.
THEOREM ImplementsHub == Spec => HubSpec
<1>1. Init => Hub!Init
  BY DEF Init, Hub!Init
<1>2. HttpInv /\ HttpInv' /\ [Next]_vars => [Hub!Next]_(Hub!lvVars)
  BY HubStep
<1> QED BY <1>1, <1>2, HttpInvariant, PTL DEF Spec, HubSpec, Hub!Spec

\* No page ever goes back to an older waveform: a consequence of the hub, whose
\* value never decreases and never falls behind what was shown.
THEOREM PagesGoForward == Spec => NeverBackwards
<1>1. HttpInv /\ [Next]_vars => [\A c \in Conns : shown'[c] >= shown[c]]_vars
  <2> SUFFICES ASSUME HttpInv, [Next]_vars
               PROVE  [\A c \in Conns : shown'[c] >= shown[c]]_vars
    OBVIOUS
  <2> USE DEF HttpInv, TypeOK, Waves
  <2>1. ASSUME shown' = shown PROVE \A c \in Conns : shown'[c] >= shown[c]
    BY <2>1
  <2>2. ASSUME NEW d \in Conns, SendText(d)
        PROVE  \A c \in Conns : shown'[c] >= shown[c]
    BY <2>2 DEF SendText, CopiesInOrder
  <2>3. ASSUME NEW d \in Conns, ClientSendsLatest(d)
        PROVE  \A c \in Conns : shown'[c] >= shown[c]
    BY <2>3 DEF ClientSendsLatest, CopiesInOrder
  <2>4. CASE \/ Start \/ AcquisitionRestarts \/ PostWaveform \/ BroadcastEnds
             \/ BroadcastTakes \/ BroadcastCaches \/ SendToAllClients \/ SendReturns
    BY <2>4, <2>1 DEF Start, AcquisitionRestarts, PostWaveform, BroadcastEnds,
       BroadcastTakes, BroadcastCaches, SendToAllClients, SendReturns, connVars
  <2> HIDE DEF HttpInv, TypeOK
  <2>5. CASE \/ Stop \/ StopStep \/ AcceptStep \/ CommandStep \/ CommandRuns
             \/ UNCHANGED vars
             \/ \E c \in Conns : \/ ClientStep(c) \/ ProcessWsCommand(c) \/ BrowserStep(c)
                                 \/ ClientAnswered(c) \/ ClientSendsStatus(c)
    BY <2>5, <2>1, UntouchedSteps DEF WavesUntouched
  <2> QED BY <2>2, <2>3, <2>4, <2>5 DEF Next, BroadcastStep, MayHang
<1> QED BY <1>1, HttpInvariant, PTL DEF Spec, NeverBackwards

-----------------------------------------------------------------------------
(* Commands are taken once each and in order                               *)

\* What was received and not yet taken are the last numbers, in order; the command
\* being run is the one before them.
CommandsInOrder ==
  /\ Len(cmdQueue) <= sent
  /\ \A i \in DOMAIN cmdQueue : cmdQueue[i] = sent - Len(cmdQueue) + i
  /\ cmdPc = "run" => command = sent - Len(cmdQueue)

CommandsUntouched == UNCHANGED <<cmdPc, cmdQueue, command, sent>>

LEMMA OthersLeaveCommands ==
  ASSUME Next, ~Start, ~CommandStep, ~CommandRuns,
         ~(\E c \in Conns : ProcessWsCommand(c))
  PROVE  CommandsUntouched
<1> USE DEF CommandsUntouched, cmdVars, threadVars
<1>1. CASE Stop \/ StopStep \/ AcceptStep
  BY <1>1 DEF Stop, StopStep, StopCloses, StopClears, StopJoins, AcceptStep, AcceptEnds, Accept
<1>2. CASE \/ BroadcastStep \/ PostWaveform \/ AcquisitionRestarts
           \/ \E c \in Conns : SendText(c)
  BY <1>2 DEF BroadcastStep, BroadcastEnds, BroadcastTakes, BroadcastCaches,
              SendToAllClients, SendText, SendReturns, PostWaveform, AcquisitionRestarts
<1>3. ASSUME NEW c \in Conns,
             \/ ClientStep(c) \/ BrowserStep(c) \/ ClientAnswered(c)
             \/ ClientSendsLatest(c) \/ ClientSendsStatus(c)
      PROVE  CommandsUntouched
  BY <1>3 DEF ClientStep, ClientCloses, ClientAnswers, ClientAnswered, Upgrade,
              ClientLocksWave, ClientSendsLatest, ClientLocksStatus, ClientSendsStatus,
              ClientRegisters, ClientReceivesNothing, ClientSeesEnd, ClientUnregisters, ClientAt,
              BrowserStep, BrowserConnects, BrowserLeaves, BrowserSeesClose, Browser
<1> QED BY <1>1, <1>2, <1>3 DEF Next, MayHang

LEMMA CommandsKept ==
  ASSUME TypeOK, CommandsInOrder, [Next]_vars
  PROVE  CommandsInOrder'
<1>0. cmdQueue \in Seq(1..MaxCommands) /\ sent \in Nat /\ Len(cmdQueue) \in Nat
      /\ DOMAIN cmdQueue = 1..Len(cmdQueue)
  BY LenProperties DEF TypeOK
<1>1. CASE CommandsUntouched
  BY <1>1 DEF CommandsUntouched, CommandsInOrder
<1>2. CASE Start
  BY <1>2 DEF Start, CommandsInOrder, cmdVars
<1>3. CASE CommandEnds \/ CommandRuns
  BY <1>3 DEF CommandEnds, CommandRuns, CommandsInOrder, cmdVars
<1>4. CASE CommandTaken
  <2>1. /\ cmdQueue # << >> /\ cmdQueue' = Tail(cmdQueue) /\ sent' = sent
        /\ command' = Head(cmdQueue)
    BY <1>4 DEF CommandTaken
  <2>2. /\ Len(cmdQueue) \in Nat \ {0} /\ Head(cmdQueue) = cmdQueue[1]
        /\ Len(cmdQueue') = Len(cmdQueue) - 1 /\ DOMAIN cmdQueue' = 1..Len(cmdQueue) - 1
        /\ \A i \in 1..Len(cmdQueue) - 1 : cmdQueue'[i] = cmdQueue[i + 1]
    BY <1>0, <2>1, HeadTailProperties, LenProperties, EmptySeq
  <2>3. command' = sent - Len(cmdQueue) + 1
    BY <1>0, <2>1, <2>2 DEF CommandsInOrder
  <2>4. ASSUME NEW i \in DOMAIN cmdQueue'
        PROVE  cmdQueue'[i] = sent - Len(cmdQueue) + (i + 1)
    <3>1. i \in 1..Len(cmdQueue) - 1 /\ i + 1 \in DOMAIN cmdQueue
      BY <1>0, <2>2, <2>4
    <3>2. cmdQueue'[i] = cmdQueue[i + 1]
      BY <2>2, <3>1
    <3> QED BY <3>1, <3>2 DEF CommandsInOrder
  <2>5. ASSUME NEW i \in DOMAIN cmdQueue'
        PROVE  cmdQueue'[i] = sent' - Len(cmdQueue') + i
    <3>1. cmdQueue'[i] = sent - Len(cmdQueue) + (i + 1) /\ i \in Nat
      BY <2>2, <2>4
    <3> QED BY <1>0, <2>1, <2>2, <3>1
  <2> QED BY <1>0, <2>1, <2>2, <2>3, <2>5 DEF CommandsInOrder
<1>5. ASSUME NEW c \in Conns, ProcessWsCommand(c)
      PROVE  CommandsInOrder'
  <2>1. /\ cmdQueue' = Append(cmdQueue, sent + 1) /\ sent' = sent + 1
        /\ command' = command /\ cmdPc' = cmdPc /\ sent + 1 \in 1..MaxCommands
    BY <1>0, <1>5 DEF ProcessWsCommand, ClientAt
  <2>2. /\ Len(cmdQueue') = Len(cmdQueue) + 1 /\ DOMAIN cmdQueue' = 1..Len(cmdQueue) + 1
        /\ \A i \in 1..Len(cmdQueue) : cmdQueue'[i] = cmdQueue[i]
        /\ cmdQueue'[Len(cmdQueue) + 1] = sent + 1
    BY <1>0, <2>1, AppendProperties
  <2>3. ASSUME NEW i \in DOMAIN cmdQueue'
        PROVE  cmdQueue'[i] = sent' - Len(cmdQueue') + i
    <3>1. CASE i = Len(cmdQueue) + 1
      BY <1>0, <2>1, <2>2, <3>1 DEF CommandsInOrder
    <3>2. CASE i \in 1..Len(cmdQueue)
      BY <1>0, <2>1, <2>2, <3>2 DEF CommandsInOrder
    <3> QED BY <1>0, <2>2, <3>1, <3>2
  <2> QED BY <1>0, <2>1, <2>2, <2>3 DEF CommandsInOrder
<1>6. CASE UNCHANGED vars
  BY <1>6 DEF vars, CommandsInOrder, cmdVars, threadVars
<1> QED BY <1>1, <1>2, <1>3, <1>4, <1>5, <1>6, OthersLeaveCommands DEF CommandStep

\* The command thread carries out each command that was received once, in the order
\* in which they were received, also when the server is stopped and started while
\* some wait (HttpServer/HttpServer.cpp, CommandDispatchLoop).
THEOREM CommandsOnce ==
  Spec => /\ []CommandsInOrder
          /\ [][CommandTaken => command' = sent - Len(cmdQueue) + 1]_vars
<1>1. Init => CommandsInOrder
  BY EmptySeq DEF Init, CommandsInOrder
<1>2. HttpInv /\ CommandsInOrder /\ [Next]_vars => CommandsInOrder'
  BY CommandsKept DEF HttpInv
<1>3. HttpInv /\ CommandsInOrder
        => [CommandTaken => command' = sent - Len(cmdQueue) + 1]_vars
  <2> SUFFICES ASSUME TypeOK, CommandsInOrder, CommandTaken
               PROVE  command' = sent - Len(cmdQueue) + 1
    BY DEF HttpInv
  <2>1. cmdQueue # << >> /\ command' = Head(cmdQueue) /\ cmdQueue \in Seq(1..MaxCommands)
    BY DEF CommandTaken, TypeOK
  <2>2. Head(cmdQueue) = cmdQueue[1] /\ 1 \in DOMAIN cmdQueue
    BY <2>1, HeadTailProperties, LenProperties, EmptySeq
  <2> QED BY <2>1, <2>2 DEF CommandsInOrder
<1> QED BY <1>1, <1>2, <1>3, HttpInvariant, PTL DEF Spec
-----------------------------------------------------------------------------
(* Start never finds a thread                                              *)

ThreadsMatchRunning ==
  /\ running => /\ uiPc = "idle"
                /\ acceptPc # "off" /\ broadcastPc # "off" /\ cmdPc # "off"
  /\ uiPc = "idle" /\ ~running => acceptPc = "off" /\ broadcastPc = "off" /\ cmdPc = "off"

LEMMA ThreadsMatchKept ==
  ASSUME ThreadsMatchRunning, [Next]_vars
  PROVE  ThreadsMatchRunning'
<1> USE DEF ThreadsMatchRunning, threadVars
<1>1. CASE Start \/ Stop \/ StopStep
  BY <1>1 DEF Start, Stop, StopStep, StopCloses, StopClears, StopJoins
<1>2. CASE AcceptStep \/ CommandStep \/ CommandRuns
  BY <1>2 DEF AcceptStep, AcceptEnds, Accept, CommandStep, CommandEnds, CommandTaken,
              CommandRuns
<1>3. CASE \/ BroadcastStep \/ PostWaveform \/ AcquisitionRestarts
           \/ \E c \in Conns : SendText(c)
  BY <1>3 DEF BroadcastStep, BroadcastEnds, BroadcastTakes, BroadcastCaches,
              SendToAllClients, SendText, SendReturns, PostWaveform, AcquisitionRestarts
<1>4. ASSUME NEW c \in Conns,
             \/ ClientStep(c) \/ ProcessWsCommand(c) \/ BrowserStep(c)
             \/ ClientAnswered(c) \/ ClientSendsLatest(c) \/ ClientSendsStatus(c)
      PROVE  ThreadsMatchRunning'
  BY <1>4 DEF ClientStep, ClientCloses, ClientAnswers, ClientAnswered, Upgrade,
              ClientLocksWave, ClientSendsLatest, ClientLocksStatus, ClientSendsStatus,
              ClientRegisters, ClientReceivesNothing, ClientSeesEnd, ClientUnregisters, ClientAt,
              ProcessWsCommand, BrowserStep, BrowserConnects, BrowserLeaves,
              BrowserSeesClose, Browser
<1>5. CASE UNCHANGED vars
  BY <1>5 DEF vars
<1> QED BY <1>1, <1>2, <1>3, <1>4, <1>5 DEF Next, MayHang

\* Start assigns its three std::threads, which would end the process if one of
\* them were joinable: Stop has always waited for all of them, and while the server
\* runs none of them has left its loop.
THEOREM StartFindsNoThread == Spec => []ThreadsMatchRunning
<1>1. Init => ThreadsMatchRunning
  BY DEF Init, ThreadsMatchRunning
<1>2. ThreadsMatchRunning /\ [Next]_vars => ThreadsMatchRunning'
  BY ThreadsMatchKept
<1> QED BY <1>1, <1>2, PTL DEF Spec
-----------------------------------------------------------------------------
(* Everybody in the broadcast's copy of the list is served                 *)

\* A connection in the copy is past its first message, and is not used by a new
\* browser before the copy is dropped.
CopyIsHeld ==
  /\ \A c \in Conns :
       clientPc[c] \notin {"none", "http", "answer"} /\ peer[c] = "up" => open[c]
  /\ \A c \in snapshot : /\ clientPc[c] \in {"none", "receive", "unregister"}
                         /\ peer[c] # "knocking"
                         /\ peer[c] = "up" => open[c]

CopyIsServed ==
  broadcastPc = "send" => \A c \in snapshot \ todo : peer[c] = "up" => shown[c] = job

LEMMA CopyKept ==
  ASSUME HttpInv, CopyIsHeld, CopyIsServed, [Next]_vars
  PROVE  CopyIsHeld' /\ CopyIsServed'
<1> USE DEF HttpInv, TypeOK, CopyIsHeld, CopyIsServed, waveVars, setVars, cmdVars, connVars,
            threadVars
<1>1. CASE Start \/ Stop \/ StopClears \/ StopJoins \/ AcceptEnds
  BY <1>1 DEF Start, Stop, StopClears, StopJoins, AcceptEnds, ThreadsMatchRunning
<1>2. CASE StopCloses
  BY <1>2 DEF StopCloses
<1>3. ASSUME NEW c \in Conns, Accept(c) PROVE CopyIsHeld' /\ CopyIsServed'
  BY <1>3 DEF Accept
<1>4. CASE CommandStep \/ CommandRuns \/ PostWaveform \/ AcquisitionRestarts
  BY <1>4 DEF CommandStep, CommandEnds, CommandTaken, CommandRuns, PostWaveform,
              AcquisitionRestarts
<1>5. CASE BroadcastEnds \/ BroadcastTakes \/ BroadcastCaches \/ SendReturns
  BY <1>5 DEF BroadcastEnds, BroadcastTakes, BroadcastCaches, SendReturns
<1>6. CASE SendToAllClients
  BY <1>6 DEF SendToAllClients, ClientsHaveThreads, KnockersUnserved
<1>7. ASSUME NEW c \in Conns, SendText(c) PROVE CopyIsHeld' /\ CopyIsServed'
  BY <1>7 DEF SendText
<1>8. ASSUME NEW c \in Conns,
             \/ ClientCloses(c) \/ ClientAnswers(c) \/ ClientAnswered(c) \/ Upgrade(c)
             \/ ClientLocksWave(c) \/ ClientSendsLatest(c)
             \/ ClientLocksStatus(c) \/ ClientSendsStatus(c)
      PROVE  CopyIsHeld' /\ CopyIsServed'
  <2>1. CASE ClientCloses(c) \/ ClientAnswered(c)
    BY <2>1 DEF ClientCloses, ClientAnswered, ClientAt
  <2>6. CASE ClientAnswers(c)
    BY <2>6 DEF ClientAnswers, ClientAt
  <2>4. CASE ClientLocksWave(c)
    BY <2>4 DEF ClientLocksWave, ClientAt
  <2>5. CASE ClientLocksStatus(c) \/ ClientSendsStatus(c)
    BY <2>5 DEF ClientLocksStatus, ClientSendsStatus, ClientAt
  <2>2. CASE Upgrade(c)
    BY <2>2 DEF Upgrade, ClientAt
  <2>3. CASE ClientSendsLatest(c)
    BY <2>3 DEF ClientSendsLatest, ClientAt
  <2> QED BY <1>8, <2>1, <2>2, <2>3, <2>4, <2>5, <2>6
<1>9. ASSUME NEW c \in Conns, ClientRegisters(c) \/ ClientReceivesNothing(c)
      PROVE  CopyIsHeld' /\ CopyIsServed'
  BY <1>9 DEF ClientRegisters, ClientReceivesNothing, ClientAt, NextTurn
<1>12. ASSUME NEW c \in Conns, ClientUnregisters(c) \/ ClientSeesEnd(c)
       PROVE  CopyIsHeld' /\ CopyIsServed'
  <2>1. CASE ClientUnregisters(c)
    BY <2>1 DEF ClientUnregisters, ClientAt
  <2>2. CASE ClientSeesEnd(c)
    BY <2>2 DEF ClientSeesEnd, ClientAt
  <2> QED BY <1>12, <2>1, <2>2
<1>13. ASSUME NEW c \in Conns, ProcessWsCommand(c)
       PROVE  CopyIsHeld' /\ CopyIsServed'
  BY <1>13 DEF ProcessWsCommand, ClientAt, NextTurn
<1>10. ASSUME NEW c \in Conns, BrowserStep(c)
       PROVE  CopyIsHeld' /\ CopyIsServed'
  BY <1>10 DEF BrowserStep, BrowserConnects, BrowserLeaves, BrowserSeesClose, Browser,
               Released, KnockersUnserved
<1>11. CASE UNCHANGED vars
  BY <1>11 DEF vars
<1> HIDE DEF HttpInv, TypeOK, CopyIsHeld, CopyIsServed
<1> QED BY <1>1, <1>2, <1>3, <1>4, <1>5, <1>6, <1>7, <1>8, <1>9, <1>10, <1>11, <1>12, <1>13
        DEF Next, StopStep, AcceptStep, BroadcastStep, ClientStep, MayHang

\* The safety half of PostedArrives, for any number of tabs: when a broadcast is over
\* (todo is empty), each connection that was in the list when it began shows the
\* waveform that was sent, unless its browser has gone, whoever connected, left or
\* stopped the server meanwhile (HttpServer/HttpServer.cpp, SendToAllClients).
THEOREM BroadcastReachesAll == Spec => []CopyIsServed
<1>1. Init => CopyIsHeld /\ CopyIsServed
  BY DEF Init, CopyIsHeld, CopyIsServed
<1>2. HttpInv /\ CopyIsHeld /\ CopyIsServed /\ [Next]_vars => CopyIsHeld' /\ CopyIsServed'
  BY CopyKept
<1> QED BY <1>1, <1>2, HttpInvariant, PTL DEF Spec

=============================================================================
