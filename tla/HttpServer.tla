----------------------------- MODULE HttpServer ------------------------------
(***************************************************************************)
(* HttpServer.cpp: start and stop, the accept, broadcast and command       *)
(* threads, one detached thread per connection, and the browsers.          *)
(*                                                                         *)
(* A connection is a browser's tab: it may connect again, in the same      *)
(* slot, once the server has let go of the old socket.  Waveforms are      *)
(* numbered in the order of PostWaveform; the sequence numbers the code    *)
(* compares restart with every Start of the acquisition thread.  The two   *)
(* containers of connections are sets: the order in which the broadcast    *)
(* thread walks its copy plays no role.  The tests of m_running at the     *)
(* head of the loops are part of the step before them.                     *)
(***************************************************************************)
EXTENDS Naturals, Sequences

CONSTANTS Conns,         \* browser tabs
          MaxWaves,      \* bound on the waveforms posted
          MaxCommands    \* bound on the commands the browsers send

ASSUME HttpAssumption == MaxWaves \in Nat /\ MaxCommands \in Nat

VARIABLES
  running,      \* m_running
  listening,    \* m_listenSock is valid
  uiPc,         \* where the UI thread stands in Stop
  acceptPc, broadcastPc, cmdPc,         \* the three joined threads
  clientPc,     \* the detached threads
  open,         \* m_state = Open, per connection
  wsClients,    \* m_wsClients
  snapshot,     \* the copy SendToAllClients made
  todo,         \* the part of it not yet sent to
  pendingSeq, pendingWave,              \* m_pendingSeq, m_pendingWave
  lastSent, job,                        \* locals of BroadcastLoop
  latest,       \* m_latestWaveJson, 0 while m_hasWave is false
  acqSeq,       \* m_seqNum of the acquisition thread
  cmdQueue, command,                    \* m_cmdQueue and the dispatcher's wc
  sent,         \* history: commands sent so far
  peer, shown   \* the browser's end, and the waveform it draws

threadVars == <<uiPc, acceptPc, broadcastPc, cmdPc, clientPc>>
waveVars == <<pendingSeq, pendingWave, lastSent, job, latest, acqSeq>>
setVars == <<wsClients, snapshot, todo>>
cmdVars == <<cmdQueue, command, sent>>
connVars == <<open, peer, shown>>
vars == <<running, listening, threadVars, waveVars, setVars, cmdVars, connVars>>

Waves == 0..MaxWaves
ClientPcs == {"none", "http", "answer", "latest", "sendLatest", "status", "sendStatus",
              "register", "receive", "unregister"}

\* m_waveMutex and m_statusMutex are held across a send to a browser.
WaveLocked == \E c \in Conns : clientPc[c] = "sendLatest"
StatusLocked == \E c \in Conns : clientPc[c] = "sendStatus"

TypeOK ==
  /\ running \in BOOLEAN /\ listening \in BOOLEAN
  /\ uiPc \in {"idle", "close", "clear", "join"}
  /\ acceptPc \in {"off", "select"}
  /\ broadcastPc \in {"off", "wait", "cache", "copy", "send"}
  /\ cmdPc \in {"off", "wait", "run"}
  /\ clientPc \in [Conns -> ClientPcs]
  /\ open \in [Conns -> BOOLEAN]
  /\ peer \in [Conns -> {"away", "knocking", "up"}]
  /\ shown \in [Conns -> Waves]
  /\ wsClients \subseteq Conns /\ snapshot \subseteq Conns /\ todo \subseteq snapshot
  /\ pendingSeq \in Waves /\ pendingWave \in Waves /\ acqSeq \in Waves
  /\ lastSent \in Waves /\ job \in Waves /\ latest \in Waves
  /\ cmdQueue \in Seq(1..MaxCommands)
  /\ command \in 0..MaxCommands /\ sent \in 0..MaxCommands

Init ==
  /\ running = FALSE /\ listening = FALSE
  /\ uiPc = "idle" /\ acceptPc = "off" /\ broadcastPc = "off" /\ cmdPc = "off"
  /\ clientPc = [c \in Conns |-> "none"]
  /\ open = [c \in Conns |-> FALSE]
  /\ peer = [c \in Conns |-> "away"]
  /\ shown = [c \in Conns |-> 0]
  /\ wsClients = {} /\ snapshot = {} /\ todo = {}
  /\ pendingSeq = 0 /\ pendingWave = 0 /\ acqSeq = 0
  /\ lastSent = 0 /\ job = 0 /\ latest = 0
  /\ cmdQueue = <<>> /\ command = 0 /\ sent = 0

-----------------------------------------------------------------------------
(* The UI thread.                                                          *)

\* A failing socket, bind or listen changes nothing.
Start ==
  /\ uiPc = "idle" /\ ~running
  /\ running' = TRUE /\ listening' = TRUE
  /\ acceptPc' = "select" /\ cmdPc' = "wait" /\ broadcastPc' = "wait"
  /\ UNCHANGED <<uiPc, clientPc, waveVars, setVars, cmdVars, connVars>>

Stop ==
  /\ uiPc = "idle" /\ running
  /\ running' = FALSE
  /\ uiPc' = "close"
  /\ UNCHANGED <<listening, acceptPc, broadcastPc, cmdPc, clientPc, waveVars,
                 setVars, cmdVars, connVars>>

\* Closing the listening socket refuses those who wait in its backlog.
StopCloses ==
  /\ uiPc = "close"
  /\ listening' = FALSE
  /\ peer' = [c \in Conns |-> IF peer[c] = "knocking" THEN "away" ELSE peer[c]]
  /\ uiPc' = "clear"
  /\ UNCHANGED <<running, acceptPc, broadcastPc, cmdPc, clientPc, waveVars,
                 setVars, cmdVars, open, shown>>

StopClears ==
  /\ uiPc = "clear"
  /\ wsClients' = {}
  /\ uiPc' = "join"
  /\ UNCHANGED <<running, listening, acceptPc, broadcastPc, cmdPc, clientPc,
                 waveVars, snapshot, todo, cmdVars, connVars>>

\* The client threads are detached: nobody waits for them.
StopJoins ==
  /\ uiPc = "join"
  /\ acceptPc = "off" /\ cmdPc = "off" /\ broadcastPc = "off"
  /\ uiPc' = "idle"
  /\ UNCHANGED <<running, listening, acceptPc, broadcastPc, cmdPc, clientPc,
                 waveVars, setVars, cmdVars, connVars>>

-----------------------------------------------------------------------------
(* The accept thread.                                                      *)

AcceptEnds ==
  /\ acceptPc = "select" /\ ~running
  /\ acceptPc' = "off"
  /\ UNCHANGED <<running, listening, uiPc, broadcastPc, cmdPc, clientPc, waveVars,
                 setVars, cmdVars, connVars>>

\* Until the socket is closed a connection is accepted even if Stop has begun:
\* its thread then ends at its first look at m_running.
Accept(c) ==
  /\ acceptPc = "select" /\ listening /\ peer[c] = "knocking"
  /\ peer' = [peer EXCEPT ![c] = "up"]
  /\ open' = [open EXCEPT ![c] = FALSE]
  /\ clientPc' = [clientPc EXCEPT ![c] = IF running THEN "http" ELSE "none"]
  /\ UNCHANGED <<running, listening, uiPc, acceptPc, broadcastPc, cmdPc, waveVars,
                 setVars, cmdVars, shown>>

-----------------------------------------------------------------------------
(* The acquisition thread, as far as it calls the server, and BroadcastLoop. *)

\* PostWaveform, from the callback with the frame's own number.  It does not
\* ask whether the server runs, and waits for m_statusMutex.
PostWaveform ==
  /\ pendingWave < MaxWaves /\ ~StatusLocked
  /\ acqSeq' = acqSeq + 1
  /\ pendingWave' = pendingWave + 1 /\ pendingSeq' = acqSeq + 1
  /\ UNCHANGED <<running, listening, threadVars, lastSent, job, latest, setVars,
                 cmdVars, connVars>>

\* AcquisitionThread::Start numbers from the beginning again.
AcquisitionRestarts ==
  /\ acqSeq # 0
  /\ acqSeq' = 0
  /\ UNCHANGED <<running, listening, threadVars, pendingSeq, pendingWave, lastSent,
                 job, latest, setVars, cmdVars, connVars>>

\* Mutated form of BroadcastEnds: the wait is not told of the stop.
BroadcastEndsWhenSent ==
  /\ broadcastPc = "wait" /\ ~running /\ pendingSeq = lastSent
  /\ broadcastPc' = "off"
  /\ lastSent' = 0
  /\ UNCHANGED <<running, listening, uiPc, acceptPc, cmdPc, clientPc, pendingSeq,
                 pendingWave, job, latest, acqSeq, setVars, cmdVars, connVars>>

\* lastSent is a local: the next BroadcastLoop begins with 0 again.
BroadcastEnds ==
  /\ broadcastPc = "wait" /\ ~running
  /\ broadcastPc' = "off"
  /\ lastSent' = 0
  /\ UNCHANGED <<running, listening, uiPc, acceptPc, cmdPc, clientPc, pendingSeq,
                 pendingWave, job, latest, acqSeq, setVars, cmdVars, connVars>>

\* The wait ends by notification or after 200 ms; an unchanged number is taken
\* for a spurious wake and leaves everything as it was.
BroadcastTakes ==
  /\ broadcastPc = "wait" /\ running
  /\ pendingSeq # lastSent
  /\ job' = pendingWave /\ lastSent' = pendingSeq
  /\ broadcastPc' = "cache"
  /\ UNCHANGED <<running, listening, uiPc, acceptPc, cmdPc, clientPc, pendingSeq,
                 pendingWave, latest, acqSeq, setVars, cmdVars, connVars>>

\* Mutated form of BroadcastCaches: the cache is filled with what is pending by now.
BroadcastCachesPending ==
  /\ broadcastPc = "cache" /\ ~WaveLocked
  /\ latest' = pendingWave
  /\ broadcastPc' = "copy"
  /\ UNCHANGED <<running, listening, uiPc, acceptPc, cmdPc, clientPc, pendingSeq,
                 pendingWave, lastSent, job, acqSeq, setVars, cmdVars, connVars>>

\* Mutated form of BroadcastCaches: the cache is filled only once.
BroadcastCachesOnce ==
  /\ broadcastPc = "cache" /\ ~WaveLocked
  /\ latest' = IF latest = 0 THEN job ELSE latest
  /\ broadcastPc' = "copy"
  /\ UNCHANGED <<running, listening, uiPc, acceptPc, cmdPc, clientPc, pendingSeq,
                 pendingWave, lastSent, job, acqSeq, setVars, cmdVars, connVars>>

BroadcastCaches ==
  /\ broadcastPc = "cache" /\ ~WaveLocked
  /\ latest' = job
  /\ broadcastPc' = "copy"
  /\ UNCHANGED <<running, listening, uiPc, acceptPc, cmdPc, clientPc, pendingSeq,
                 pendingWave, lastSent, job, acqSeq, setVars, cmdVars, connVars>>

\* Mutated form of SendToAllClients: the list itself is walked, not a copy.
SendToAllClientsInPlace ==
  /\ broadcastPc = "copy"
  /\ todo' = wsClients
  /\ broadcastPc' = "send"
  /\ UNCHANGED <<running, listening, uiPc, acceptPc, cmdPc, clientPc, waveVars,
                 wsClients, snapshot, cmdVars, connVars>>

SendToAllClients ==
  /\ broadcastPc = "copy"
  /\ snapshot' = wsClients /\ todo' = wsClients
  /\ broadcastPc' = "send"
  /\ UNCHANGED <<running, listening, uiPc, acceptPc, cmdPc, clientPc, waveVars,
                 wsClients, cmdVars, connVars>>

\* SendText to one of them: what a browser that has gone is sent is lost, and
\* the failure is ignored.
SendText(c) ==
  /\ broadcastPc = "send" /\ c \in todo
  /\ todo' = todo \ {c}
  /\ shown' = IF open[c] /\ peer[c] = "up" THEN [shown EXCEPT ![c] = job] ELSE shown
  /\ UNCHANGED <<running, listening, threadVars, waveVars, wsClients, snapshot,
                 cmdVars, open, peer>>

\* Mutated form of SendReturns: the number is remembered after the sending.
SendReturnsMarks ==
  /\ broadcastPc = "send" /\ todo = {}
  /\ snapshot' = {}
  /\ job' = 0 /\ lastSent' = pendingSeq
  /\ broadcastPc' = "wait"
  /\ UNCHANGED <<running, listening, uiPc, acceptPc, cmdPc, clientPc, pendingSeq,
                 pendingWave, latest, acqSeq, wsClients, todo, cmdVars, connVars>>

\* The copy is dropped, and wave and json with it.
SendReturns ==
  /\ broadcastPc = "send" /\ todo = {}
  /\ snapshot' = {}
  /\ job' = 0
  /\ broadcastPc' = "wait"
  /\ UNCHANGED <<running, listening, uiPc, acceptPc, cmdPc, clientPc, pendingSeq,
                 pendingWave, lastSent, latest, acqSeq, wsClients, todo, cmdVars,
                 connVars>>

-----------------------------------------------------------------------------
(* CommandDispatchLoop.  The queue outlives a Stop.                        *)

\* Mutated form of CommandEnds: an empty queue ends the loop.
CommandEndsWhenEmpty ==
  /\ cmdPc = "wait" /\ (~running \/ cmdQueue = <<>>)
  /\ cmdPc' = "off"
  /\ UNCHANGED <<running, listening, uiPc, acceptPc, broadcastPc, clientPc, waveVars,
                 setVars, cmdVars, connVars>>

CommandEnds ==
  /\ cmdPc = "wait" /\ ~running
  /\ cmdPc' = "off"
  /\ UNCHANGED <<running, listening, uiPc, acceptPc, broadcastPc, clientPc, waveVars,
                 setVars, cmdVars, connVars>>

\* A wait that Stop interrupts still takes a command that is there.
CommandTaken ==
  /\ cmdPc = "wait" /\ cmdQueue # <<>>
  /\ command' = Head(cmdQueue) /\ cmdQueue' = Tail(cmdQueue)
  /\ cmdPc' = "run"
  /\ UNCHANGED <<running, listening, uiPc, acceptPc, broadcastPc, clientPc, waveVars,
                 setVars, sent, connVars>>

\* The callback into the application returns.  It may not: a stop command joins the
\* acquisition thread without a limit (TDS520AApp.cpp:55).
CommandRuns ==
  /\ cmdPc = "run"
  /\ command' = 0
  /\ cmdPc' = IF running THEN "wait" ELSE "off"
  /\ UNCHANGED <<running, listening, uiPc, acceptPc, broadcastPc, clientPc, waveVars,
                 setVars, cmdQueue, sent, connVars>>

-----------------------------------------------------------------------------
(* A client thread: ClientThread until the upgrade, then                   *)
(* HandleWebSocketClient.                                                  *)

ClientAt(c, from, to) ==
  /\ clientPc[c] = from
  /\ clientPc' = [clientPc EXCEPT ![c] = to]
  /\ UNCHANGED <<running, listening, uiPc, acceptPc, broadcastPc, cmdPc, waveVars>>

\* m_running is false, recv fails or times out, the request is bad or the upgrade
\* fails.  A part of a request changes nothing.
ClientCloses(c) ==
  /\ ClientAt(c, "http", "none")
  /\ UNCHANGED <<setVars, cmdVars, connVars>>

\* A plain request
ClientAnswers(c) ==
  /\ ClientAt(c, "http", "answer")
  /\ UNCHANGED <<setVars, cmdVars, connVars>>

\* The answer closes the socket, on which recv then fails.
ClientAnswered(c) ==
  /\ ClientAt(c, "answer", "none")
  /\ UNCHANGED <<setVars, cmdVars, connVars>>

Upgrade(c) ==
  /\ peer[c] = "up"
  /\ ClientAt(c, "http", "latest")
  /\ open' = [open EXCEPT ![c] = TRUE]
  /\ UNCHANGED <<setVars, cmdVars, peer, shown>>

\* Under m_waveMutex: the latest waveform first, if there is one.
ClientLocksWave(c) ==
  /\ ~WaveLocked
  /\ ClientAt(c, "latest", IF latest # 0 THEN "sendLatest" ELSE "status")
  /\ UNCHANGED <<setVars, cmdVars, connVars>>

ClientSendsLatest(c) ==
  /\ ClientAt(c, "sendLatest", "status")
  /\ shown' = IF peer[c] = "up" THEN [shown EXCEPT ![c] = latest] ELSE shown
  /\ UNCHANGED <<setVars, cmdVars, open, peer>>

\* Then the status, whose text is not modelled, under m_statusMutex.
ClientLocksStatus(c) ==
  /\ ~StatusLocked
  /\ ClientAt(c, "status", "sendStatus")
  /\ UNCHANGED <<setVars, cmdVars, connVars>>

ClientSendsStatus(c) ==
  /\ ClientAt(c, "sendStatus", "register")
  /\ UNCHANGED <<setVars, cmdVars, connVars>>

\* Mutated form of NextTurn: the loop does not look at m_running.
NextTurnAlways == "receive"

\* What the loop's condition makes of the next turn.
NextTurn == IF running THEN "receive" ELSE "unregister"

ClientRegisters(c) ==
  /\ ClientAt(c, "register", NextTurn)
  /\ wsClients' = wsClients \cup {c}
  /\ UNCHANGED <<snapshot, todo, cmdVars, connVars>>

\* Receive: nothing within 50 ms, or nothing of interest.
ClientReceivesNothing(c) ==
  /\ peer[c] = "up"
  /\ ClientAt(c, "receive", NextTurn)
  /\ UNCHANGED <<setVars, cmdVars, connVars>>

\* A command is appended, also one whose browser has left since; an unknown one
\* is received nothing.
ProcessWsCommand(c) ==
  /\ sent < MaxCommands
  /\ ClientAt(c, "receive", NextTurn)
  /\ sent' = sent + 1
  /\ cmdQueue' = Append(cmdQueue, sent + 1)
  /\ UNCHANGED <<setVars, command, connVars>>

\* A close frame, or the end of the stream.
ClientSeesEnd(c) ==
  /\ peer[c] = "away"
  /\ ClientAt(c, "receive", "unregister")
  /\ open' = [open EXCEPT ![c] = FALSE]
  /\ UNCHANGED <<setVars, cmdVars, peer, shown>>

\* Mutated form of ClientUnregisters: the connection stays in the list.
ClientUnregistersNot(c) ==
  /\ ClientAt(c, "unregister", "none")
  /\ UNCHANGED <<setVars, cmdVars, connVars>>

ClientUnregisters(c) ==
  /\ ClientAt(c, "unregister", "none")
  /\ wsClients' = wsClients \ {c}
  /\ UNCHANGED <<snapshot, todo, cmdVars, connVars>>

-----------------------------------------------------------------------------
(* The browser: the page's connect function and its retry.                 *)

\* The socket is closed with the last shared_ptr to its connection.
Released(c) == clientPc[c] = "none" /\ c \notin snapshot

Browser(c, from, to) ==
  /\ peer[c] = from
  /\ peer' = [peer EXCEPT ![c] = to]
  /\ UNCHANGED <<running, listening, threadVars, waveVars, setVars, cmdVars, open, shown>>

BrowserConnects(c) == listening /\ Released(c) /\ Browser(c, "away", "knocking")

BrowserLeaves(c) == Browser(c, "up", "away") \/ Browser(c, "knocking", "away")

\* onclose: the page will try again in two seconds.
BrowserSeesClose(c) == Released(c) /\ Browser(c, "up", "away")

-----------------------------------------------------------------------------

StopStep == StopCloses \/ StopClears \/ StopJoins

AcceptStep == AcceptEnds \/ \E c \in Conns : Accept(c)

BroadcastStep ==
  \/ BroadcastEnds \/ BroadcastTakes \/ BroadcastCaches \/ SendToAllClients \/ SendReturns

CommandStep == CommandEnds \/ CommandTaken

ClientStep(c) ==
  \/ ClientCloses(c) \/ ClientAnswers(c) \/ Upgrade(c) \/ ClientLocksWave(c)
  \/ ClientLocksStatus(c) \/ ClientRegisters(c) \/ ClientReceivesNothing(c)
  \/ ClientSeesEnd(c) \/ ClientUnregisters(c)

\* What may never return: a callback, and a send to a browser that reads nothing,
\* which has no timeout (Utils/NetworkUtils.cpp:101).
MayHang ==
  \/ CommandRuns
  \/ \E c \in Conns : \/ SendText(c) \/ ClientAnswered(c)
                       \/ ClientSendsLatest(c) \/ ClientSendsStatus(c)

BrowserStep(c) == BrowserConnects(c) \/ BrowserLeaves(c) \/ BrowserSeesClose(c)

Next ==
  \/ Start \/ Stop \/ StopStep
  \/ AcceptStep \/ BroadcastStep \/ CommandStep \/ MayHang
  \/ PostWaveform \/ AcquisitionRestarts
  \/ \E c \in Conns : ClientStep(c) \/ ProcessWsCommand(c) \/ BrowserStep(c)

Spec == Init /\ [][Next]_vars

\* Every thread of the server goes on except in MayHang: its waits and receives have
\* timeouts.  Nobody has to start or stop the server, post, connect or send, and a
\* mutex that others take again and again need never come.
FairSpec ==
  /\ Spec
  /\ WF_vars(StopStep) /\ WF_vars(AcceptStep) /\ WF_vars(CommandStep)
  /\ WF_vars(BroadcastStep)
  /\ \A c \in Conns : WF_vars(ClientStep(c))

-----------------------------------------------------------------------------
(* Properties.                                                             *)

\* The server is a hub of waveforms: whatever connects, leaves, starts or stops,
\* what is sent is the one waveform the hub holds, and that never grows older.
Hub == INSTANCE LatestValue WITH Readers <- Conns, MaxNewest <- MaxWaves,
                                 newest <- pendingWave, current <- latest
HubSpec == Hub!Spec

\* No page ever goes back to an older waveform, not even when it connects again
\* or the server was stopped and started in between.
NeverBackwards == [][\A c \in Conns : shown'[c] >= shown[c]]_vars

\* The broadcast thread is for ever in one send, or waits for the mutex another thread
\* holds during one.
BroadcastHangs == [](broadcastPc = "send") \/ []WaveLocked

\* A waveform that is pending under a number above the last one sent reaches
\* every connection that is registered by then, itself or a newer one, unless
\* the connection ends, the server stops, the acquisition starts again or a send
\* hangs.  After such a restart the promise would be false: a number that happens to
\* be the last one sent is taken for a spurious wake, and its waveform is not sent.
PostedArrives ==
  \A c \in Conns, w \in 1..MaxWaves :
    (running /\ c \in wsClients /\ pendingWave = w /\ pendingSeq > lastSent)
      ~> (\/ shown[c] >= w \/ peer[c] # "up" \/ c \notin wsClients \/ ~running
          \/ acqSeq = 0 \/ BroadcastHangs)

\* Stop, which runs on the UI thread and joins without a limit, returns, unless a
\* command is for ever in its callback or the broadcast thread in a send: nothing
\* else can hold it up (HttpServer/HttpServer.cpp:89).
StopReturns ==
  (uiPc # "idle") ~> (uiPc = "idle" \/ [](cmdPc = "run") \/ BroadcastHangs)

\* The detached client threads end once the server is stopped, unless it is
\* started again before they look or one of them is for ever in a send.
StoppedClientsEnd ==
  ~running ~> (\/ running \/ \A c \in Conns : clientPc[c] = "none"
               \/ \E c \in Conns : [](clientPc[c] \in {"answer", "sendLatest", "sendStatus"}))

\* A command that was received is carried out while the server runs, unless one
\* before it is for ever in its callback.
CommandsRun ==
  \A n \in 1..MaxCommands :
    (running /\ \E i \in DOMAIN cmdQueue : cmdQueue[i] = n)
      ~> (command = n \/ ~running \/ [](cmdPc = "run"))

\* m_wsClients names only connections whose thread is still there to remove
\* them: no connection object is kept for ever.
ClientsHaveThreads == \A c \in wsClients : clientPc[c] \in {"receive", "unregister"}

=============================================================================
