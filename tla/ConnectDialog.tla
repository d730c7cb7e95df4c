---------------------------- MODULE ConnectDialog ----------------------------
(***************************************************************************)
(* ConnectDialog.cpp with the thread of each scan, the frame that opens    *)
(* the dialog and connects afterwards (MainFrm.cpp), and FindDevices.      *)
(*                                                                         *)
(* The dialog is an object on the stack of OnScopeConnect, and a scan's    *)
(* detached thread keeps a pointer to it.  What a thread reads through     *)
(* that pointer once its own dialog is gone is undefined: any value of the *)
(* stop flag, and either no window, or that of the dialog now open.        *)
(* Messages about progress and the log are left out: they are only shown.  *)
(* OK stays disabled for ever, so OnOK never closes the dialog.            *)
(***************************************************************************)
EXTENDS Naturals, Sequences

CONSTANTS Boards,       \* the numbers a user types in as a board
          NoNumber,     \* any text that is not a number
          LastAddr,     \* 30 in the code
          MaxScans,     \* bound on the scans started
          MaxDialogs    \* bound on the dialogs opened

ASSUME DialogAssumption ==
  /\ Boards \subseteq Nat /\ NoNumber \notin Nat
  /\ LastAddr \in Nat \ {0} /\ MaxScans \in Nat /\ MaxDialogs \in Nat

VARIABLES
  gen, opened,       \* number of the newest dialog, and whether it is open
  text, edited,      \* the board's edit field; edited since the last scan began
  hwnd,              \* m_safeHwnd is not null
  stopScan,          \* m_stopScan
  scanning,          \* m_scanning: the button says Stop and Cancel is disabled
  list, selected,    \* m_foundDevices with the list control, and its selection
  msgs,              \* the dialog's message queue
  stray,             \* a thread of an earlier dialog posted into this one
  scans,             \* number of the newest scan, over all dialogs
  pc, owner, addr, board,  \* per scan: its thread, dialog, address and board
  told,              \* per scan: it was told to stop
  conn, target       \* the connect thread and the device it is given

dlgVars == <<gen, opened, text, edited>>
flagVars == <<hwnd, stopScan, scanning>>
listVars == <<list, selected, msgs, stray>>
scanVars == <<scans, pc, owner, addr, board, told>>
connVars == <<conn, target>>
vars == <<dlgVars, flagVars, listVars, scanVars, connVars>>

Scans == 1..MaxScans
Addrs == 1..LastAddr
AnyBoard == Boards \cup {0}
Wtoi(t) == IF t = NoNumber THEN 0 ELSE t

Found(s) == [kind |-> "found", scan |-> s, addr |-> addr[s]]
Done(s) == [kind |-> "done", scan |-> s, addr |-> 0]
Messages == [kind : {"found"}, scan : Scans, addr : Addrs]
              \cup [kind : {"done"}, scan : Scans, addr : {0}]
Devices == [scan : Scans, addr : Addrs]
NoTarget == [board |-> 0, scan |-> 0, addr |-> 0]

TypeOK ==
  /\ gen \in 0..MaxDialogs /\ opened \in BOOLEAN
  /\ text \in Boards \cup {NoNumber} /\ edited \in BOOLEAN
  /\ hwnd \in BOOLEAN /\ stopScan \in BOOLEAN /\ scanning \in BOOLEAN
  /\ list \in Seq(Devices) /\ selected \in 0..Len(list)
  /\ msgs \in Seq(Messages) /\ stray \in BOOLEAN
  /\ scans \in 0..MaxScans
  /\ pc \in [Scans -> {"idle", "test", "query", "found", "end"}]
  /\ owner \in [Scans -> 0..MaxDialogs]
  /\ addr \in [Scans -> 1..LastAddr + 1]
  /\ board \in [Scans -> AnyBoard]
  /\ told \in [Scans -> BOOLEAN]
  /\ conn \in {"idle", "working", "posted", "connected"}
  /\ target \in [board : AnyBoard, scan : 0..MaxScans, addr : 0..LastAddr]

Init ==
  /\ gen = 0 /\ opened = FALSE
  /\ text \in Boards /\ edited = FALSE
  /\ hwnd = FALSE /\ stopScan = FALSE /\ scanning = FALSE
  /\ list = <<>> /\ selected = 0 /\ msgs = <<>> /\ stray = FALSE
  /\ scans = 0
  /\ pc = [s \in Scans |-> "idle"]
  /\ owner = [s \in Scans |-> 0]
  /\ addr = [s \in Scans |-> 1]
  /\ board = [s \in Scans |-> 0]
  /\ told = [s \in Scans |-> FALSE]
  /\ conn = "idle" /\ target = NoTarget

-----------------------------------------------------------------------------
(* The frame.                                                              *)

\* A new object and a new window: constructor and OnInitDialog.
OnScopeConnect ==
  /\ ~opened /\ conn = "idle" /\ gen < MaxDialogs
  /\ gen' = gen + 1 /\ opened' = TRUE /\ edited' = FALSE
  /\ text' \in Boards
  /\ hwnd' = TRUE /\ stopScan' = FALSE /\ scanning' = FALSE
  /\ list' = <<>> /\ selected' = 0 /\ msgs' = <<>> /\ stray' = FALSE
  /\ UNCHANGED <<scanVars, connVars>>

\* The connect thread ends: IsConnected is true from then on, or not.
ConnectThread ==
  /\ conn = "working"
  /\ conn' = "posted"
  /\ UNCHANGED <<dlgVars, flagVars, listVars, scanVars, target>>

OnConnectDone ==
  /\ conn = "posted"
  /\ conn' \in {"idle", "connected"}
  /\ target' = NoTarget
  /\ UNCHANGED <<dlgVars, flagVars, listVars, scanVars>>

OnScopeDisconnect ==
  /\ conn = "connected" /\ ~opened
  /\ conn' = "idle"
  /\ UNCHANGED <<dlgVars, flagVars, listVars, scanVars, target>>

-----------------------------------------------------------------------------
(* The dialog, on the UI thread.                                           *)

\* The field is disabled while m_scanning is set.
EditBoard ==
  /\ opened /\ ~scanning
  /\ text' \in (Boards \cup {NoNumber}) \ {text}
  /\ edited' = TRUE
  /\ UNCHANGED <<gen, opened, flagVars, listVars, scanVars, connVars>>

\* Mutated form of BeginScan: earlier results stay in the list.
BeginScanKeepsList ==
  /\ opened /\ ~scanning /\ scans < MaxScans
  /\ edited' = FALSE
  /\ scanning' = TRUE /\ stopScan' = FALSE
  /\ scans' = scans + 1
  /\ pc' = [pc EXCEPT ![scans + 1] = "test"]
  /\ owner' = [owner EXCEPT ![scans + 1] = gen]
  /\ board' = [board EXCEPT ![scans + 1] = Wtoi(text)]
  /\ \E first \in Addrs : addr' = [addr EXCEPT ![scans + 1] = first]
  /\ UNCHANGED <<gen, opened, text, hwnd, list, selected, msgs, stray, told, connVars>>

\* OnBtnScan when no scan runs.  m_safeHwnd is not set again.
BeginScan ==
  /\ opened /\ ~scanning /\ scans < MaxScans
  /\ edited' = FALSE
  /\ list' = <<>> /\ selected' = 0
  /\ scanning' = TRUE /\ stopScan' = FALSE
  /\ scans' = scans + 1
  /\ pc' = [pc EXCEPT ![scans + 1] = "test"]
  /\ owner' = [owner EXCEPT ![scans + 1] = gen]
  /\ board' = [board EXCEPT ![scans + 1] = Wtoi(text)]
  /\ \E first \in Addrs : addr' = [addr EXCEPT ![scans + 1] = first]
  /\ UNCHANGED <<gen, opened, text, hwnd, msgs, stray, told, connVars>>

\* StopScan: no more messages, and the flag.
StopScan ==
  /\ hwnd' = FALSE /\ stopScan' = TRUE
  /\ told' = [s \in Scans |-> told[s] \/ (owner[s] = gen /\ pc[s] # "idle")]
  /\ UNCHANGED <<scans, pc, owner, addr, board>>

\* Mutated form of PressStop: the button is a Scan button again at once.
PressStopEnds ==
  /\ opened /\ scanning
  /\ StopScan
  /\ scanning' = FALSE
  /\ UNCHANGED <<dlgVars, listVars, connVars>>

\* OnBtnScan acting as the Stop button.  m_scanning stays set: only ScanDone
\* clears it.
PressStop ==
  /\ opened /\ scanning
  /\ StopScan
  /\ UNCHANGED <<dlgVars, scanning, listVars, connVars>>

\* OnScanMessage; the first device found is selected.
HandleDeviceFound ==
  /\ opened /\ msgs # <<>> /\ Head(msgs).kind = "found"
  /\ list' = Append(list, [scan |-> Head(msgs).scan, addr |-> Head(msgs).addr])
  /\ selected' = IF list = <<>> THEN 1 ELSE selected
  /\ msgs' = Tail(msgs)
  /\ UNCHANGED <<dlgVars, flagVars, stray, scanVars, connVars>>

HandleScanDone ==
  /\ opened /\ msgs # <<>> /\ Head(msgs).kind = "done"
  /\ scanning' = FALSE
  /\ selected' = IF list # <<>> /\ selected = 0 THEN 1 ELSE selected
  /\ msgs' = Tail(msgs)
  /\ UNCHANGED <<dlgVars, hwnd, stopScan, list, stray, scanVars, connVars>>

\* Connect is enabled exactly while something is selected.
Select ==
  /\ opened
  /\ selected' \in 0..Len(list)
  /\ UNCHANGED <<dlgVars, flagVars, list, msgs, stray, scanVars, connVars>>

\* OnBtnConnect.  CDialog::OnOK reads the fields once more, which also sets
\* m_boardIndex, and keeps the dialog open if a number is bad: after StopScan.
OnBtnConnect ==
  /\ opened /\ selected # 0
  /\ StopScan
  /\ opened' = (text = NoNumber)
  /\ IF text = NoNumber
       THEN UNCHANGED connVars
       ELSE /\ conn' = "working"
            /\ target' = [board |-> text, scan |-> list[selected].scan,
                          addr |-> list[selected].addr]
  /\ UNCHANGED <<gen, text, edited, scanning, listVars>>

OnCancel ==
  /\ opened /\ ~scanning
  /\ StopScan
  /\ opened' = FALSE
  /\ UNCHANGED <<gen, text, edited, scanning, listVars, connVars>>

-----------------------------------------------------------------------------
(* The thread of a scan: FindDevices and its callback.                     *)

OwnDialog(s) == opened /\ owner[s] = gen

\* The values m_stopScan may seem to have.
StopSeen(s) == IF OwnDialog(s) THEN {stopScan} ELSE BOOLEAN

\* m_safeHwnd is read and, if it is a window, a message posted to it.  From an
\* object that is gone the message may reach the dialog that is open now.
Post(s, m) ==
  \/ /\ OwnDialog(s) /\ hwnd
     /\ msgs' = Append(msgs, m) /\ UNCHANGED stray
  \/ /\ opened /\ ~OwnDialog(s) /\ hwnd
     /\ msgs' = Append(msgs, m) /\ stray' = TRUE
  \/ /\ ~(OwnDialog(s) /\ hwnd)
     /\ UNCHANGED <<msgs, stray>>

ScanAt(s, from, to) ==
  /\ pc[s] = from
  /\ pc' = [pc EXCEPT ![s] = to]
  /\ UNCHANGED <<dlgVars, flagVars, list, selected, scans, owner, board, told, connVars>>

\* Mutated form of TestStop: the loop runs one address too far.
TestStopOffByOne(s) ==
  \/ /\ addr[s] <= LastAddr + 1 /\ FALSE \in StopSeen(s)
     /\ ScanAt(s, "test", "query")
     /\ UNCHANGED <<addr, msgs, stray>>
  \/ /\ addr[s] > LastAddr + 1 \/ TRUE \in StopSeen(s)
     /\ ScanAt(s, "test", "end")
     /\ UNCHANGED <<addr, msgs, stray>>

\* Bring the board online, then the loop's condition and its stop flag.
TestStop(s) ==
  \/ /\ addr[s] <= LastAddr /\ FALSE \in StopSeen(s)
     /\ ScanAt(s, "test", "query")
     /\ UNCHANGED <<addr, msgs, stray>>
  \/ /\ addr[s] > LastAddr \/ TRUE \in StopSeen(s)
     /\ ScanAt(s, "test", "end")
     /\ UNCHANGED <<addr, msgs, stray>>

\* Mutated form of NoAnswer: the same address again.
NoAnswerRetries(s) ==
  /\ ScanAt(s, "query", "test")
  /\ UNCHANGED <<addr, msgs, stray>>

\* Open and *IDN?: no device, no answer or an empty one.
NoAnswer(s) ==
  /\ ScanAt(s, "query", "test")
  /\ addr' = [addr EXCEPT ![s] = @ + 1]
  /\ UNCHANGED <<msgs, stray>>

Answer(s) ==
  /\ ScanAt(s, "query", "found")
  /\ UNCHANGED <<addr, msgs, stray>>

PostDevice(s) ==
  /\ ScanAt(s, "found", "test")
  /\ Post(s, Found(s))
  /\ addr' = [addr EXCEPT ![s] = @ + 1]

\* Mutated form of EndScan: only the flag is tested, nothing is posted.
EndScanSilent(s) ==
  /\ ScanAt(s, "end", "idle")
  /\ UNCHANGED <<addr, msgs, stray>>

EndScan(s) ==
  /\ ScanAt(s, "end", "idle")
  /\ Post(s, Done(s))
  /\ UNCHANGED addr

-----------------------------------------------------------------------------

User == \/ OnScopeConnect \/ OnScopeDisconnect
        \/ EditBoard \/ BeginScan \/ PressStop \/ Select \/ OnBtnConnect \/ OnCancel

HandleMessage == HandleDeviceFound \/ HandleScanDone

ScanStep(s) == TestStop(s) \/ NoAnswer(s) \/ Answer(s) \/ PostDevice(s) \/ EndScan(s)

Next == \/ User \/ HandleMessage \/ ConnectThread \/ OnConnectDone
        \/ \E s \in Scans : ScanStep(s)

Spec == Init /\ [][Next]_vars

\* Messages are handled and threads run on: every GPIB call has a timeout.
FairSpec == /\ Spec
            /\ WF_vars(HandleMessage)
            /\ \A s \in Scans : WF_vars(ScanStep(s))

-----------------------------------------------------------------------------
(* Properties.  A dialog into which a thread of an earlier one has posted  *)
(* is excepted: nothing can be said of it, not even that one scan runs.    *)

Live(s) == pc[s] # "idle" /\ owner[s] = gen

\* A dialog never has two scans under way, although Stop does not wait for the
\* thread it stops: it is m_scanning, which only the thread's last message
\* clears, that keeps the next scan from starting.
OneScanAtATime ==
  opened /\ ~stray => \A s, t \in Scans : Live(s) /\ Live(t) => s = t

\* The devices listed, and those on their way to the list, are of the scan that
\* was begun last: no message of a stopped scan arrives in the results of the next.
ListFromThisScan ==
  opened /\ ~stray => /\ \A i \in DOMAIN list : list[i].scan = scans
                      /\ \A i \in DOMAIN msgs : msgs[i].scan = scans

\* What the connect thread is given is a device that answered the last scan, on
\* the board that was scanned, unless the user edited the board afterwards: OnOK
\* reads the field again.
ConnectsToFound ==
  conn \in {"working", "posted"} /\ ~stray /\ ~edited
    => /\ target.scan = scans /\ target.scan \in Scans
       /\ target.board = board[target.scan]
       /\ target.addr \in Addrs

\* A scan that was told to stop begins no other address as long as its dialog is
\* there: the flag it is told with is not cleared under it by a new scan.
StoppedStaysStopped ==
  [][\A s \in Scans :
       opened /\ opened' /\ owner[s] = gen /\ told[s] /\ ~stray
         => ~(pc[s] = "test" /\ pc'[s] = "query")]_vars

\* A scan that nobody stops comes to an end in the dialog.
ScanEnds == (opened /\ scanning /\ hwnd) ~> (~scanning \/ ~hwnd \/ ~opened)

\* Every scan thread ends, also one whose dialog and stop flag are gone.
ThreadsEnd == \A s \in Scans : (pc[s] # "idle") ~> (pc[s] = "idle")

=============================================================================
