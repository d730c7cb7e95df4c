------------------------ MODULE ConnectDialog_proofs -------------------------
(***************************************************************************)
(* Proofs about the dialog for every number of boards, addresses, scans    *)
(* and dialogs.  The invariant says that while m_scanning is clear nothing *)
(* of an earlier scan is left in this dialog, neither thread nor message,  *)
(* because a scan's last message comes after all its others and after the  *)
(* last use its thread makes of the dialog.                                *)
(***************************************************************************)
EXTENDS ConnectDialog, SequenceTheorems, TLAPS

USE DialogAssumption

Clean == opened /\ ~stray

\* The open dialog's thread is that of the last scan.
ThreadIsLast ==
  Clean => \A s \in Scans : Live(s) => s = scans /\ scanning

\* So are the messages, and the end comes last, from a thread that has ended.
MessagesAreLast ==
  Clean => \A i \in DOMAIN msgs :
             /\ msgs[i].scan = scans /\ owner[scans] = gen /\ scanning
             /\ msgs[i].kind = "done" => i = Len(msgs) /\ pc[scans] = "idle"

ListIsLast ==
  Clean => \A i \in DOMAIN list : list[i].scan = scans /\ owner[scans] = gen

\* A thread that was told to stop still finds the flag set.
ToldStaysTold ==
  Clean => \A s \in Scans : Live(s) /\ told[s] => stopScan

\* Scans are numbered in order, and belong to dialogs there have been.
Numbering ==
  \A s \in Scans : /\ owner[s] <= gen
                   /\ s > scans => pc[s] = "idle" /\ ~told[s]
                   /\ pc[s] \in {"query", "found"} => addr[s] <= LastAddr

\* The board that was scanned is the one in the field, until that is edited.
BoardScanned ==
  opened /\ ~edited /\ scans \in Scans /\ owner[scans] = gen
    => board[scans] = Wtoi(text)

\* The connect thread runs only while no dialog is open.
ConnectsAfter == conn # "idle" => ~opened

DialogInv ==
  /\ TypeOK /\ Numbering
  /\ ThreadIsLast /\ MessagesAreLast /\ ListIsLast /\ ToldStaysTold
  /\ BoardScanned /\ ConnectsAfter /\ ConnectsToFound

-----------------------------------------------------------------------------
(* Sequences                                                               *)

LEMMA AppendFacts ==
  ASSUME NEW S, NEW q \in Seq(S), NEW e \in S
  PROVE  /\ Append(q, e) \in Seq(S)
         /\ Len(Append(q, e)) = Len(q) + 1 /\ Len(q) \in Nat
         /\ DOMAIN Append(q, e) = 1..Len(q) + 1 /\ DOMAIN q = 1..Len(q)
         /\ \A i \in 1..Len(q) : Append(q, e)[i] = q[i]
         /\ Append(q, e)[Len(q) + 1] = e
BY AppendProperties, LenProperties

LEMMA TailFacts ==
  ASSUME NEW S, NEW q \in Seq(S), q # << >>
  PROVE  /\ Head(q) \in S /\ Head(q) = q[1] /\ Tail(q) \in Seq(S)
         /\ Len(q) \in Nat \ {0} /\ DOMAIN q = 1..Len(q)
         /\ Len(Tail(q)) = Len(q) - 1 /\ DOMAIN Tail(q) = 1..Len(q) - 1
         /\ \A i \in 1..Len(q) - 1 : Tail(q)[i] = q[i + 1]
BY HeadTailProperties, LenProperties, EmptySeq

LEMMA EmptyFacts == /\ << >> \in Seq(Devices) /\ << >> \in Seq(Messages)
                    /\ DOMAIN << >> = {} /\ Len(<< >>) = 0 /\ 0 \in 0..Len(<< >>)
BY EmptySeq

-----------------------------------------------------------------------------
(* Each group of steps keeps the invariant                                 *)

LEMMA InitInv == Init => DialogInv
<1> SUFFICES ASSUME Init PROVE DialogInv
  OBVIOUS
<1> USE DEF Init
<1>1. TypeOK
  <2>1. list \in Seq(Devices) /\ selected \in 0..Len(list) /\ msgs \in Seq(Messages)
    BY EmptyFacts
  <2>2. target \in [board : AnyBoard, scan : 0..MaxScans, addr : 0..LastAddr]
    BY DEF NoTarget, AnyBoard
  <2>3. /\ pc \in [Scans -> {"idle", "test", "query", "found", "end"}]
        /\ owner \in [Scans -> 0..MaxDialogs] /\ addr \in [Scans -> 1..LastAddr + 1]
        /\ board \in [Scans -> AnyBoard] /\ told \in [Scans -> BOOLEAN]
    BY DEF AnyBoard
  <2>4. gen \in 0..MaxDialogs /\ scans \in 0..MaxScans
    OBVIOUS
  <2>4a. /\ opened \in BOOLEAN /\ edited \in BOOLEAN /\ stray \in BOOLEAN
         /\ hwnd \in BOOLEAN /\ stopScan \in BOOLEAN /\ scanning \in BOOLEAN
    OBVIOUS
  <2>4b. /\ text \in Boards \cup {NoNumber}
         /\ conn \in {"idle", "working", "posted", "connected"}
    OBVIOUS
  <2> HIDE DEF Init
  <2> QED BY <2>1, <2>2, <2>3, <2>4, <2>4a, <2>4b DEF TypeOK
<1>2. Numbering /\ ThreadIsLast /\ ToldStaysTold
  BY DEF Numbering, ThreadIsLast, ToldStaysTold, Clean, Live, Scans
<1>3. MessagesAreLast /\ ListIsLast /\ BoardScanned /\ ConnectsAfter /\ ConnectsToFound
  BY DEF MessagesAreLast, ListIsLast, BoardScanned, ConnectsAfter, ConnectsToFound, Clean
<1> QED BY <1>1, <1>2, <1>3 DEF DialogInv

\* Steps of the frame.
LEMMA FrameInv ==
  ASSUME DialogInv,
         OnScopeConnect \/ ConnectThread \/ OnConnectDone \/ OnScopeDisconnect
  PROVE  DialogInv'
<1> USE DEF DialogInv
<1>1. CASE OnScopeConnect
  <2> USE <1>1 DEF OnScopeConnect, scanVars, connVars
  <2>1. TypeOK'
    <3>1. list' \in Seq(Devices) /\ selected' \in 0..Len(list') /\ msgs' \in Seq(Messages)
      BY EmptyFacts
    <3>2. gen' \in 0..MaxDialogs
      BY DEF TypeOK
    <3> QED BY <3>1, <3>2 DEF TypeOK
  <2>2. \A s \in Scans : owner'[s] # gen' /\ owner[s] \in Nat
    BY DEF TypeOK, Numbering
  <2>3. Numbering'
    BY DEF TypeOK, Numbering
  <2>4. ThreadIsLast' /\ ToldStaysTold' /\ BoardScanned'
    BY <2>2 DEF ThreadIsLast, ToldStaysTold, BoardScanned, Live
  <2>5. MessagesAreLast' /\ ListIsLast'
    BY EmptyFacts DEF MessagesAreLast, ListIsLast
  <2>6. ConnectsAfter' /\ ConnectsToFound'
    BY DEF ConnectsAfter, ConnectsToFound
  <2> QED BY <2>1, <2>3, <2>4, <2>5, <2>6
<1>2. CASE ConnectThread \/ OnConnectDone \/ OnScopeDisconnect
  <2> USE <1>2 DEF ConnectThread, OnConnectDone, OnScopeDisconnect, dlgVars, flagVars,
                   listVars, scanVars
  <2>1. TypeOK'
    <3>1. CASE ConnectThread
      BY <3>1 DEF TypeOK
    <3>2. CASE OnConnectDone
      BY <3>2 DEF TypeOK, NoTarget, AnyBoard
    <3>3. CASE OnScopeDisconnect
      BY <3>3 DEF TypeOK
    <3> QED BY <1>2, <3>1, <3>2, <3>3
  <2>2. Numbering' /\ ThreadIsLast' /\ ToldStaysTold' /\ BoardScanned'
    BY DEF Numbering, ThreadIsLast, ToldStaysTold, BoardScanned, Live, Clean
  <2>3. MessagesAreLast' /\ ListIsLast'
    BY DEF MessagesAreLast, ListIsLast, Clean
  <2>4. ConnectsAfter' /\ ConnectsToFound'
    BY DEF ConnectsAfter, ConnectsToFound
  <2> QED BY <2>1, <2>2, <2>3, <2>4
<1> QED BY <1>1, <1>2

\* A scan begins: nothing of an earlier one is left in this dialog.
LEMMA BeginInv ==
  ASSUME DialogInv, BeginScan
  PROVE  DialogInv'
<1> USE DEF DialogInv, BeginScan, Scans
<1>1. scans + 1 \in Scans /\ scans' = scans + 1 /\ scans \in Nat
  BY DEF TypeOK
<1>2. TypeOK'
  <2>1. list' \in Seq(Devices) /\ selected' \in 0..Len(list') /\ msgs' \in Seq(Messages)
    BY EmptyFacts DEF TypeOK
  <2>2. board' \in [Scans -> AnyBoard]
    BY <1>1 DEF TypeOK, Wtoi, AnyBoard
  <2>3. addr' \in [Scans -> 1..LastAddr + 1]
    BY <1>1 DEF TypeOK, Addrs
  <2>4. owner' \in [Scans -> 0..MaxDialogs]
    BY <1>1 DEF TypeOK
  <2>5. pc' \in [Scans -> {"idle", "test", "query", "found", "end"}]
    BY <1>1 DEF TypeOK
  <2>6. target' = target /\ conn' = conn /\ told' = told
    BY DEF connVars
  <2>7. target' \in [board : AnyBoard, scan : 0..MaxScans, addr : 0..LastAddr]
    BY <2>6 DEF TypeOK
  <2>8. gen' \in 0..MaxDialogs /\ scans' \in 0..MaxScans
    BY <1>1, <2>6 DEF TypeOK
  <2>8a. /\ opened' \in BOOLEAN /\ edited' \in BOOLEAN /\ stray' \in BOOLEAN
         /\ hwnd' \in BOOLEAN /\ stopScan' \in BOOLEAN /\ scanning' \in BOOLEAN
    BY <1>1, <2>6 DEF TypeOK
  <2>8b. /\ text' \in Boards \cup {NoNumber}
         /\ conn' \in {"idle", "working", "posted", "connected"}
    BY <1>1, <2>6 DEF TypeOK
  <2>9. told' \in [Scans -> BOOLEAN]
    BY <2>6 DEF TypeOK
  <2> HIDE DEF BeginScan, DialogInv, Scans
  <2> QED BY <2>1, <2>2, <2>3, <2>4, <2>5, <2>7, <2>8, <2>8a, <2>8b, <2>9
         DEF TypeOK
<1>3. ~stray => \A s \in Scans : ~Live(s)
  BY DEF ThreadIsLast, Clean
<1>4. Numbering'
  <2>1. PICK first \in Addrs : addr' = [addr EXCEPT ![scans + 1] = first]
    OBVIOUS
  <2>2. \A s \in Scans : pc'[s] = IF s = scans + 1 THEN "test" ELSE pc[s]
    BY <1>1 DEF TypeOK
  <2>3. \A s \in Scans : owner'[s] = IF s = scans + 1 THEN gen ELSE owner[s]
    BY <1>1 DEF TypeOK
  <2>4. \A s \in Scans : s # scans + 1 => addr'[s] = addr[s]
    BY <1>1, <2>1 DEF TypeOK
  <2>5. gen <= gen /\ gen' = gen /\ told' = told
    BY DEF TypeOK
  <2> QED BY <1>1, <2>2, <2>3, <2>4, <2>5 DEF TypeOK, Numbering
<1>5. ThreadIsLast'
  BY <1>1, <1>3 DEF TypeOK, ThreadIsLast, Clean, Live
<1>6. ~stray => DOMAIN msgs = {}
  BY DEF MessagesAreLast, Clean
<1>7. MessagesAreLast' /\ ListIsLast'
  BY <1>6, EmptyFacts DEF MessagesAreLast, ListIsLast, Clean
<1>8. ToldStaysTold'
  <2>1. \A s \in Scans : s # scans + 1 => pc'[s] = pc[s] /\ owner'[s] = owner[s]
    BY <1>1 DEF TypeOK
  <2>2. ~told'[scans + 1]
    BY <1>1 DEF TypeOK, Numbering
  <2>3. ~stray => \A s \in Scans : ~(Live(s)' /\ told'[s])
    BY <1>1, <1>3, <2>1, <2>2 DEF Live
  <2> QED BY <2>3 DEF ToldStaysTold, Clean
<1>9. BoardScanned'
  BY <1>1 DEF TypeOK, BoardScanned
<1>10. ConnectsAfter' /\ ConnectsToFound'
  BY DEF ConnectsAfter, ConnectsToFound, connVars
<1> QED BY <1>2, <1>4, <1>5, <1>7, <1>8, <1>9, <1>10

\* Editing and selecting touch nothing the invariant speaks of.
LEMMA EditInv ==
  ASSUME DialogInv, EditBoard \/ Select
  PROVE  DialogInv'
<1> USE DEF DialogInv
<1>1. CASE EditBoard
  <2> USE <1>1 DEF EditBoard, flagVars, listVars, scanVars, connVars
  <2>1. TypeOK'
    BY DEF TypeOK
  <2>2. Numbering' /\ ThreadIsLast' /\ ToldStaysTold' /\ BoardScanned'
    BY DEF Numbering, ThreadIsLast, ToldStaysTold, BoardScanned, Live, Clean
  <2>3. MessagesAreLast' /\ ListIsLast' /\ ConnectsAfter' /\ ConnectsToFound'
    BY DEF MessagesAreLast, ListIsLast, Clean, ConnectsAfter, ConnectsToFound
  <2> QED BY <2>1, <2>2, <2>3
<1>2. CASE Select
  <2> USE <1>2 DEF Select, dlgVars, flagVars, scanVars, connVars
  <2>1. TypeOK'
    BY DEF TypeOK
  <2>2. Numbering' /\ ThreadIsLast' /\ ToldStaysTold' /\ BoardScanned'
    BY DEF Numbering, ThreadIsLast, ToldStaysTold, BoardScanned, Live, Clean
  <2>3. MessagesAreLast' /\ ListIsLast' /\ ConnectsAfter' /\ ConnectsToFound'
    BY DEF MessagesAreLast, ListIsLast, Clean, ConnectsAfter, ConnectsToFound
  <2> QED BY <2>1, <2>2, <2>3
<1> QED BY <1>1, <1>2

\* Stop, Connect and Cancel.
LEMMA StopInv ==
  ASSUME DialogInv, PressStop \/ OnBtnConnect \/ OnCancel
  PROVE  DialogInv'
<1> USE DEF DialogInv
<1>1. /\ StopScan /\ opened
      /\ UNCHANGED <<gen, text, edited, scanning, listVars>>
      /\ opened' \in BOOLEAN
  BY DEF PressStop, OnBtnConnect, OnCancel, dlgVars, TypeOK
<1>2. /\ UNCHANGED <<gen, text, edited, scanning, list, selected, msgs, stray, scans, pc,
                     owner, addr, board>>
      /\ stopScan' = TRUE /\ hwnd' = FALSE
      /\ told' = [s \in Scans |-> told[s] \/ (owner[s] = gen /\ pc[s] # "idle")]
  BY <1>1 DEF StopScan, listVars
<1>3. \/ UNCHANGED connVars
      \/ /\ ~opened' /\ text # NoNumber /\ selected # 0 /\ conn' = "working"
         /\ target' = [board |-> text, scan |-> list[selected].scan,
                       addr |-> list[selected].addr]
  BY DEF PressStop, OnBtnConnect, OnCancel
<1>4. selected # 0 => list[selected] \in Devices /\ selected \in DOMAIN list
  <2>1. list \in Seq(Devices) /\ selected \in 0..Len(list)
    BY DEF TypeOK
  <2> QED BY <2>1, LenProperties, ElementOfSeq
<1>5. \A d \in Devices : d.scan \in Scans /\ d.addr \in Addrs
  BY DEF Devices
<1>6. TypeOK'
  <2>1. CASE UNCHANGED connVars
    BY <1>1, <1>2, <2>1 DEF TypeOK, connVars
  <2>2. CASE ~UNCHANGED connVars
    <3>1. target' \in [board : AnyBoard, scan : 0..MaxScans, addr : 0..LastAddr]
      <4>1. text \in AnyBoard
        BY <1>3, <2>2 DEF TypeOK, AnyBoard
      <4>2. list[selected].scan \in Scans /\ list[selected].addr \in Addrs
        BY <1>3, <1>4, <1>5, <2>2
      <4>3. Scans \subseteq 0..MaxScans /\ Addrs \subseteq 0..LastAddr
        BY DEF Scans, Addrs
      <4>4. target' = [board |-> text, scan |-> list[selected].scan,
                       addr |-> list[selected].addr]
        BY <1>3, <2>2
      <4> HIDE DEF DialogInv, AnyBoard
      <4> QED BY ONLY <4>1, <4>2, <4>3, <4>4
    <3>2. conn' = "working"
      BY <1>3, <2>2
    <3> QED BY <1>1, <1>2, <3>1, <3>2 DEF TypeOK
  <2> QED BY <2>1, <2>2
<1>7. Numbering' /\ ThreadIsLast' /\ ToldStaysTold' /\ BoardScanned'
  <2>1. \A s \in Scans : told'[s] <=> told[s] \/ (owner[s] = gen /\ pc[s] # "idle")
    BY <1>2
  <2>2. Numbering'
    BY <1>2, <2>1 DEF Numbering
  <2>3. ThreadIsLast' /\ BoardScanned'
    BY <1>1, <1>2 DEF ThreadIsLast, BoardScanned, Live, Clean
  <2>4. ToldStaysTold'
    BY <1>2 DEF ToldStaysTold
  <2> QED BY <2>2, <2>3, <2>4
<1>8. MessagesAreLast' /\ ListIsLast'
  BY <1>1, <1>2 DEF MessagesAreLast, ListIsLast, Clean
<1>9. conn = "idle"
  BY <1>1 DEF ConnectsAfter
<1>10. ConnectsAfter'
  BY <1>3, <1>9 DEF ConnectsAfter, connVars
<1>11. ConnectsToFound'
  <2>1. CASE UNCHANGED connVars
    BY <1>9, <2>1 DEF ConnectsToFound, connVars
  <2>2. CASE ~UNCHANGED connVars /\ ~stray /\ ~edited
    <3>1. list[selected].scan = scans /\ owner[scans] = gen
      BY <1>1, <1>3, <1>4, <2>2 DEF ListIsLast, Clean
    <3>2. scans \in Scans /\ list[selected].addr \in Addrs
      BY <1>3, <1>4, <1>5, <2>2, <3>1
    <3>3. board[scans] = text
      BY <1>1, <1>3, <2>2, <3>1, <3>2 DEF BoardScanned, Wtoi
    <3> QED BY <1>2, <1>3, <2>2, <3>1, <3>2, <3>3 DEF ConnectsToFound
  <2>3. CASE stray \/ edited
    BY <1>2, <2>3 DEF ConnectsToFound
  <2> QED BY <2>1, <2>2, <2>3
<1> QED BY <1>6, <1>7, <1>8, <1>10, <1>11

\* The messages of a scan arrive.
LEMMA MessageInv ==
  ASSUME DialogInv, HandleMessage
  PROVE  DialogInv'
<1> USE DEF DialogInv
<1>1. /\ msgs \in Seq(Messages) /\ msgs # << >> /\ msgs' = Tail(msgs)
      /\ opened /\ list \in Seq(Devices)
      /\ UNCHANGED <<dlgVars, hwnd, stopScan, stray, scanVars, connVars>>
  BY DEF HandleMessage, HandleDeviceFound, HandleScanDone, flagVars, TypeOK
<1>2. /\ Head(msgs) \in Messages /\ Head(msgs) = msgs[1] /\ Tail(msgs) \in Seq(Messages)
      /\ Len(msgs) \in Nat \ {0} /\ DOMAIN msgs = 1..Len(msgs)
      /\ Len(Tail(msgs)) = Len(msgs) - 1 /\ DOMAIN Tail(msgs) = 1..Len(msgs) - 1
      /\ \A i \in 1..Len(msgs) - 1 : Tail(msgs)[i] = msgs[i + 1]
  BY <1>1, TailFacts
<1>3. Numbering' /\ ToldStaysTold' /\ BoardScanned' /\ ConnectsAfter' /\ ConnectsToFound'
  BY <1>1 DEF Numbering, ToldStaysTold, BoardScanned, ConnectsAfter, ConnectsToFound, Live,
              Clean, dlgVars, scanVars, connVars
<1>4. CASE HandleDeviceFound
  <2> DEFINE d == [scan |-> Head(msgs).scan, addr |-> Head(msgs).addr]
  <2>1. d \in Devices
    BY <1>2, <1>4 DEF HandleDeviceFound, Messages, Devices
  <2>2. /\ list' = Append(list, d) /\ scanning' = scanning
        /\ selected' = IF list = << >> THEN 1 ELSE selected
    BY <1>4 DEF HandleDeviceFound, flagVars
  <2> HIDE DEF d
  <2>3. /\ list' \in Seq(Devices) /\ Len(list') = Len(list) + 1 /\ Len(list) \in Nat
        /\ DOMAIN list' = 1..Len(list) + 1 /\ DOMAIN list = 1..Len(list)
        /\ \A i \in 1..Len(list) : list'[i] = list[i]
        /\ list'[Len(list) + 1] = d
    BY <1>1, <2>1, <2>2, AppendFacts
  <2>4. selected' \in 0..Len(list')
    BY <2>2, <2>3 DEF TypeOK
  <2>5. TypeOK'
    BY <1>1, <1>2, <2>2, <2>3, <2>4 DEF TypeOK, dlgVars, scanVars, connVars
  <2>6. ThreadIsLast'
    BY <1>1, <2>2 DEF ThreadIsLast, Clean, Live, dlgVars, scanVars
  <2>7. MessagesAreLast'
    BY <1>1, <1>2, <2>2 DEF MessagesAreLast, Clean, dlgVars, scanVars
  <2>8. ASSUME Clean PROVE d.scan = scans /\ owner[scans] = gen
    BY <1>2, <2>8 DEF MessagesAreLast, d
  <2>9. ListIsLast'
    BY <1>1, <2>3, <2>8 DEF ListIsLast, Clean, dlgVars, scanVars
  <2> QED BY <1>3, <2>5, <2>6, <2>7, <2>9
<1>5. CASE HandleScanDone
  <2>1. /\ list' = list /\ scanning' = FALSE /\ msgs[1].kind = "done"
        /\ selected' = IF list # << >> /\ selected = 0 THEN 1 ELSE selected
    BY <1>2, <1>5 DEF HandleScanDone
  <2>2. selected' \in 0..Len(list')
    <3>1. list # << >> => Len(list) >= 1
      BY <1>1, LenProperties, EmptySeq
    <3>2. selected \in 0..Len(list) /\ Len(list) \in Nat
      BY <1>1, LenProperties DEF TypeOK
    <3> QED BY <2>1, <3>1, <3>2
  <2>3. TypeOK'
    BY <1>1, <1>2, <2>1, <2>2 DEF TypeOK, dlgVars, scanVars, connVars
  <2>4. ASSUME Clean PROVE Len(msgs) = 1 /\ pc[scans] = "idle"
    BY <1>2, <2>1, <2>4 DEF MessagesAreLast
  <2>5. ThreadIsLast'
    BY <1>1, <2>4 DEF ThreadIsLast, Clean, Live, dlgVars, scanVars
  <2>6. MessagesAreLast'
    BY <1>1, <1>2, <2>4 DEF MessagesAreLast, Clean, dlgVars
  <2>7. ListIsLast'
    BY <1>1, <2>1 DEF ListIsLast, Clean, dlgVars, scanVars
  <2> QED BY <1>3, <2>3, <2>5, <2>6, <2>7
<1> QED BY <1>4, <1>5 DEF HandleMessage

\* A step of a scan thread, up to what it posts.
LEMMA ScanAtInv ==
  ASSUME DialogInv, NEW s \in Scans, ScanStep(s)
  PROVE  /\ pc[s] # "idle"
         /\ UNCHANGED <<dlgVars, flagVars, list, selected, scans, owner, board, told,
                        connVars>>
         /\ pc' \in [Scans -> {"idle", "test", "query", "found", "end"}]
         /\ addr' \in [Scans -> 1..LastAddr + 1]
         /\ \A t \in Scans : t # s => pc'[t] = pc[t] /\ addr'[t] = addr[t]
         /\ pc'[s] \in {"query", "found"} => addr'[s] <= LastAddr
         /\ pc'[s] = "idle" => EndScan(s)
<1>0. /\ pc \in [Scans -> {"idle", "test", "query", "found", "end"}]
      /\ addr \in [Scans -> 1..LastAddr + 1]
      /\ pc[s] \in {"query", "found"} => addr[s] <= LastAddr
      /\ LastAddr \in Nat /\ addr[s] \in 1..LastAddr + 1
  BY DEF DialogInv, TypeOK, Numbering
<1> USE <1>0 DEF ScanAt
<1>1. CASE TestStop(s)
  BY <1>1 DEF TestStop
<1>2. CASE Answer(s)
  BY <1>2 DEF Answer
<1>3. CASE NoAnswer(s)
  BY <1>3 DEF NoAnswer
<1>4. CASE PostDevice(s)
  <2>1. ScanAt(s, "found", "test") /\ addr' = [addr EXCEPT ![s] = @ + 1]
    BY <1>4 DEF PostDevice
  <2>2. addr' \in [Scans -> 1..LastAddr + 1]
    BY <2>1
  <2> QED BY <2>1, <2>2
<1>5. CASE EndScan(s)
  BY <1>5 DEF EndScan
<1> QED BY <1>1, <1>2, <1>3, <1>4, <1>5 DEF ScanStep

\* What it posts: nothing, its own message, or one that makes the dialog stray.
LEMMA ScanPosts ==
  ASSUME DialogInv, NEW s \in Scans, ScanStep(s)
  PROVE  \/ UNCHANGED <<msgs, stray>>
         \/ \E m \in Messages : /\ m.scan = s /\ (m.kind = "done" => EndScan(s))
                                /\ msgs' = Append(msgs, m)
                                /\ stray' = TRUE \/ (stray' = stray /\ owner[s] = gen /\ opened)
<1>1. CASE TestStop(s) \/ NoAnswer(s) \/ Answer(s)
  BY <1>1 DEF TestStop, NoAnswer, Answer
<1>2. CASE PostDevice(s)
  <2>1. Found(s) \in Messages /\ Found(s).scan = s /\ Found(s).kind = "found"
    <3>1. addr[s] \in Addrs
      BY <1>2 DEF PostDevice, ScanAt, DialogInv, Numbering, TypeOK, Addrs
    <3> QED BY <3>1 DEF Found, Messages
  <2>2. Post(s, Found(s))
    BY <1>2 DEF PostDevice
  <2>3. \/ UNCHANGED <<msgs, stray>>
        \/ /\ msgs' = Append(msgs, Found(s))
           /\ stray' = TRUE \/ (stray' = stray /\ owner[s] = gen /\ opened)
    BY <2>2 DEF Post, OwnDialog
  <2> QED BY <2>1, <2>3
<1>3. CASE EndScan(s)
  <2>1. Done(s) \in Messages /\ Done(s).scan = s
    BY DEF Done, Messages
  <2>2. Post(s, Done(s))
    BY <1>3 DEF EndScan
  <2>3. \/ UNCHANGED <<msgs, stray>>
        \/ /\ msgs' = Append(msgs, Done(s))
           /\ stray' = TRUE \/ (stray' = stray /\ owner[s] = gen /\ opened)
    BY <2>2 DEF Post, OwnDialog
  <2> QED BY <1>3, <2>1, <2>3
<1> QED BY <1>1, <1>2, <1>3 DEF ScanStep

LEMMA ScanInv ==
  ASSUME DialogInv, NEW s \in Scans, ScanStep(s)
  PROVE  DialogInv'
<1> USE DEF DialogInv
<1>1. /\ pc[s] # "idle"
      /\ UNCHANGED <<dlgVars, flagVars, list, selected, scans, owner, board, told, connVars>>
      /\ pc' \in [Scans -> {"idle", "test", "query", "found", "end"}]
      /\ addr' \in [Scans -> 1..LastAddr + 1]
      /\ \A t \in Scans : t # s => pc'[t] = pc[t] /\ addr'[t] = addr[t]
      /\ pc'[s] \in {"query", "found"} => addr'[s] <= LastAddr
      /\ pc'[s] = "idle" => EndScan(s)
  BY ScanAtInv
<1>2. EndScan(s) => pc'[s] = "idle"
  BY DEF EndScan, ScanAt, TypeOK
<1>3. stray' \in BOOLEAN /\ msgs' \in Seq(Messages) /\ (stray => stray')
  <2>1. stray \in BOOLEAN /\ msgs \in Seq(Messages)
    BY DEF TypeOK
  <2>2. \A m \in Messages : Append(msgs, m) \in Seq(Messages)
    BY <2>1, AppendProperties
  <2>3. \/ UNCHANGED <<msgs, stray>>
        \/ \E m \in Messages : /\ msgs' = Append(msgs, m)
                               /\ stray' = TRUE \/ stray' = stray
    BY ScanPosts
  <2> HIDE DEF DialogInv
  <2>4. msgs' \in Seq(Messages)
    BY <2>1, <2>2, <2>3
  <2>5. stray' \in BOOLEAN /\ (stray => stray')
    BY <2>1, <2>3, Zenon
  <2> QED BY <2>4, <2>5
<1>4. TypeOK'
  BY <1>1, <1>3 DEF TypeOK, dlgVars, flagVars, connVars
<1>5. Numbering'
  BY <1>1 DEF Numbering, TypeOK, dlgVars
<1>6. ThreadIsLast' /\ ToldStaysTold' /\ ListIsLast'
  BY <1>1, <1>3 DEF ThreadIsLast, ToldStaysTold, ListIsLast, Clean, Live, dlgVars, flagVars
<1>7. BoardScanned' /\ ConnectsAfter' /\ ConnectsToFound'
  BY <1>1, <1>3 DEF BoardScanned, ConnectsAfter, ConnectsToFound, dlgVars, connVars
<1>8. ASSUME Clean, owner[s] = gen
      PROVE  s = scans /\ scanning /\ \A i \in DOMAIN msgs : msgs[i].kind # "done"
  <2>1. s = scans /\ scanning
    BY <1>1, <1>8 DEF ThreadIsLast, Live
  <2> QED BY <1>1, <1>8, <2>1 DEF MessagesAreLast
<1>9. MessagesAreLast'
  <2>1. CASE UNCHANGED <<msgs, stray>>
    <3>1. pc[scans] = "idle" /\ scans \in Scans => pc'[scans] = "idle"
      BY <1>1
    <3>2. ASSUME Clean, NEW i \in DOMAIN msgs PROVE scans \in Scans
      <4>1. msgs[i] \in Messages
        BY <3>2, ElementOfSeq, LenProperties DEF TypeOK
      <4> QED BY <3>2, <4>1 DEF MessagesAreLast, Messages
    <3> QED BY <1>1, <2>1, <3>1, <3>2 DEF MessagesAreLast, Clean, dlgVars, flagVars
  <2>2. CASE stray'
    BY <2>2 DEF MessagesAreLast, Clean
  <2>3. \/ UNCHANGED <<msgs, stray>>
        \/ \E m \in Messages : /\ m.scan = s /\ (m.kind = "done" => EndScan(s))
                               /\ msgs' = Append(msgs, m)
                               /\ stray' = TRUE \/ (stray' = stray /\ owner[s] = gen /\ opened)
    BY ScanPosts
  <2>4. CASE ~UNCHANGED <<msgs, stray>> /\ ~stray'
    <3>1. PICK m \in Messages : /\ m.scan = s /\ (m.kind = "done" => EndScan(s))
                                /\ msgs' = Append(msgs, m)
                                /\ stray' = TRUE \/ (stray' = stray /\ owner[s] = gen /\ opened)
      BY <2>3, <2>4
    <3>2. ~stray' /\ stray' = stray /\ owner[s] = gen /\ opened
      BY <2>4, <3>1
    <3>3. /\ Len(msgs') = Len(msgs) + 1 /\ Len(msgs) \in Nat
          /\ DOMAIN msgs' = 1..Len(msgs) + 1 /\ DOMAIN msgs = 1..Len(msgs)
          /\ \A i \in 1..Len(msgs) : msgs'[i] = msgs[i]
          /\ msgs'[Len(msgs) + 1] = m
      <4>1. msgs \in Seq(Messages)
        BY DEF TypeOK
      <4> QED BY <3>1, <3>2, <4>1, AppendFacts
    <3>4. s = scans /\ scanning /\ \A i \in DOMAIN msgs : msgs[i].kind # "done"
      BY <1>8, <3>1, <3>2 DEF Clean
    <3>5. \A i \in DOMAIN msgs : msgs[i].scan = scans
      BY <3>1, <3>2 DEF MessagesAreLast, Clean
    <3>6. m.kind = "done" => pc'[scans] = "idle"
      BY <1>2, <3>1, <3>2, <3>4
    <3>7. scans' = scans /\ owner' = owner /\ gen' = gen /\ scanning' = scanning
      BY <1>1 DEF dlgVars, flagVars
    <3>8. ASSUME NEW i \in DOMAIN msgs'
          PROVE  /\ msgs'[i].scan = scans
                 /\ msgs'[i].kind = "done" => i = Len(msgs') /\ pc'[scans] = "idle"
      <4>1. CASE i \in DOMAIN msgs
        BY <3>3, <3>4, <3>5, <4>1
      <4>2. CASE i = Len(msgs) + 1
        BY <3>1, <3>2, <3>3, <3>4, <3>6, <4>2
      <4> QED BY <3>3, <3>8, <4>1, <4>2
    <3>9. owner[scans] = gen /\ scanning
      BY <3>1, <3>2, <3>4
    <3> HIDE DEF DialogInv
    <3> QED BY <3>7, <3>8, <3>9 DEF MessagesAreLast
  <2> QED BY <2>1, <2>2, <2>4
<1> QED BY <1>4, <1>5, <1>6, <1>7, <1>9

-----------------------------------------------------------------------------
(* The theorems                                                            *)

LEMMA NextInv == DialogInv /\ [Next]_vars => DialogInv'
<1> SUFFICES ASSUME DialogInv, [Next]_vars PROVE DialogInv'
  OBVIOUS
<1>1. CASE UNCHANGED vars
  <2> USE <1>1 DEF vars, dlgVars, flagVars, listVars, scanVars, connVars
  <2>1. TypeOK => TypeOK'
    BY DEF TypeOK
  <2>2. (Numbering => Numbering') /\ (ThreadIsLast => ThreadIsLast')
    BY DEF Numbering, ThreadIsLast, Clean, Live
  <2>3. (MessagesAreLast => MessagesAreLast') /\ (ListIsLast => ListIsLast')
    BY DEF MessagesAreLast, ListIsLast, Clean
  <2>4. (ToldStaysTold => ToldStaysTold') /\ (BoardScanned => BoardScanned')
    BY DEF ToldStaysTold, BoardScanned, Live, Clean
  <2>5. (ConnectsAfter => ConnectsAfter') /\ (ConnectsToFound => ConnectsToFound')
    BY DEF ConnectsAfter, ConnectsToFound
  <2> HIDE <1>1
  <2> QED BY <2>1, <2>2, <2>3, <2>4, <2>5 DEF DialogInv
<1> QED BY <1>1, FrameInv, BeginInv, EditInv, StopInv, MessageInv, ScanInv DEF Next, User

LEMMA DialogInvariant == Spec => []DialogInv
BY InitInv, NextInv, PTL DEF Spec

\* Types of the dialog, its frame and its threads.
THEOREM TypeCorrect == Spec => []TypeOK
<1>1. DialogInv => TypeOK
  BY DEF DialogInv
<1> QED BY <1>1, DialogInvariant, PTL

\* A dialog never has two scans under way.
THEOREM OneScan == Spec => []OneScanAtATime
<1>1. DialogInv => OneScanAtATime
  BY DEF DialogInv, ThreadIsLast, OneScanAtATime, Clean
<1> QED BY <1>1, DialogInvariant, PTL

\* The list and the messages under way are of the last scan.
THEOREM ListIsFresh == Spec => []ListFromThisScan
<1>1. DialogInv => ListFromThisScan
  BY DEF DialogInv, MessagesAreLast, ListIsLast, ListFromThisScan, Clean
<1> QED BY <1>1, DialogInvariant, PTL

\* The connect thread is given a device that answered the last scan on its board.
THEOREM TargetWasFound == Spec => []ConnectsToFound
<1>1. DialogInv => ConnectsToFound
  BY DEF DialogInv
<1> QED BY <1>1, DialogInvariant, PTL

\* A stopped scan begins no other address while its dialog is there: it would
\* have to see the flag clear, and only a new scan, which cannot begin, clears it.
THEOREM StopHolds == Spec => StoppedStaysStopped
<1> DEFINE A(s) == opened /\ opened' /\ owner[s] = gen /\ told[s] /\ ~stray
                     => ~(pc[s] = "test" /\ pc'[s] = "query")
<1>1. DialogInv /\ [Next]_vars => [\A s \in Scans : A(s)]_vars
  <2> SUFFICES ASSUME DialogInv, Next, NEW s \in Scans, opened, owner[s] = gen, told[s],
                      ~stray, pc[s] = "test", pc'[s] = "query"
               PROVE  FALSE
    BY DEF A
  <2>1. stopScan /\ pc \in [Scans -> {"idle", "test", "query", "found", "end"}]
    BY DEF DialogInv, ToldStaysTold, Clean, Live, TypeOK
  <2>2. TestStop(s)
    <3>1. ASSUME NEW t \in Scans, ScanStep(t), t # s PROVE FALSE
      BY <3>1, ScanAtInv
    <3>2. CASE ScanStep(s)
      BY <2>1, <3>2 DEF ScanStep, NoAnswer, Answer, PostDevice, EndScan, ScanAt
    <3>3. CASE User \/ HandleMessage \/ ConnectThread \/ OnConnectDone
      <4>1. CASE BeginScan
        BY <2>1, <4>1 DEF BeginScan
      <4>2. CASE ~BeginScan
        BY <3>3, <4>2 DEF User, HandleMessage, HandleDeviceFound, HandleScanDone,
           ConnectThread, OnConnectDone, OnScopeConnect, OnScopeDisconnect, EditBoard,
           PressStop, Select, OnBtnConnect, OnCancel, StopScan, scanVars
      <4> QED BY <4>1, <4>2
    <3> QED BY <3>1, <3>2, <3>3 DEF Next
  <2>3. StopSeen(s) = {TRUE}
    BY <2>1 DEF StopSeen, OwnDialog, DialogInv, TypeOK
  <2> QED BY <2>1, <2>2, <2>3 DEF TestStop, ScanAt
<1> QED BY <1>1, DialogInvariant, PTL DEF Spec, StoppedStaysStopped, A

-----------------------------------------------------------------------------
(* Each device once                                                        *)

\* Along the way of a found device, from the list back to the scan's own place,
\* the addresses go up.
ListGoesUp ==
  Clean => \A j \in DOMAIN list : \A i \in DOMAIN list : i < j => list[i].addr < list[j].addr

MessagesGoUp ==
  Clean => \A j \in DOMAIN msgs : msgs[j].kind = "found" =>
             /\ \A i \in DOMAIN list : list[i].addr < msgs[j].addr
             /\ \A i \in DOMAIN msgs : i < j => msgs[i].addr < msgs[j].addr

ScanIsAhead ==
  Clean /\ scans \in Scans /\ pc[scans] # "idle" =>
     /\ \A i \in DOMAIN list : list[i].addr < addr[scans]
     /\ \A i \in DOMAIN msgs : msgs[i].addr < addr[scans]

GoesUp == ListGoesUp /\ MessagesGoUp /\ ScanIsAhead

LEMMA GoesUpQuiet ==
  ASSUME GoesUp, Clean' => Clean, UNCHANGED <<list, msgs, scans, pc, addr>>
  PROVE  GoesUp'
BY DEF GoesUp, ListGoesUp, MessagesGoUp, ScanIsAhead, Clean

LEMMA GoesUpBegin ==
  ASSUME DialogInv, OnScopeConnect \/ BeginScan
  PROVE  GoesUp'
<1>1. list' = << >> /\ (Clean' => DOMAIN msgs' = {})
  <2>1. CASE OnScopeConnect
    BY <2>1, EmptyFacts DEF OnScopeConnect
  <2>2. CASE BeginScan
    BY <2>2 DEF BeginScan, DialogInv, MessagesAreLast, Clean
  <2> QED BY <2>1, <2>2
<1> QED BY <1>1, EmptyFacts DEF GoesUp, ListGoesUp, MessagesGoUp, ScanIsAhead

LEMMA GoesUpMessage ==
  ASSUME DialogInv, GoesUp, HandleMessage
  PROVE  GoesUp'
<1>1. /\ msgs \in Seq(Messages) /\ msgs # << >> /\ msgs' = Tail(msgs)
      /\ list \in Seq(Devices)
      /\ UNCHANGED <<opened, stray, scans, pc, addr>>
  BY DEF HandleMessage, HandleDeviceFound, HandleScanDone, DialogInv, TypeOK, dlgVars, scanVars
<1>2. /\ Head(msgs) = msgs[1] /\ Len(msgs) \in Nat \ {0} /\ DOMAIN msgs = 1..Len(msgs)
      /\ DOMAIN msgs' = 1..Len(msgs) - 1
      /\ \A i \in 1..Len(msgs) - 1 : msgs'[i] = msgs[i + 1]
  BY <1>1, TailFacts
<1> SUFFICES ASSUME Clean PROVE GoesUp'
  BY <1>1 DEF GoesUp, ListGoesUp, MessagesGoUp, ScanIsAhead, Clean
<1>3. CASE HandleScanDone
  <2>1. list' = list
    BY <1>3 DEF HandleScanDone
  <2>2. ListGoesUp' /\ ScanIsAhead'
    BY <1>1, <1>2, <2>1 DEF GoesUp, ListGoesUp, ScanIsAhead, Clean
  <2>3. MessagesGoUp'
    <3>1. ASSUME NEW j \in DOMAIN msgs', msgs'[j].kind = "found"
          PROVE  /\ \A i \in DOMAIN list : list[i].addr < msgs'[j].addr
                 /\ \A i \in DOMAIN msgs' : i < j => msgs'[i].addr < msgs'[j].addr
      <4>1. j + 1 \in DOMAIN msgs /\ msgs'[j] = msgs[j + 1]
        BY <1>2, <3>1
      <4>2. /\ \A i \in DOMAIN list : list[i].addr < msgs[j + 1].addr
            /\ \A i \in DOMAIN msgs : i < j + 1 => msgs[i].addr < msgs[j + 1].addr
        BY <3>1, <4>1 DEF GoesUp, MessagesGoUp
      <4>3. ASSUME NEW i \in DOMAIN msgs', i < j PROVE msgs'[i].addr < msgs'[j].addr
        <5>1. i + 1 \in DOMAIN msgs /\ i + 1 < j + 1 /\ msgs'[i] = msgs[i + 1]
          BY <1>2, <3>1, <4>3
        <5> QED BY <4>1, <4>2, <5>1
      <4> QED BY <4>1, <4>2, <4>3
    <3> QED BY <2>1, <3>1 DEF MessagesGoUp
  <2> QED BY <2>2, <2>3 DEF GoesUp
<1>4. CASE HandleDeviceFound
  <2> DEFINE d == [scan |-> msgs[1].scan, addr |-> msgs[1].addr]
  <2>1. list' = Append(list, d) /\ msgs[1].kind = "found"
    BY <1>2, <1>4 DEF HandleDeviceFound
  <2>2. d \in Devices /\ d.addr = msgs[1].addr
    <3>1. msgs[1] \in Messages
      BY <1>1, <1>2, ElementOfSeq
    <3> QED BY <2>1, <3>1 DEF Messages, Devices
  <2> HIDE DEF d
  <2>3. /\ Len(list) \in Nat /\ DOMAIN list' = 1..Len(list) + 1 /\ DOMAIN list = 1..Len(list)
        /\ \A i \in 1..Len(list) : list'[i] = list[i]
        /\ list'[Len(list) + 1] = d
    BY <1>1, <2>1, <2>2, AppendFacts
  <2>4. /\ 1 \in DOMAIN msgs
        /\ \A i \in DOMAIN list : list[i].addr < d.addr
        /\ \A i \in DOMAIN msgs' : i + 1 \in DOMAIN msgs /\ 1 < i + 1
    BY <1>2, <2>1, <2>2 DEF GoesUp, MessagesGoUp
  <2>5. ASSUME NEW j \in DOMAIN list', NEW i \in DOMAIN list', i < j
        PROVE  list'[i].addr < list'[j].addr
    <3>1. CASE j \in DOMAIN list
      BY <2>3, <2>5, <3>1 DEF GoesUp, ListGoesUp
    <3>2. CASE j = Len(list) + 1
      BY <2>3, <2>4, <2>5, <3>2
    <3> QED BY <2>3, <2>5, <3>1, <3>2
  <2>6. ASSUME NEW j \in DOMAIN msgs', msgs'[j].kind = "found"
        PROVE  /\ \A i \in DOMAIN list' : list'[i].addr < msgs'[j].addr
               /\ \A i \in DOMAIN msgs' : i < j => msgs'[i].addr < msgs'[j].addr
    <3>1. /\ j + 1 \in DOMAIN msgs /\ msgs'[j] = msgs[j + 1] /\ msgs[j + 1].kind = "found"
      BY <1>2, <2>4, <2>6
    <3>2. /\ \A i \in DOMAIN list : list[i].addr < msgs[j + 1].addr
          /\ \A i \in DOMAIN msgs : i < j + 1 => msgs[i].addr < msgs[j + 1].addr
      BY <3>1 DEF GoesUp, MessagesGoUp
    <3>3. d.addr < msgs[j + 1].addr
      BY <2>2, <2>4, <2>6, <3>2
    <3>4. \A i \in DOMAIN list' : list'[i].addr < msgs'[j].addr
      BY <2>3, <3>1, <3>2, <3>3
    <3>5. ASSUME NEW i \in DOMAIN msgs', i < j PROVE msgs'[i].addr < msgs'[j].addr
      BY <1>2, <2>4, <2>6, <3>1, <3>2, <3>5
    <3> QED BY <3>4, <3>5
  <2>7. ScanIsAhead'
    BY <1>1, <1>2, <2>2, <2>3, <2>4 DEF GoesUp, ScanIsAhead, Clean
  <2> QED BY <2>5, <2>6, <2>7 DEF GoesUp, ListGoesUp, MessagesGoUp
<1> QED BY <1>3, <1>4 DEF HandleMessage

\* A thread posts what it stands at, and goes on to the next address.
LEMMA ScanPostsAddress ==
  ASSUME DialogInv, NEW s \in Scans, ScanStep(s)
  PROVE  \/ UNCHANGED <<msgs, stray>> /\ addr'[s] >= addr[s]
         \/ \E m \in Messages :
              /\ msgs' = Append(msgs, m)
              /\ m.kind = "found" => m.addr = addr[s] /\ addr'[s] = addr[s] + 1
              /\ m.kind = "done" => m.addr = 0 /\ pc'[s] = "idle"
              /\ stray' = TRUE \/ (stray' = stray /\ owner[s] = gen /\ opened)
<1>0. addr \in [Scans -> 1..LastAddr + 1] /\ addr[s] \in Nat /\ LastAddr \in Nat
      /\ DOMAIN pc = Scans
  BY DEF DialogInv, TypeOK
<1>1. CASE TestStop(s) \/ NoAnswer(s) \/ Answer(s)
  <2>1. UNCHANGED <<msgs, stray>> /\ (addr' = addr \/ addr' = [addr EXCEPT ![s] = @ + 1])
    BY <1>1 DEF TestStop, NoAnswer, Answer
  <2>2. addr'[s] >= addr[s]
    BY <1>0, <2>1
  <2> QED BY <2>1, <2>2
<1>2. CASE PostDevice(s)
  <2>1. addr[s] \in Addrs
    BY <1>2 DEF PostDevice, ScanAt, DialogInv, Numbering, TypeOK, Addrs
  <2>2. Found(s) \in Messages /\ Found(s).kind = "found" /\ Found(s).addr = addr[s]
    BY <2>1 DEF Found, Messages
  <2>3. addr'[s] = addr[s] + 1
    BY <1>0, <1>2 DEF PostDevice
  <2>4. \/ UNCHANGED <<msgs, stray>>
        \/ /\ msgs' = Append(msgs, Found(s))
           /\ stray' = TRUE \/ (stray' = stray /\ owner[s] = gen /\ opened)
    BY <1>2 DEF PostDevice, Post, OwnDialog
  <2> QED BY <1>0, <2>2, <2>3, <2>4
<1>3. CASE EndScan(s)
  <2>1. Done(s) \in Messages /\ Done(s).kind = "done" /\ Done(s).addr = 0
    BY DEF Done, Messages
  <2>2. \/ UNCHANGED <<msgs, stray>>
        \/ /\ msgs' = Append(msgs, Done(s))
           /\ stray' = TRUE \/ (stray' = stray /\ owner[s] = gen /\ opened)
    BY <1>3 DEF EndScan, Post, OwnDialog
  <2>3. addr' = addr /\ pc'[s] = "idle"
    BY <1>0, <1>3 DEF EndScan, ScanAt
  <2> QED BY <1>0, <2>1, <2>2, <2>3
<1> QED BY <1>1, <1>2, <1>3 DEF ScanStep

LEMMA GoesUpScan ==
  ASSUME DialogInv, GoesUp, NEW s \in Scans, ScanStep(s)
  PROVE  GoesUp'
<1>1. /\ pc[s] # "idle"
      /\ UNCHANGED <<opened, gen, list, scans, owner>>
      /\ \A t \in Scans : t # s => pc'[t] = pc[t] /\ addr'[t] = addr[t]
  BY ScanAtInv DEF dlgVars
<1>2. /\ list \in Seq(Devices) /\ msgs \in Seq(Messages)
      /\ \A t \in Scans : addr[t] \in Nat /\ addr'[t] \in Nat
  <2>1. addr \in [Scans -> 1..LastAddr + 1] /\ addr' \in [Scans -> 1..LastAddr + 1]
    BY ScanAtInv DEF DialogInv, TypeOK
  <2>2. \A n \in 1..LastAddr + 1 : n \in Nat
    BY DialogAssumption
  <2>3. \A t \in Scans : addr[t] \in Nat /\ addr'[t] \in Nat
    BY <2>1, <2>2
  <2> QED BY <2>3 DEF DialogInv, TypeOK
<1>3. /\ DOMAIN list = 1..Len(list) /\ DOMAIN msgs = 1..Len(msgs)
      /\ \A i \in DOMAIN list : list[i].addr \in Nat
      /\ \A i \in DOMAIN msgs : msgs[i].addr \in Nat
      /\ \A m \in Messages : m.addr \in Nat /\ m.kind \in {"found", "done"}
  <2>1. /\ \A i \in DOMAIN list : list[i] \in Devices
        /\ \A i \in DOMAIN msgs : msgs[i] \in Messages
        /\ DOMAIN list = 1..Len(list) /\ DOMAIN msgs = 1..Len(msgs)
    BY <1>2, ElementOfSeq, LenProperties
  <2>2. \A m \in Messages : m.addr \in Nat /\ m.kind \in {"found", "done"}
    BY DEF Messages, Addrs
  <2>3. \A d \in Devices : d.addr \in Nat
    BY DEF Devices, Addrs
  <2> QED BY <2>1, <2>2, <2>3
<1>4. CASE UNCHANGED <<msgs, stray>> /\ addr'[s] >= addr[s]
  <2>1. Clean' = Clean
    BY <1>1, <1>4 DEF Clean
  <2>2. ListGoesUp' /\ MessagesGoUp'
    BY <1>1, <1>4, <2>1 DEF GoesUp, ListGoesUp, MessagesGoUp
  <2>3. ASSUME Clean, scans \in Scans, pc'[scans] # "idle"
        PROVE  pc[scans] # "idle" /\ addr'[scans] >= addr[scans]
    BY <1>1, <1>2, <1>4, <2>3
  <2>4. ScanIsAhead'
    BY <1>1, <1>2, <1>3, <1>4, <2>1, <2>3 DEF GoesUp, ScanIsAhead
  <2> QED BY <2>2, <2>4 DEF GoesUp
<1>5. ASSUME NEW m \in Messages, msgs' = Append(msgs, m), Clean',
             m.kind = "found" => m.addr = addr[s] /\ addr'[s] = addr[s] + 1,
             m.kind = "done" => m.addr = 0 /\ pc'[s] = "idle",
             stray' = TRUE \/ (stray' = stray /\ owner[s] = gen /\ opened)
      PROVE  GoesUp'
  <2>1. Clean /\ owner[s] = gen
    BY <1>5 DEF Clean
  <2>2. s = scans
    BY <1>1, <2>1 DEF DialogInv, ThreadIsLast, Live
  <2>3. /\ DOMAIN msgs' = 1..Len(msgs) + 1 /\ Len(msgs) \in Nat
        /\ \A i \in 1..Len(msgs) : msgs'[i] = msgs[i]
        /\ msgs'[Len(msgs) + 1] = m
    BY <1>2, <1>5, AppendFacts
  <2>4. /\ \A i \in DOMAIN list : list[i].addr < addr[s]
        /\ \A i \in DOMAIN msgs : msgs[i].addr < addr[s]
    BY <1>1, <2>1, <2>2 DEF GoesUp, ScanIsAhead
  <2>5. ASSUME NEW j \in DOMAIN msgs', msgs'[j].kind = "found"
        PROVE  /\ \A i \in DOMAIN list : list[i].addr < msgs'[j].addr
               /\ \A i \in DOMAIN msgs' : i < j => msgs'[i].addr < msgs'[j].addr
    <3>1. CASE j = Len(msgs) + 1
      BY <1>3, <1>5, <2>3, <2>4, <2>5, <3>1
    <3>2. CASE j \in DOMAIN msgs
      <4>1. /\ \A i \in DOMAIN list : list[i].addr < msgs[j].addr
            /\ \A i \in DOMAIN msgs : i < j => msgs[i].addr < msgs[j].addr
        BY <1>3, <2>1, <2>3, <2>5, <3>2 DEF GoesUp, MessagesGoUp
      <4> QED BY <1>3, <2>3, <3>2, <4>1
    <3> QED BY <1>3, <2>3, <2>5, <3>1, <3>2
  <2>6. ScanIsAhead'
    <3>1. CASE m.kind = "done"
      BY <1>1, <1>5, <2>2, <3>1 DEF ScanIsAhead
    <3>2. CASE m.kind = "found"
      BY <1>1, <1>2, <1>3, <1>5, <2>2, <2>3, <2>4, <3>2 DEF ScanIsAhead
    <3> QED BY <1>3, <3>1, <3>2
  <2>7. ListGoesUp'
    BY <1>1, <2>1 DEF GoesUp, ListGoesUp
  <2> QED BY <1>1, <2>5, <2>6, <2>7 DEF GoesUp, MessagesGoUp
<1>6. CASE ~Clean'
  BY <1>6 DEF GoesUp, ListGoesUp, MessagesGoUp, ScanIsAhead
<1> QED BY <1>4, <1>5, <1>6, ScanPostsAddress

LEMMA GoesUpStep == DialogInv /\ GoesUp /\ [Next]_vars => GoesUp'
<1> SUFFICES ASSUME DialogInv, GoesUp, [Next]_vars PROVE GoesUp'
  OBVIOUS
<1>1. CASE \/ ConnectThread \/ OnConnectDone \/ OnScopeDisconnect \/ EditBoard \/ Select
           \/ PressStop \/ OnBtnConnect \/ OnCancel \/ UNCHANGED vars
  <2>1. (Clean' => Clean) /\ UNCHANGED <<list, msgs, scans, pc, addr>>
    BY <1>1 DEF ConnectThread, OnConnectDone, OnScopeDisconnect, EditBoard, Select, PressStop,
                OnBtnConnect, OnCancel, StopScan, vars, dlgVars, listVars, scanVars, Clean
  <2> QED BY <2>1, GoesUpQuiet
<1> QED BY <1>1, GoesUpBegin, GoesUpMessage, GoesUpScan DEF Next, User

\* The list names each device at most once, by rising address, whatever was stopped
\* and begun again: an entry is never that of an earlier pass
\* (Gpib/GpibController.cpp, FindDevices; App/ConnectDialog.cpp, OnScanMessage).
THEOREM EachDeviceOnce == Spec => []ListGoesUp
<1>1. Init => GoesUp
  BY DEF Init, GoesUp, ListGoesUp, MessagesGoUp, ScanIsAhead, Clean
<1>2. GoesUp => ListGoesUp
  BY DEF GoesUp
<1> QED BY <1>1, <1>2, GoesUpStep, DialogInvariant, PTL DEF Spec
-----------------------------------------------------------------------------
(* A scan is bounded, and somebody will report its end                     *)

\* Steps a scan's thread has before it at most
StepsLeft(s) ==
  CASE pc[s] = "idle"  -> 0
    [] pc[s] = "end"   -> 1
    [] pc[s] = "test"  -> 3 * (LastAddr + 1 - addr[s]) + 2
    [] pc[s] = "query" -> 3 * (LastAddr + 1 - addr[s]) + 1
    [] pc[s] = "found" -> 3 * (LastAddr + 1 - addr[s])

LEMMA StepsLeftNat ==
  ASSUME DialogInv, NEW s \in Scans
  PROVE  StepsLeft(s) \in Nat
<1>1. /\ pc[s] \in {"idle", "test", "query", "found", "end"} /\ LastAddr \in Nat
      /\ addr[s] \in 1..LastAddr + 1
  BY DEF DialogInv, TypeOK
<1> QED BY <1>1 DEF StepsLeft

LEMMA ScanShortens ==
  ASSUME DialogInv, NEW s \in Scans, ScanStep(s)
  PROVE  StepsLeft(s)' < StepsLeft(s)
<1>1. /\ pc \in [Scans -> {"idle", "test", "query", "found", "end"}] /\ LastAddr \in Nat
      /\ addr \in [Scans -> 1..LastAddr + 1] /\ addr[s] \in 1..LastAddr + 1
  BY DEF DialogInv, TypeOK
<1> DEFINE a == 3 * (LastAddr + 1 - addr[s])
<1>2. a \in Nat
  BY <1>1
<1>3. CASE TestStop(s)
  <2>1. pc[s] = "test" /\ pc'[s] \in {"query", "end"} /\ addr' = addr
    BY <1>1, <1>3 DEF TestStop, ScanAt
  <2>2. StepsLeft(s) = a + 2
    BY <2>1 DEF StepsLeft
  <2>3. StepsLeft(s)' \in {a + 1, 1}
    BY <2>1 DEF StepsLeft
  <2> HIDE DEF a
  <2> QED BY <1>2, <2>2, <2>3
<1>4. CASE Answer(s)
  <2>1. pc[s] = "query" /\ pc'[s] = "found" /\ addr' = addr
    BY <1>1, <1>4 DEF Answer, ScanAt
  <2>2. StepsLeft(s) = a + 1
    BY <2>1 DEF StepsLeft
  <2>3. StepsLeft(s)' = a
    BY <2>1 DEF StepsLeft
  <2> HIDE DEF a
  <2> QED BY <1>2, <2>2, <2>3
<1>5. CASE NoAnswer(s) \/ PostDevice(s)
  <2>1. pc[s] \in {"query", "found"} /\ pc'[s] = "test" /\ addr'[s] = addr[s] + 1
    BY <1>1, <1>5 DEF NoAnswer, PostDevice, ScanAt
  <2>2. StepsLeft(s) \in {a + 1, a}
    BY <2>1 DEF StepsLeft
  <2>3. StepsLeft(s)' = 3 * (LastAddr + 1 - (addr[s] + 1)) + 2
    BY <2>1 DEF StepsLeft
  <2>4. StepsLeft(s)' = a - 1
    BY <1>1, <2>3
  <2> HIDE DEF a
  <2> QED BY <1>2, <2>2, <2>4
<1>6. CASE EndScan(s)
  <2>1. pc[s] = "end" /\ pc'[s] = "idle"
    BY <1>1, <1>6 DEF EndScan, ScanAt
  <2>2. StepsLeft(s) = 1
    BY <2>1 DEF StepsLeft
  <2>3. StepsLeft(s)' = 0
    BY <2>1 DEF StepsLeft
  <2> QED BY <2>2, <2>3
<1> QED BY <1>3, <1>4, <1>5, <1>6 DEF ScanStep

\* Nobody else moves a scan's thread, or begins its scan again.
LEMMA OthersLeaveScan ==
  ASSUME DialogInv, [Next]_vars, NEW s \in Scans, pc[s] # "idle", ~ScanStep(s)
  PROVE  pc'[s] = pc[s] /\ addr'[s] = addr[s]
<1>1. ASSUME NEW t \in Scans, ScanStep(t) PROVE pc'[s] = pc[s] /\ addr'[s] = addr[s]
  <2>1. t # s
    BY <1>1
  <2> QED BY <1>1, <2>1, ScanAtInv
<1>2. CASE BeginScan
  <2>1. s # scans + 1 /\ pc \in [Scans -> {"idle", "test", "query", "found", "end"}]
        /\ addr \in [Scans -> 1..LastAddr + 1]
    BY DEF DialogInv, Numbering, TypeOK
  <2> QED BY <1>2, <2>1 DEF BeginScan
<1>3. CASE \/ OnScopeConnect \/ ConnectThread \/ OnConnectDone \/ OnScopeDisconnect \/ EditBoard
           \/ Select \/ PressStop \/ OnBtnConnect \/ OnCancel \/ HandleMessage \/ UNCHANGED vars
  BY <1>3 DEF OnScopeConnect, ConnectThread, OnConnectDone, OnScopeDisconnect, EditBoard, Select,
              PressStop, OnBtnConnect, OnCancel, StopScan, HandleMessage, HandleDeviceFound,
              HandleScanDone, vars, scanVars
<1> QED BY <1>1, <1>2, <1>3 DEF Next, User

ScansAreShort ==
  [][\A s \in Scans : /\ ScanStep(s) => StepsLeft(s)' < StepsLeft(s)
                      /\ pc[s] # "idle" /\ ~ScanStep(s) => StepsLeft(s)' = StepsLeft(s)]_vars

\* The safety half of ThreadsEnd, for every number of addresses: a scan's thread has
\* a bounded number of steps before it, also when its dialog and with it the stop flag
\* it reads are gone, and only its own steps count (App/ConnectDialog.cpp,
\* Gpib/GpibController.cpp).
THEOREM ScansAreBounded == Spec => [](\A s \in Scans : StepsLeft(s) \in Nat) /\ ScansAreShort
<1> DEFINE A(s) == /\ ScanStep(s) => StepsLeft(s)' < StepsLeft(s)
                   /\ pc[s] # "idle" /\ ~ScanStep(s) => StepsLeft(s)' = StepsLeft(s)
<1>1. DialogInv => \A s \in Scans : StepsLeft(s) \in Nat
  BY StepsLeftNat
<1>2. DialogInv /\ [Next]_vars => [\A s \in Scans : A(s)]_vars
  <2> SUFFICES ASSUME DialogInv, [Next]_vars, NEW s \in Scans PROVE A(s)
    OBVIOUS
  <2>1. ScanStep(s) => StepsLeft(s)' < StepsLeft(s)
    BY ScanShortens
  <2>2. ASSUME pc[s] # "idle", ~ScanStep(s) PROVE StepsLeft(s)' = StepsLeft(s)
    <3>1. pc'[s] = pc[s] /\ addr'[s] = addr[s]
      BY <2>2, OthersLeaveScan
    <3> QED BY <3>1 DEF StepsLeft, DialogInv, TypeOK
  <2> QED BY <2>1, <2>2
<1> QED BY <1>1, <1>2, DialogInvariant, PTL DEF Spec, ScansAreShort

\* While the button says Stop and nobody pressed it, a thread of this dialog runs or
\* its last message is under way.
EndIsComing ==
  opened /\ scanning /\ hwnd => \/ \E s \in Scans : Live(s)
                                \/ \E i \in DOMAIN msgs : msgs[i].kind = "done"

LEMMA EndIsComingStep ==
  ASSUME DialogInv, EndIsComing, [Next]_vars
  PROVE  EndIsComing'
<1>1. CASE OnScopeConnect \/ PressStop \/ OnBtnConnect \/ OnCancel
  BY <1>1 DEF EndIsComing, OnScopeConnect, PressStop, OnBtnConnect, OnCancel, StopScan
<1>2. CASE ConnectThread \/ OnConnectDone \/ OnScopeDisconnect \/ Select \/ EditBoard
           \/ UNCHANGED vars
  BY <1>2 DEF EndIsComing, ConnectThread, OnConnectDone, OnScopeDisconnect, Select, EditBoard,
              dlgVars, flagVars, listVars, scanVars, vars, Live
<1>3. CASE BeginScan
  <2>1. scans + 1 \in Scans /\ pc \in [Scans -> {"idle", "test", "query", "found", "end"}]
        /\ owner \in [Scans -> 0..MaxDialogs]
    BY <1>3 DEF BeginScan, DialogInv, TypeOK, Scans
  <2>2. pc'[scans + 1] = "test" /\ owner'[scans + 1] = gen'
    BY <1>3, <2>1 DEF BeginScan
  <2> QED BY <2>1, <2>2 DEF EndIsComing, Live
<1>4. CASE HandleScanDone
  BY <1>4 DEF HandleScanDone, EndIsComing
<1>5. CASE HandleDeviceFound
  <2>1. /\ msgs \in Seq(Messages) /\ msgs # << >> /\ msgs' = Tail(msgs)
        /\ Head(msgs).kind = "found"
        /\ UNCHANGED <<opened, gen, scanning, hwnd, pc, owner>>
    BY <1>5 DEF HandleDeviceFound, DialogInv, TypeOK, dlgVars, flagVars, scanVars
  <2>2. /\ Head(msgs) = msgs[1] /\ Len(msgs) \in Nat \ {0} /\ DOMAIN msgs = 1..Len(msgs)
        /\ DOMAIN msgs' = 1..Len(msgs) - 1
        /\ \A i \in 1..Len(msgs) - 1 : msgs'[i] = msgs[i + 1]
    BY <2>1, TailFacts
  <2>3. ASSUME NEW i \in DOMAIN msgs, msgs[i].kind = "done"
        PROVE  i - 1 \in DOMAIN msgs' /\ msgs'[i - 1].kind = "done"
    <3>1. i # 1 /\ i \in 1..Len(msgs)
      BY <2>1, <2>2, <2>3
    <3>2. i - 1 \in 1..Len(msgs) - 1 /\ (i - 1) + 1 = i
      BY <2>2, <3>1
    <3> QED BY <2>2, <2>3, <3>2
  <2> QED BY <2>1, <2>3 DEF EndIsComing, Live
<1>6. ASSUME NEW s \in Scans, ScanStep(s) PROVE EndIsComing'
  <2> SUFFICES ASSUME opened', scanning', hwnd'
               PROVE  \/ \E t \in Scans : Live(t)'
                      \/ \E i \in DOMAIN msgs' : msgs'[i].kind = "done"
    BY DEF EndIsComing
  <2>1. /\ pc[s] # "idle" /\ UNCHANGED <<opened, gen, scanning, hwnd, owner>>
        /\ \A t \in Scans : t # s => pc'[t] = pc[t]
        /\ pc'[s] = "idle" => EndScan(s)
    BY <1>6, ScanAtInv DEF dlgVars, flagVars
  <2>2. msgs \in Seq(Messages) /\ Done(s) \in Messages
    BY DEF DialogInv, TypeOK, Done, Messages
  <2>3. ASSUME NEW i \in DOMAIN msgs, msgs[i].kind = "done"
        PROVE  i \in DOMAIN msgs' /\ msgs'[i].kind = "done"
    <3>1. msgs' = msgs \/ \E m \in Messages : msgs' = Append(msgs, m)
      BY <1>6, ScanPosts
    <3> QED BY <2>2, <2>3, <3>1, AppendFacts
  <2>4. CASE Live(s)
    <3>1. CASE pc'[s] # "idle"
      BY <2>1, <2>4, <3>1 DEF Live
    <3>2. CASE pc'[s] = "idle"
      <4>1. msgs' = Append(msgs, Done(s))
        BY <2>1, <2>4, <3>2 DEF EndScan, Post, OwnDialog, Live
      <4>2. Len(msgs) + 1 \in DOMAIN msgs' /\ msgs'[Len(msgs) + 1] = Done(s)
        BY <2>2, <4>1, AppendFacts
      <4> QED BY <4>2 DEF Done
    <3> QED BY <3>1, <3>2
  <2>5. ASSUME NEW t \in Scans, Live(t), t # s PROVE Live(t)'
    BY <2>1, <2>5 DEF Live
  <2> QED BY <2>1, <2>3, <2>4, <2>5 DEF EndIsComing
<1> QED BY <1>1, <1>2, <1>3, <1>4, <1>5, <1>6 DEF Next, User, HandleMessage

\* The safety half of ScanEnds: a scan nobody stops is never left without somebody
\* who will set the button and Cancel free again (App/ConnectDialog.cpp).
THEOREM ScanEndIsComing == Spec => []EndIsComing
<1>1. Init => EndIsComing
  BY DEF Init, EndIsComing
<1>2. DialogInv /\ EndIsComing /\ [Next]_vars => EndIsComing'
  BY EndIsComingStep
<1> QED BY <1>1, <1>2, DialogInvariant, PTL DEF Spec

=============================================================================
