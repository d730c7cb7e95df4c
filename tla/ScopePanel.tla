----------------------------- MODULE ScopePanel ------------------------------
(***************************************************************************)
(* What the screen shows of it: the view's timer, which empties the ring   *)
(* and paints, the panel's timer, which reads the cached scales, the rate  *)
(* limit with its field and its spinner, starting and stopping, and the    *)
(* connect thread.  Composed with the thread of WaveformData: the three    *)
(* threads share connected, valid, cachedSec and cachedVolt, the UI and    *)
(* the acquisition thread the ring.  An answer that the connect thread and *)
(* the acquisition thread take from each other counts as none; that they   *)
(* may use the bus at once is in AcquisitionThread.                        *)
(***************************************************************************)
EXTENDS WaveformData

CONSTANTS Steps,   \* kAcqRateSteps without the last one, unlimited
          Typed    \* numbers users type

ASSUME StepsAssumption ==
  /\ Steps \in Seq(Nat \ {0}) /\ Len(Steps) > 0 /\ Steps[1] = 1
  /\ \A i, j \in 1..Len(Steps) : i < j => Steps[i] < Steps[j]
  /\ \A i \in 1..Len(Steps) : (1000 \div Steps[i]) * Steps[i] = 1000
ASSUME TypedAssumption == Typed \subseteq Nat

VARIABLES
  connPc,     \* where the connect thread stands
  syncSec,    \* SyncSettingsFromScope's two numbers, None while there is none
  syncVolt,
  uiPc,       \* where the UI thread stands
  loadedSec,  \* UpdateControlPanel's local
  shown,      \* the scales in the panel, or None
  wave,       \* m_currentWave, which is painted, or None
  interval,   \* m_targetIntervalMs
  text,       \* number in the rate field
  focus,      \* the field has the focus
  untouched   \* history: the text was the rate when it got the focus, and nothing
              \* was typed since

NoSec == [nrPt |-> 0, xIncr |-> 0]

waveVars == <<shown, wave>>
rateVars == <<interval, text, focus, untouched>>
syncVars == <<connPc, syncSec, syncVolt>>
vars == <<dataVars, syncVars, uiPc, loadedSec, waveVars, rateVars>>

Scales == [sec : Secs, volt : Versions]

\* Render sets the transform from the waveform's scales at each paint, whatever
\* the wheel or a drag did to it.
Scale(w) == [sec |-> SecPerDiv(w.pre), volt |-> VoltsPerDiv(w.pre)]

TypeOK ==
  /\ DataTypeOK
  /\ connPc \in {"off", "identify", "channel", "load", "storeSec", "storeVolt", "forget"}
  /\ syncSec \in Secs \cup {None} /\ syncVolt \in Versions \cup {None}
  /\ uiPc \in {"idle", "loaded", "waiting"} /\ loadedSec \in Secs
  /\ shown \in Scales \cup {None} /\ wave \in Frames \cup {None}
  /\ interval \in 0..1000 /\ text \in Nat
  /\ focus \in BOOLEAN /\ untouched \in BOOLEAN

-----------------------------------------------------------------------------
(* The rate.                                                               *)

\* SetTargetRate
Interval(rate) == IF rate > 0 THEN 1000 \div rate ELSE 0

\* Mutated form of Rate: rounded up.
RateUp(ms) == IF ms > 0 THEN (999 + ms) \div ms ELSE 0

\* GetTargetRate
Rate(ms) == IF ms > 0 THEN 1000 \div ms ELSE 0

Above(cur) == {i \in 1..Len(Steps) : Steps[i] > cur \/ cur = 0}

\* Mutated form of Below: the step that is set already is one of them.
BelowOrAt(cur) == {i \in 1..Len(Steps) : Steps[i] <= cur}

Below(cur) == {i \in 1..Len(Steps) : Steps[i] < cur}

\* OnBtnAcqRateUp; unlimited is above every step, and its successor is the slowest.
Up(cur) == IF Above(cur) = {} THEN 0
           ELSE Steps[CHOOSE i \in Above(cur) : \A j \in Above(cur) : i <= j]

\* OnBtnAcqRateDn
Down(cur) == IF cur = 0 THEN Steps[Len(Steps)]
             ELSE IF Below(cur) = {} THEN Steps[1]
             ELSE Steps[CHOOSE i \in Below(cur) : \A j \in Below(cur) : i >= j]

\* OnAcqRateEditKillFocus, if the field had the focus.
Left == IF focus THEN Interval(text) ELSE interval

Init ==
  /\ DataInit
  /\ connPc = "off" /\ syncSec = None /\ syncVolt = None
  /\ uiPc = "idle" /\ loadedSec = NoSec
  /\ shown = None /\ wave = None
  /\ interval = 0 /\ text = 0 /\ focus = FALSE /\ untouched = FALSE

-----------------------------------------------------------------------------
(* The field and the spinner.                                              *)

EnterField ==
  /\ uiPc = "idle" /\ ~focus
  /\ focus' = TRUE /\ untouched' = (text = Rate(interval))
  /\ UNCHANGED <<dataVars, syncVars, uiPc, loadedSec, waveVars, interval, text>>

Type ==
  /\ uiPc = "idle" /\ focus
  /\ \E n \in Typed : text' = n
  /\ untouched' = FALSE
  /\ UNCHANGED <<dataVars, syncVars, uiPc, loadedSec, waveVars, interval, focus>>

FocusGoes == focus' = FALSE /\ untouched' = FALSE

\* Or Enter, which applies the text, moves the focus and so applies it again.
LeaveField ==
  /\ uiPc = "idle" /\ focus
  /\ interval' = Left /\ FocusGoes
  /\ UNCHANGED <<dataVars, syncVars, uiPc, loadedSec, waveVars, text>>

\* The click takes the focus first.
PressUp ==
  /\ uiPc = "idle"
  /\ interval' = Interval(Up(Rate(Left))) /\ FocusGoes
  /\ UNCHANGED <<dataVars, syncVars, uiPc, loadedSec, waveVars, text>>

PressDown ==
  /\ uiPc = "idle"
  /\ interval' = Interval(Down(Rate(Left))) /\ FocusGoes
  /\ UNCHANGED <<dataVars, syncVars, uiPc, loadedSec, waveVars, text>>

-----------------------------------------------------------------------------
(* The timers.                                                             *)

\* Mutated form of RenderTick: the oldest of the waiting waveforms is kept.
RenderTickOldest ==
  /\ uiPc = "idle"
  /\ wave' = (IF ring = <<>> THEN wave ELSE ring[1]) /\ ring' = <<>>
  /\ UNCHANGED <<instrumentVars, valid, pre, errno, acqPc, stopRequest, cachedSec,
                 cachedVolt, historyVars, syncVars, uiPc, loadedSec, shown,
                 rateVars>>

\* ConsumeRingBuffer keeps the newest.
RenderTick ==
  /\ uiPc = "idle"
  /\ wave' = (IF ring = <<>> THEN wave ELSE ring[Len(ring)]) /\ ring' = <<>>
  /\ UNCHANGED <<instrumentVars, valid, pre, errno, acqPc, stopRequest, cachedSec,
                 cachedVolt, historyVars, syncVars, uiPc, loadedSec, shown,
                 rateVars>>

\* UpdateControlPanel reads one scale and then the other.
PanelLoads ==
  /\ uiPc = "idle" /\ uiPc' = "loaded" /\ loadedSec' = cachedSec /\ fresh' = TRUE
  /\ UNCHANGED <<instrumentVars, valid, pre, errno, acqPc, stopRequest, cachedSec, cachedVolt,
                 ring, partial, longSeen, apart, syncVars, waveVars, rateVars>>

\* UpdateStats; the field's text follows the rate while it does not have the focus.
PanelShows ==
  /\ uiPc = "loaded" /\ uiPc' = "idle" /\ loadedSec' = NoSec
  /\ shown' = IF connected THEN [sec |-> loadedSec, volt |-> cachedVolt] ELSE None
  /\ text' = IF focus THEN text ELSE Rate(interval)
  /\ UNCHANGED <<dataVars, syncVars, wave, interval, focus, untouched>>

-----------------------------------------------------------------------------
(* Starting and stopping.  While the UI thread waits there are no timers.  *)

StartAcquisition ==
  /\ uiPc = "idle" /\ acqPc = "off" /\ connected
  /\ acqPc' = "top" /\ stopRequest' = FALSE
  /\ UNCHANGED <<instrumentVars, valid, pre, errno, cachedSec, cachedVolt, ring, historyVars,
                 syncVars, uiPc, loadedSec, waveVars, rateVars>>

StopAcquisition ==
  /\ uiPc = "idle" /\ acqPc # "off" /\ ~stopRequest
  /\ stopRequest' = TRUE /\ uiPc' = "waiting"
  /\ UNCHANGED <<instrumentVars, valid, pre, errno, acqPc, cachedSec, cachedVolt, ring,
                 historyVars, syncVars, loadedSec, waveVars, rateVars>>

StopReturns ==
  /\ uiPc = "waiting" /\ acqPc = "off" /\ uiPc' = "idle"
  /\ UNCHANGED <<dataVars, syncVars, loadedSec, waveVars, rateVars>>

\* Connect holds the mutex Disconnect waits for.
DisconnectScope ==
  /\ uiPc = "idle" /\ acqPc = "off" /\ connected /\ connPc # "identify"
  /\ connected' = FALSE
  /\ UNCHANGED <<settings, layout, valid, pre, errno, acqPc, stopRequest, cachedSec,
                 cachedVolt, ring, historyVars, syncVars, uiPc, loadedSec, waveVars, rateVars>>

-----------------------------------------------------------------------------
(* The connect thread.  From its first step on the scope counts as         *)
(* connected, and the user may start, stop and disconnect.                 *)

\* Connect opens a device, perhaps another instrument.  The preamble stays valid.
ConnectOpens ==
  /\ connPc = "off" /\ ~connected /\ settings < MaxSettings
  /\ connPc' = "identify"
  /\ connected' = TRUE /\ settings' = settings + 1 /\ layout' \in Layouts
  /\ partial' = TRUE
  /\ UNCHANGED <<valid, pre, errno, acqPc, stopRequest, cachedSec, cachedVolt, ring,
                 longSeen, apart, fresh, syncSec, syncVolt, uiPc, loadedSec, waveVars,
                 rateVars>>

\* The device stays open.
ConnectFails ==
  /\ connPc = "identify" /\ connPc' = "off"
  /\ UNCHANGED <<dataVars, syncSec, syncVolt, uiPc, loadedSec, waveVars, rateVars>>

\* The device answers while it is open, or does not.
Query(answer) == {None} \cup IF connected THEN {answer} ELSE {}

\* The instrument is identified, and SyncSettingsFromScope asks for one scale.
SyncHorizontal ==
  /\ connPc = "identify" /\ connPc' = "channel"
  /\ syncSec' \in Query([nrPt |-> settings, xIncr |-> settings])
  /\ UNCHANGED <<dataVars, syncVolt, uiPc, loadedSec, waveVars, rateVars>>

SyncChannel ==
  /\ connPc = "channel"
  /\ syncVolt' \in Query(settings)
  /\ connPc' = IF syncSec = None /\ syncVolt' = None THEN "forget" ELSE "load"
  /\ UNCHANGED <<dataVars, syncSec, uiPc, loadedSec, waveVars, rateVars>>

\* GetCachedDisplayParams, for the one that was not answered.
SyncLoads ==
  /\ connPc = "load" /\ connPc' = "storeSec"
  /\ syncSec' = (IF syncSec = None THEN cachedSec ELSE syncSec)
  /\ syncVolt' = (IF syncVolt = None THEN cachedVolt ELSE syncVolt)
  /\ UNCHANGED <<dataVars, uiPc, loadedSec, waveVars, rateVars>>

\* SetCachedDisplayParams.
SyncStoresSec ==
  /\ connPc = "storeSec" /\ connPc' = "storeVolt"
  /\ cachedSec' = syncSec
  /\ apart' = TRUE /\ fresh' = FALSE
  /\ UNCHANGED <<instrumentVars, valid, pre, errno, acqPc, stopRequest, cachedVolt, ring,
                 partial, longSeen, syncSec, syncVolt, uiPc, loadedSec, waveVars, rateVars>>

SyncStoresVolt ==
  /\ connPc = "storeVolt" /\ connPc' = "forget"
  /\ cachedVolt' = syncVolt
  /\ apart' = TRUE /\ fresh' = FALSE
  /\ UNCHANGED <<instrumentVars, valid, pre, errno, acqPc, stopRequest, cachedSec, ring,
                 partial, longSeen, syncSec, syncVolt, uiPc, loadedSec, waveVars, rateVars>>

\* InvalidatePreambleCache.
SyncForgets ==
  /\ connPc = "forget" /\ connPc' = "off"
  /\ valid' = FALSE
  /\ syncSec' = None /\ syncVolt' = None
  /\ UNCHANGED <<instrumentVars, pre, errno, acqPc, stopRequest, cachedSec, cachedVolt, ring,
                 historyVars, uiPc, loadedSec, waveVars, rateVars>>

ConnectThread ==
  \/ ConnectOpens \/ ConnectFails \/ SyncHorizontal \/ SyncChannel \/ SyncLoads
  \/ SyncStoresSec \/ SyncStoresVolt \/ SyncForgets

-----------------------------------------------------------------------------
AcquisitionThread == ThreadStep /\ UNCHANGED <<syncVars, uiPc, loadedSec, waveVars, rateVars>>

User == \/ EnterField \/ Type \/ LeaveField \/ PressUp \/ PressDown
        \/ StartAcquisition \/ StopAcquisition \/ DisconnectScope

Next == AcquisitionThread \/ ConnectThread \/ User \/ RenderTick \/ PanelLoads \/ PanelShows \/ StopReturns

Spec == Init /\ [][Next]_vars

-----------------------------------------------------------------------------
(* Properties.                                                             *)

\* A waveform on its way to the screen or on it has the scales the instrument
\* gave for it, whatever the preamble object went through, unless its own
\* history gives a reason (Waveform/WaveformPreamble.cpp:32).
ScalesOfItsOwn ==
  /\ \A i \in 1..Len(ring) : ring[i].doubt \/ Right(ring[i])
  /\ wave # None => wave.doubt \/ Right(wave)

\* When the thread is not between a curve and its delivery and both timers have
\* caught up, the panel's pair of scales is that of the picture, however the stores
\* of two threads, loads, ring and timers were interleaved.  The next waveform sets
\* right what a waveform refused by the ring, or a scale stored by the connect thread
\* meanwhile, has put apart (Scope/TektronixScope.cpp:226, App/TDS520AApp.cpp:188,
\* App/OscilloscopeView.cpp:117, App/MainFrm.cpp:171).
ScreenAgrees ==
  /\ uiPc = "idle" /\ fresh /\ shown # None
  /\ acqPc \in {"off", "top", "curve"} /\ ring = <<>> /\ ~apart
  => wave # None /\ shown = Scale(wave)

\* Going through the rate field without typing changes nothing: the two
\* roundings of SetTargetRate and GetTargetRate undo each other, and nobody else
\* changes the rate meanwhile, unless the text was still that of an earlier rate
\* (App/ScopeControlPanel.cpp:199, Threads/AcquisitionThread.h:86).
UntouchedHarmless == focus /\ untouched => Left = interval

\* The limits the spinner can set; those strictly between two limits.
Limits == {Interval(Steps[i]) : i \in 1..Len(Steps)}
Between(short, long) == {ms \in Limits : short < ms /\ ms < long}

\* What the spinner's buttons do to the limit.
SpinnerGoes ==
  /\ PressUp /\ Left # 0 =>
       /\ interval' \in Limits \cup {0} /\ interval' < Left
       /\ Between(interval', Left) = {}
  /\ PressDown /\ Left # 0 =>
       /\ interval' \in Limits /\ (interval' > Left \/ Left = Interval(Steps[1]))
       /\ Between(Left, interval') = {}
  /\ PressUp /\ Left = 0 => interval' = Interval(Steps[1])
  /\ PressDown /\ Left = 0 => interval' \in Limits /\ Between(0, interval') = {}

\* The spinner goes to the next step of the list, neither past one nor back to
\* where it stands, although it starts from a rate that two divisions may have
\* changed.  No limit counts as the fastest step, and the step up from it is the
\* slowest (App/ScopeControlPanel.cpp:210).
SpinnerSteps == [][SpinnerGoes]_vars
=============================================================================
