------------------------------ MODULE TekScope ------------------------------
(***************************************************************************)
(* TektronixScope and the instrument behind it: the settings the           *)
(* instrument has, the copies the program keeps of them (m_channel and the *)
(* preamble cache), and the GPIB transactions that should keep both equal. *)
(*                                                                         *)
(* One thread uses the bus here; AcquisitionThread says when that is so.   *)
(* A write may be lost, or taken by the instrument and yet reported as     *)
(* failed ("half").  The read of a query may fail with the answer gone or  *)
(* left in the instrument, where the next read finds it.  Somebody may     *)
(* turn the instrument's knobs or its power.                               *)
(***************************************************************************)
EXTENDS Naturals, Sequences

CONSTANTS Channels,
          FirstChannel,  \* CH1, which a reset instrument and a reconnect select
          Scales,        \* time or volts per division
          FirstScale,    \* the scale of a reset instrument
          MaxUnread      \* bound: failed queries leave no more unread answers than this

ASSUME ScopeAssumption ==
  FirstChannel \in Channels /\ FirstScale \in Scales /\ MaxUnread \in Nat

VARIABLES
  source,     \* instrument: DATA:SOURCE
  hscale,     \* instrument: time per division
  vscale,     \* instrument: volts per division of each channel
  running,    \* instrument: ACQUIRE:STATE
  stopAfter,  \* instrument: ACQUIRE:STOPAFTER
  answers,    \* instrument: answers not yet read, oldest first
  open,       \* IsConnected()
  channel,    \* m_channel
  cache,      \* m_preambleCache
  valid,      \* m_preambleValid
  pc,         \* where the bus user stands
  got,        \* FetchWaveform's preambleStr
  doubt       \* history: what changed without the program being told, or that an
              \* old answer was taken for the preamble

settingVars == <<source, hscale, vscale>>
stateVars == <<running, stopAfter>>
scopeVars == <<open, channel, cache, valid>>
vars == <<source, hscale, vscale, running, stopAfter, answers, open, channel,
          cache, valid, pc, got, doubt>>

Preambles == [src : Channels, h : Scales, v : Scales]
NoPreamble == [src |-> "none"]
Doubts == {"scale", "source", "old"}

\* Text stands for a number or an identification
Text == [kind |-> "text"]
NoAnswer == [kind |-> "none"]
PreambleAnswer(p) == [kind |-> "preamble", of |-> p]
CurveAnswer(p) == [kind |-> "curve", of |-> p]
Answers == {Text} \cup {PreambleAnswer(p) : p \in Preambles}
                  \cup {CurveAnswer(p) : p \in Preambles}

\* What a curve read now is made of, and the preamble that describes it
Now == [src |-> source, h |-> hscale, v |-> vscale[source]]

Init ==
  /\ source \in Channels /\ hscale \in Scales /\ vscale \in [Channels -> Scales]
  /\ running \in BOOLEAN /\ stopAfter \in {"runstop", "sequence"}
  /\ answers = << >>
  /\ open = FALSE /\ channel = FirstChannel
  /\ cache = NoPreamble /\ valid = FALSE
  /\ pc = "idle" /\ got = NoAnswer /\ doubt = {"source"}

-----------------------------------------------------------------------------
(* Commands, one after the other *)

Idle == pc = "idle" /\ open

\* A query that fails: its answer is gone, or left unread
Unread(answer) ==
  \/ UNCHANGED answers
  \/ Len(answers) < MaxUnread /\ answers' = Append(answers, answer)

TextRead == answers' = Tail(Append(answers, Text))
TextFails == Unread(Text)

\* Mutated form of SetChannel: m_channel assigned whether or not the write went well
SetChannelAnyway(c) ==
  /\ Idle
  /\ channel' = c
  /\ \/ source' = c /\ valid' = FALSE /\ doubt' = doubt \ {"source"}
     \/ UNCHANGED <<source, valid, doubt>>
  /\ UNCHANGED <<hscale, vscale, stateVars, answers, open, cache, pc, got>>

SelectChannel(c) ==
  \/ /\ source' = c /\ channel' = c /\ valid' = FALSE
     /\ doubt' = doubt \ {"source"}
  \/ source' = c /\ doubt' = doubt \cup {"scale", "source"} /\ UNCHANGED <<channel, valid>>
  \/ UNCHANGED <<source, channel, valid, doubt>>

SetChannel(c) ==
  /\ Idle
  /\ SelectChannel(c)
  /\ UNCHANGED <<hscale, vscale, stateVars, answers, open, cache, pc, got>>

\* The scale commands query a scale and write a multiple of it
WriteReported == valid' = FALSE /\ UNCHANGED doubt
WriteHalf == doubt' = doubt \cup {"scale"} /\ UNCHANGED valid

\* Mutated form of SetHorizontalScale: the cache not invalidated
SetHorizontalScaleKeepsCache ==
  /\ Idle
  /\ TextRead
  /\ hscale' \in Scales
  /\ UNCHANGED <<source, vscale, stateVars, scopeVars, pc, got, doubt>>

SetHorizontalScale ==
  /\ Idle
  /\ \/ TextRead /\ hscale' \in Scales /\ (WriteReported \/ WriteHalf)
     \/ (TextRead \/ TextFails) /\ UNCHANGED <<hscale, valid, doubt>>
  /\ UNCHANGED <<source, vscale, stateVars, open, channel, cache, pc, got>>

\* For the channel the program believes to be selected
SetChannelScale ==
  /\ Idle
  /\ \/ /\ TextRead
        /\ \E s \in Scales : vscale' = [vscale EXCEPT ![channel] = s]
        /\ WriteReported \/ WriteHalf
     \/ (TextRead \/ TextFails) /\ UNCHANGED <<vscale, valid, doubt>>
  /\ UNCHANGED <<source, hscale, stateVars, open, channel, cache, pc, got>>

AdjustTriggerLevel ==
  /\ Idle
  /\ TextRead \/ TextFails
  /\ UNCHANGED <<settingVars, stateVars, scopeVars, pc, got, doubt>>

\* Two settings and ACQUIRE:STATE ON, given up at the first failure
ArmWith(mode) ==
  \/ UNCHANGED stateVars
  \/ stopAfter' = mode /\ running' \in {running, TRUE}

StartContinuous ==
  /\ Idle
  /\ ArmWith("runstop")
  /\ UNCHANGED <<settingVars, answers, scopeVars, pc, got, doubt>>

AcquireSingle ==
  /\ Idle
  /\ ArmWith("sequence")
  /\ UNCHANGED <<settingVars, answers, scopeVars, pc, got, doubt>>

Stop ==
  /\ Idle
  /\ running' = FALSE
  /\ UNCHANGED <<settingVars, stopAfter, answers, scopeVars, pc, got, doubt>>

-----------------------------------------------------------------------------
(* FetchWaveform *)

FetchBegins ==
  /\ Idle
  /\ pc' = IF valid THEN "curve" ELSE "refresh"
  /\ UNCHANGED <<settingVars, stateVars, answers, scopeVars, got, doubt>>

RefreshStops ==
  /\ pc = "refresh"
  /\ \/ running' = FALSE /\ pc' = "query"
     \/ running' \in {running, FALSE} /\ pc' = "idle"
  /\ UNCHANGED <<settingVars, stopAfter, answers, scopeVars, got, doubt>>

\* WFMPRE?: an answer left over from before is taken for this one
RefreshAsks ==
  /\ pc = "query"
  /\ LET asked == Append(answers, PreambleAnswer(Now))
     IN \/ /\ got' = Head(asked) /\ answers' = Tail(asked)
           /\ doubt' = IF answers = << >> THEN doubt \ {"scale", "old"} ELSE doubt \cup {"old"}
        \/ /\ got' = NoAnswer /\ Unread(PreambleAnswer(Now))
           /\ UNCHANGED doubt
  /\ pc' = "rearm"
  /\ UNCHANGED <<settingVars, stateVars, scopeVars>>

\* "Always re-arm regardless of query result"; the result of the write is ignored
RefreshRestarts ==
  /\ pc = "rearm"
  /\ running' \in {running, TRUE}
  /\ pc' = "parse"
  /\ UNCHANGED <<settingVars, stopAfter, answers, scopeVars, got, doubt>>

\* Mutated form of RefreshParses: the query's result not looked at
ParseUnchecked ==
  /\ pc = "parse"
  /\ cache' = got
  /\ valid' = TRUE
  /\ got' = NoAnswer
  /\ pc' = "curve"
  /\ UNCHANGED <<settingVars, stateVars, answers, open, channel, doubt>>

\* Parse keeps the fields an answer does not name, so that text may be taken for a
\* preamble, its scale kept, once one has been parsed (not if it begins with a sign,
\* as a curve does with '#')
RefreshParses ==
  /\ pc = "parse"
  /\ \/ /\ got.kind = "preamble"
        /\ cache' = got.of /\ valid' = TRUE /\ pc' = "curve"
     \/ /\ got.kind = "text" /\ cache # NoPreamble
        /\ valid' = TRUE /\ pc' = "curve" /\ UNCHANGED cache
     \/ /\ got.kind # "preamble"
        /\ pc' = "idle" /\ UNCHANGED <<cache, valid>>
  /\ got' = NoAnswer
  /\ UNCHANGED <<settingVars, stateVars, answers, open, channel, doubt>>

\* CURVE?
CurveAsks ==
  /\ pc = "curve"
  /\ \/ answers' = Append(answers, CurveAnswer(Now)) /\ pc' = "read"
     \/ Unread(CurveAnswer(Now)) /\ pc' = "idle"
  /\ UNCHANGED <<settingVars, stateVars, scopeVars, got, doubt>>

\* A binary block: FetchWaveform returns it with the preamble and m_channel
CurveReads ==
  /\ pc = "read" /\ answers # << >> /\ Head(answers).kind = "curve"
  /\ answers' = Tail(answers)
  /\ pc' = "idle"
  /\ UNCHANGED <<settingVars, stateVars, scopeVars, got, doubt>>

\* Nothing was read, or what was read is no binary block; a device clear follows
CurveFails ==
  /\ pc = "read"
  /\ \/ answers' = << >>
     \/ Len(answers) <= MaxUnread /\ UNCHANGED answers
     \/ answers # << >> /\ Head(answers).kind # "curve" /\ answers' = Tail(answers)
  /\ pc' = "idle"
  /\ UNCHANGED <<settingVars, stateVars, scopeVars, got, doubt>>

Fetch == \/ FetchBegins \/ RefreshStops \/ RefreshAsks \/ RefreshRestarts \/ RefreshParses
         \/ CurveAsks \/ CurveReads \/ CurveFails

-----------------------------------------------------------------------------
(* Connecting *)

Disconnect ==
  /\ Idle
  /\ open' = FALSE
  /\ UNCHANGED <<settingVars, stateVars, answers, channel, cache, valid, pc, got, doubt>>

\* Connect: the device clear and DrainInput empty the instrument
Opens(next) ==
  \/ open' = TRUE /\ answers' = << >> /\ pc' = next
  \/ open' = FALSE /\ pc' = "idle" /\ UNCHANGED answers

\* *IDN? and the data encoding; a failure leaves the device open
Identifies(next) ==
  /\ \/ pc' = next /\ UNCHANGED answers
     \/ pc' = "idle" /\ TextFails
  /\ UNCHANGED <<settingVars, stateVars, scopeVars, got, doubt>>

Connect ==
  /\ pc = "idle" /\ ~open
  /\ Opens("identify")
  /\ UNCHANGED <<settingVars, stateVars, channel, cache, valid, got, doubt>>

ConnectIdentifies == pc = "identify" /\ Identifies("sync")

\* SyncSettingsFromScope: two queries, either of which may stay unread, and the cache
\* invalidated in any case
SyncSettings ==
  /\ pc = "sync"
  /\ \E n \in 0 .. 2 : /\ Len(answers) + n <= MaxUnread
                      /\ answers' = answers \o [i \in 1 .. n |-> Text]
  /\ valid' = FALSE
  /\ pc' = "idle"
  /\ UNCHANGED <<settingVars, stateVars, open, channel, cache, got, doubt>>

\* AcquisitionThread::AttemptReconnect
Reconnect ==
  /\ Idle
  /\ open' = FALSE
  /\ pc' = "reopen"
  /\ UNCHANGED <<settingVars, stateVars, answers, channel, cache, valid, got, doubt>>

ReconnectOpens ==
  /\ pc = "reopen"
  /\ Opens("reidentify")
  /\ UNCHANGED <<settingVars, stateVars, channel, cache, valid, got, doubt>>

ReconnectIdentifies == pc = "reidentify" /\ Identifies("resume")

ReconnectResumes ==
  /\ pc = "resume"
  /\ ArmWith("runstop")
  /\ pc' = "reapply"
  /\ UNCHANGED <<settingVars, answers, scopeVars, got, doubt>>

\* The channel command posted by AttemptReconnect, drained before the next fetch
ReconnectSelects ==
  /\ pc = "reapply"
  /\ SelectChannel(FirstChannel)
  /\ pc' = "idle"
  /\ UNCHANGED <<hscale, vscale, stateVars, answers, open, cache, got>>

Link == \/ Disconnect \/ Connect \/ ConnectIdentifies \/ SyncSettings \/ Reconnect
        \/ ReconnectOpens \/ ReconnectIdentifies \/ ReconnectResumes \/ ReconnectSelects

-----------------------------------------------------------------------------
(* The instrument by itself *)

TurnKnob ==
  /\ hscale' \in Scales /\ vscale' \in [Channels -> Scales]
  /\ doubt' = doubt \cup {"scale"}
  /\ UNCHANGED <<source, stateVars, answers, scopeVars, pc, got>>

PowerCycle ==
  /\ source' = FirstChannel
  /\ hscale' = FirstScale /\ vscale' = [c \in Channels |-> FirstScale]
  /\ running' = TRUE /\ stopAfter' = "runstop"
  /\ answers' = << >>
  /\ doubt' = doubt \cup {"scale", "source"}
  /\ UNCHANGED <<scopeVars, pc, got>>

SequenceEnds ==
  /\ stopAfter = "sequence" /\ running
  /\ running' = FALSE
  /\ UNCHANGED <<settingVars, stopAfter, answers, scopeVars, pc, got, doubt>>

-----------------------------------------------------------------------------
Command == \/ \E c \in Channels : SetChannel(c)
           \/ SetHorizontalScale \/ SetChannelScale \/ AdjustTriggerLevel
           \/ StartContinuous \/ AcquireSingle \/ Stop

Next == Command \/ Fetch \/ Link \/ TurnKnob \/ PowerCycle \/ SequenceEnds

Spec == Init /\ [][Next]_vars

-----------------------------------------------------------------------------
(* Properties *)

\* Every variable keeps its type.
TypeOK ==
  /\ source \in Channels /\ hscale \in Scales /\ vscale \in [Channels -> Scales]
  /\ running \in BOOLEAN /\ stopAfter \in {"runstop", "sequence"}
  /\ answers \in Seq(Answers)
  /\ open \in BOOLEAN /\ channel \in Channels
  /\ cache \in Preambles \cup {NoPreamble} /\ valid \in BOOLEAN
  /\ pc \in {"idle", "refresh", "query", "rearm", "parse", "curve", "read", "identify",
             "sync", "reopen", "reidentify", "resume", "reapply"}
  /\ got \in Answers \cup {NoAnswer}
  /\ doubt \subseteq Doubts

\* FetchWaveform is about to return the curve it asked for
Delivers == pc = "read" /\ Len(answers) = 1 /\ Head(answers).kind = "curve"

ScaleCertain == "scale" \notin doubt /\ "old" \notin doubt

\* A waveform comes with the preamble of the settings its curve was read with,
\* whatever was lost, unless the settings changed without the program being told
\* or an old answer was read (FetchWaveform, the invalidations of m_preambleValid).
FrameScaledRight == Delivers /\ ScaleCertain => cache = Head(answers).of

\* A waveform is labelled with the channel its curve is from: m_channel follows
\* DATA:SOURCE through failed writes and reconnects (SetChannel, FetchWaveform).
FrameLabelled == Delivers /\ "source" \notin doubt => channel = Head(answers).of.src

\* The preamble refresh will "Always re-arm regardless of query result"
\* (TektronixScope.cpp:183): the instrument runs again after it.
RefreshRearms == pc = "parse" /\ stopAfter = "runstop" => running
=============================================================================
