-------------------------- MODULE TekScope_proofs --------------------------
(***************************************************************************)
(* Proofs about the preamble cache, for every set of channels and scales   *)
(* and any number of unread answers.  The invariant ties each copy the     *)
(* program holds, at each step of a fetch, to the instrument's settings,   *)
(* as long as nothing changed behind the program's back.                   *)
(***************************************************************************)
EXTENDS TekScope, SequenceTheorems, TLAPS

USE ScopeAssumption

-----------------------------------------------------------------------------
(* Types *)

LEMMA NowTypes == TypeOK => Now \in Preambles
BY DEF TypeOK, Now, Preambles

LEMMA AnswerTypes ==
  /\ Text \in Answers
  /\ \A p \in Preambles : PreambleAnswer(p) \in Answers /\ CurveAnswer(p) \in Answers
  /\ \A a \in Answers : a.kind \in {"preamble", "curve"} => a.of \in Preambles
<1>1. Text \in Answers
  BY DEF Answers
<1>2. ASSUME NEW p \in Preambles PROVE PreambleAnswer(p) \in Answers /\ CurveAnswer(p) \in Answers
  BY DEF Answers
<1>3. ASSUME NEW a \in Answers, a.kind \in {"preamble", "curve"} PROVE a.of \in Preambles
  <2>1. CASE a = Text
    BY <1>3, <2>1 DEF Text
  <2>2. CASE \E p \in Preambles : a = PreambleAnswer(p) \/ a = CurveAnswer(p)
    <3>1. PICK p \in Preambles : a = PreambleAnswer(p) \/ a = CurveAnswer(p)
      BY <2>2
    <3>2. a.of = p
      BY <3>1 DEF PreambleAnswer, CurveAnswer
    <3> QED BY <3>2
  <2> QED BY <2>1, <2>2 DEF Answers
<1> QED BY <1>1, <1>2, <1>3

LEMMA SeqTypes ==
  ASSUME NEW s \in Seq(Answers)
  PROVE  /\ \A a \in Answers : /\ Append(s, a) \in Seq(Answers)
                               /\ Head(Append(s, a)) \in Answers
                               /\ Tail(Append(s, a)) \in Seq(Answers)
         /\ s # << >> => Head(s) \in Answers /\ Tail(s) \in Seq(Answers)
         /\ << >> \in Seq(Answers)
<1>1. ASSUME NEW a \in Answers PROVE Append(s, a) \in Seq(Answers) /\ Append(s, a) # << >>
  BY AppendProperties
<1> QED BY <1>1, HeadTailProperties, EmptySeq

LEMMA UnreadTypes ==
  ASSUME TypeOK, NEW a \in Answers, Unread(a)
  PROVE  answers' \in Seq(Answers)
BY SeqTypes DEF TypeOK, Unread

LEMMA TextTypes ==
  ASSUME TypeOK, TextRead \/ TextFails
  PROVE  answers' \in Seq(Answers)
BY SeqTypes, UnreadTypes, AnswerTypes DEF TypeOK, TextRead, TextFails
LEMMA SelectTypes ==
  ASSUME TypeOK, NEW c \in Channels, SelectChannel(c)
  PROVE  /\ source' \in Channels /\ channel' \in Channels
         /\ valid' \in BOOLEAN /\ doubt' \subseteq Doubts
<1>1. source' \in Channels /\ channel' \in Channels
  BY DEF SelectChannel, TypeOK
<1>2. valid' \in BOOLEAN
  BY DEF SelectChannel, TypeOK
<1>3. doubt' \subseteq Doubts
  BY DEF SelectChannel, TypeOK, Doubts
<1> QED BY <1>1, <1>2, <1>3

LEMMA ArmTypes ==
  ASSUME TypeOK, NEW mode \in {"runstop", "sequence"}, ArmWith(mode)
  PROVE  running' \in BOOLEAN /\ stopAfter' \in {"runstop", "sequence"}
BY DEF ArmWith, TypeOK, stateVars

LEMMA CommandTypes ==
  ASSUME TypeOK, Command
  PROVE  TypeOK'
<1> USE DEF settingVars, stateVars, scopeVars
<1>1. ASSUME NEW c \in Channels, SetChannel(c) PROVE TypeOK'
  <2>1. /\ source' \in Channels /\ channel' \in Channels
        /\ valid' \in BOOLEAN /\ doubt' \subseteq Doubts
    BY <1>1, SelectTypes DEF SetChannel
  <2> QED BY <1>1, <2>1 DEF SetChannel, TypeOK
<1>2. ASSUME SetHorizontalScale PROVE TypeOK'
  <2>1. answers' \in Seq(Answers) /\ hscale' \in Scales
    BY <1>2, TextTypes DEF SetHorizontalScale, TypeOK
  <2>2. valid' \in BOOLEAN
    BY <1>2 DEF SetHorizontalScale, WriteReported, WriteHalf, TypeOK
  <2>3. doubt' \subseteq Doubts
    BY <1>2 DEF SetHorizontalScale, WriteReported, WriteHalf, TypeOK, Doubts
  <2> QED BY <1>2, <2>1, <2>2, <2>3 DEF SetHorizontalScale, TypeOK
<1>3. ASSUME SetChannelScale PROVE TypeOK'
  <2>1. answers' \in Seq(Answers) /\ vscale' \in [Channels -> Scales]
    BY <1>3, TextTypes DEF SetChannelScale, TypeOK
  <2>2. valid' \in BOOLEAN
    BY <1>3 DEF SetChannelScale, WriteReported, WriteHalf, TypeOK
  <2>3. doubt' \subseteq Doubts
    BY <1>3 DEF SetChannelScale, WriteReported, WriteHalf, TypeOK, Doubts
  <2> QED BY <1>3, <2>1, <2>2, <2>3 DEF SetChannelScale, TypeOK
<1>4. ASSUME AdjustTriggerLevel PROVE TypeOK'
  <2>1. answers' \in Seq(Answers)
    BY <1>4, TextTypes DEF AdjustTriggerLevel
  <2> QED BY <1>4, <2>1 DEF AdjustTriggerLevel, TypeOK
<1>5. ASSUME StartContinuous \/ AcquireSingle PROVE TypeOK'
  <2>1. running' \in BOOLEAN /\ stopAfter' \in {"runstop", "sequence"}
    BY <1>5, ArmTypes DEF StartContinuous, AcquireSingle
  <2> QED BY <1>5, <2>1 DEF StartContinuous, AcquireSingle, TypeOK
<1>6. ASSUME Stop PROVE TypeOK'
  BY <1>6 DEF Stop, TypeOK
<1> QED BY <1>1, <1>2, <1>3, <1>4, <1>5, <1>6 DEF Command

LEMMA FetchTypes ==
  ASSUME TypeOK, Fetch
  PROVE  TypeOK'
<1> USE DEF settingVars, stateVars, scopeVars
<1>0. Now \in Preambles
  BY NowTypes
<1>1. ASSUME FetchBegins PROVE TypeOK'
  BY <1>1 DEF FetchBegins, TypeOK
<1>2. ASSUME RefreshStops PROVE TypeOK'
  <2>1. running' \in BOOLEAN
    BY <1>2 DEF RefreshStops, TypeOK
  <2> QED BY <1>2, <2>1 DEF RefreshStops, TypeOK
<1>3. ASSUME RefreshAsks PROVE TypeOK'
  <2>1. PreambleAnswer(Now) \in Answers
    BY <1>0, AnswerTypes
  <2>2. answers' \in Seq(Answers) /\ got' \in Answers \cup {NoAnswer}
    BY <1>3, <2>1, SeqTypes, UnreadTypes DEF RefreshAsks, TypeOK
  <2>3. doubt' \subseteq Doubts
    BY <1>3 DEF RefreshAsks, TypeOK, Doubts
  <2> QED BY <1>3, <2>2, <2>3 DEF RefreshAsks, TypeOK
<1>4. ASSUME RefreshRestarts PROVE TypeOK'
  <2>1. running' \in BOOLEAN
    BY <1>4 DEF RefreshRestarts, TypeOK
  <2> QED BY <1>4, <2>1 DEF RefreshRestarts, TypeOK
<1>5. ASSUME RefreshParses PROVE TypeOK'
  <2>1. got.kind = "preamble" => got.of \in Preambles
    BY AnswerTypes DEF TypeOK, NoAnswer
  <2>2. cache' \in Preambles \cup {NoPreamble}
    BY <1>5, <2>1 DEF RefreshParses, TypeOK
  <2>3. valid' \in BOOLEAN
    BY <1>5 DEF RefreshParses, TypeOK
  <2> QED BY <1>5, <2>2, <2>3 DEF RefreshParses, TypeOK
<1>6. ASSUME CurveAsks PROVE TypeOK'
  <2>1. CurveAnswer(Now) \in Answers
    BY <1>0, AnswerTypes
  <2>2. answers' \in Seq(Answers)
    BY <1>6, <2>1, SeqTypes, UnreadTypes DEF CurveAsks, TypeOK
  <2> QED BY <1>6, <2>2 DEF CurveAsks, TypeOK
<1>7. ASSUME CurveReads \/ CurveFails PROVE TypeOK'
  <2>1. answers' \in Seq(Answers)
    BY <1>7, SeqTypes DEF CurveReads, CurveFails, TypeOK
  <2> QED BY <1>7, <2>1 DEF CurveReads, CurveFails, TypeOK
<1> QED BY <1>1, <1>2, <1>3, <1>4, <1>5, <1>6, <1>7 DEF Fetch

LEMMA LinkTypes ==
  ASSUME TypeOK, Link
  PROVE  TypeOK'
<1> USE DEF settingVars, stateVars, scopeVars
<1>1. ASSUME Disconnect \/ Reconnect PROVE TypeOK'
  <2>1. open' \in BOOLEAN
    BY <1>1 DEF Disconnect, Reconnect
  <2> QED BY <1>1, <2>1 DEF Disconnect, Reconnect, TypeOK
<1>2. ASSUME Connect \/ ReconnectOpens PROVE TypeOK'
  <2>1. open' \in BOOLEAN
    BY <1>2 DEF Connect, ReconnectOpens, Opens
  <2>2. answers' \in Seq(Answers)
    BY <1>2, SeqTypes DEF Connect, ReconnectOpens, Opens, TypeOK
  <2> QED BY <1>2, <2>1, <2>2 DEF Connect, ReconnectOpens, Opens, TypeOK
<1>3. ASSUME ConnectIdentifies \/ ReconnectIdentifies PROVE TypeOK'
  <2>1. answers' \in Seq(Answers)
    BY <1>3, TextTypes DEF ConnectIdentifies, ReconnectIdentifies, Identifies, TypeOK
  <2> QED BY <1>3, <2>1 DEF ConnectIdentifies, ReconnectIdentifies, Identifies, TypeOK
<1>4. ASSUME SyncSettings PROVE TypeOK'
  <2>1. PICK n \in 0 .. 2 : answers' = answers \o [i \in 1 .. n |-> Text]
    BY <1>4 DEF SyncSettings
  <2>2. [i \in 1 .. n |-> Text] \in Seq(Answers)
    BY <2>1, AnswerTypes
  <2>3. answers' \in Seq(Answers)
    BY <2>1, <2>2, ConcatProperties DEF TypeOK
  <2>4. valid' \in BOOLEAN
    BY <1>4 DEF SyncSettings
  <2> QED BY <1>4, <2>3, <2>4 DEF SyncSettings, TypeOK
<1>5. ASSUME ReconnectResumes PROVE TypeOK'
  <2>1. running' \in BOOLEAN /\ stopAfter' \in {"runstop", "sequence"}
    BY <1>5, ArmTypes DEF ReconnectResumes
  <2> QED BY <1>5, <2>1 DEF ReconnectResumes, TypeOK
<1>6. ASSUME ReconnectSelects PROVE TypeOK'
  <2>1. /\ source' \in Channels /\ channel' \in Channels
        /\ valid' \in BOOLEAN /\ doubt' \subseteq Doubts
    BY <1>6, SelectTypes DEF ReconnectSelects
  <2> QED BY <1>6, <2>1 DEF ReconnectSelects, TypeOK
<1> QED BY <1>1, <1>2, <1>3, <1>4, <1>5, <1>6 DEF Link

LEMMA InstrumentTypes ==
  ASSUME TypeOK, TurnKnob \/ PowerCycle \/ SequenceEnds
  PROVE  TypeOK'
<1> USE DEF settingVars, stateVars, scopeVars
<1>1. CASE TurnKnob
  BY <1>1 DEF TurnKnob, TypeOK, Doubts
<1>2. CASE PowerCycle
  <2>1. running' \in BOOLEAN
    BY <1>2 DEF PowerCycle
  <2>2. answers' \in Seq(Answers)
    BY <1>2, EmptySeq DEF PowerCycle
  <2> QED BY <1>2, <2>1, <2>2 DEF PowerCycle, TypeOK, Doubts
<1>3. CASE SequenceEnds
  BY <1>3 DEF SequenceEnds, TypeOK
<1> QED BY <1>1, <1>2, <1>3

LEMMA TypeInit == Init => TypeOK
<1> SUFFICES ASSUME Init PROVE TypeOK
  OBVIOUS
<1>1. answers \in Seq(Answers)
  BY EmptySeq DEF Init
<1>2. open \in BOOLEAN /\ valid \in BOOLEAN
  BY DEF Init
<1> QED BY <1>1, <1>2 DEF Init, TypeOK, Doubts

LEMMA TypeStep == TypeOK /\ [Next]_vars => TypeOK'
<1>1. TypeOK /\ UNCHANGED vars => TypeOK'
  BY DEF TypeOK, vars
<1> QED BY <1>1, CommandTypes, FetchTypes, LinkTypes, InstrumentTypes DEF Next

\* Every variable of the oscilloscope's model keeps its type.
THEOREM TypeCorrect == Spec => []TypeOK
BY TypeInit, TypeStep, PTL DEF Spec
-----------------------------------------------------------------------------
(* The copies follow the instrument *)

\* While a preamble is being refreshed no cached one counts.
Refreshing ==
  /\ pc \in {"refresh", "query", "rearm", "parse"} => ~valid
  /\ pc \in {"curve", "read"} => valid

\* What is cached, or just read, describes the settings in force.
ScaleKnown ==
  ScaleCertain =>
    /\ valid => cache = Now
    /\ pc \in {"rearm", "parse"} /\ got # NoAnswer => got = PreambleAnswer(Now)
    /\ Delivers => Head(answers) = CurveAnswer(Now)

\* m_channel is DATA:SOURCE, and the source of the curve about to be read.
SourceKnown ==
  "source" \notin doubt =>
    /\ channel = source
    /\ Delivers => Head(answers).of.src = source

CacheInv == Refreshing /\ ScaleKnown /\ SourceKnown

\* Steps that leave the settings, the copies and the fetch alone keep it all,
\* whatever they do to the instrument's state and unread answers.
LEMMA QuietStep ==
  ASSUME CacheInv,
         source' = source, hscale' = hscale, vscale' = vscale,
         channel' = channel, cache' = cache, valid' = valid, doubt' = doubt,
         pc' \notin {"refresh", "query", "rearm", "parse", "curve", "read"}
  PROVE  CacheInv'
BY DEF CacheInv, Refreshing, ScaleKnown, ScaleCertain, SourceKnown, Delivers, Now

\* A command that writes a setting invalidates the cache or leaves a doubt.
LEMMA SelectKeeps ==
  ASSUME CacheInv, TypeOK, NEW c \in Channels, SelectChannel(c),
         hscale' = hscale, vscale' = vscale, cache' = cache, pc' = "idle"
  PROVE  CacheInv'
<1>1. CASE source' = c /\ channel' = c /\ valid' = FALSE /\ doubt' = doubt \ {"source"}
  BY <1>1 DEF CacheInv, Refreshing, ScaleKnown, ScaleCertain, SourceKnown, Delivers
<1>2. CASE source' = c /\ doubt' = doubt \cup {"scale", "source"} /\ UNCHANGED <<channel, valid>>
  BY <1>2 DEF CacheInv, Refreshing, ScaleKnown, ScaleCertain, SourceKnown, Delivers, Doubts
<1>3. CASE UNCHANGED <<source, channel, valid, doubt>>
  BY <1>3, QuietStep
<1> QED BY <1>1, <1>2, <1>3 DEF SelectChannel

LEMMA CommandKeeps ==
  ASSUME CacheInv, TypeOK, Command
  PROVE  CacheInv'
<1> USE DEF settingVars, stateVars, scopeVars
<1>1. ASSUME NEW c \in Channels, SetChannel(c) PROVE CacheInv'
  BY <1>1, SelectKeeps DEF SetChannel, Idle
<1>2. ASSUME SetHorizontalScale \/ SetChannelScale PROVE CacheInv'
  <2>1. pc' = "idle" /\ source' = source /\ channel' = channel /\ cache' = cache
    BY <1>2 DEF SetHorizontalScale, SetChannelScale, Idle
  <2>2. CASE WriteReported
    BY <2>1, <2>2 DEF WriteReported, CacheInv, Refreshing, ScaleKnown, ScaleCertain,
                      SourceKnown, Delivers
  <2>3. CASE WriteHalf
    BY <2>1, <2>3 DEF WriteHalf, CacheInv, Refreshing, ScaleKnown, ScaleCertain, SourceKnown,
                      Delivers
  <2>4. CASE UNCHANGED <<hscale, vscale, valid, doubt>>
    BY <2>1, <2>4, QuietStep
  <2> QED BY <1>2, <2>2, <2>3, <2>4 DEF SetHorizontalScale, SetChannelScale
<1>3. ASSUME AdjustTriggerLevel \/ StartContinuous \/ AcquireSingle \/ Stop PROVE CacheInv'
  BY <1>3, QuietStep DEF AdjustTriggerLevel, StartContinuous, AcquireSingle, Stop, Idle
<1> QED BY <1>1, <1>2, <1>3 DEF Command

LEMMA AppendFirst ==
  ASSUME NEW s \in Seq(Answers), NEW a \in Answers
  PROVE  /\ s = << >> => Head(Append(s, a)) = a
         /\ Len(Append(s, a)) = 1 => Head(Append(s, a)) = a
BY AppendProperties, EmptySeq

LEMMA FetchKeeps ==
  ASSUME CacheInv, TypeOK, Fetch
  PROVE  CacheInv'
<1> USE DEF settingVars, stateVars, scopeVars
<1>0. PreambleAnswer(Now) \in Answers /\ CurveAnswer(Now) \in Answers
  BY NowTypes, AnswerTypes
<1>1. ASSUME FetchBegins PROVE CacheInv'
  BY <1>1 DEF FetchBegins, Idle, CacheInv, Refreshing, ScaleKnown, ScaleCertain, SourceKnown,
              Delivers, Now
<1>2. ASSUME RefreshStops PROVE CacheInv'
  BY <1>2 DEF RefreshStops, CacheInv, Refreshing, ScaleKnown, ScaleCertain, SourceKnown,
              Delivers, Now
<1>3. ASSUME RefreshAsks PROVE CacheInv'
  <2>1. ~valid /\ ~valid' /\ pc' = "rearm" /\ Now' = Now /\ channel' = channel /\ source' = source
    BY <1>3 DEF RefreshAsks, CacheInv, Refreshing, Now
  <2>2. CASE got' = NoAnswer /\ UNCHANGED doubt
    BY <2>1, <2>2 DEF CacheInv, Refreshing, ScaleKnown, ScaleCertain, SourceKnown, Delivers
  <2>3. CASE /\ got' = Head(Append(answers, PreambleAnswer(Now)))
             /\ answers = << >> /\ doubt' = doubt \ {"scale", "old"}
    <3>1. got' = PreambleAnswer(Now)'
      BY <1>0, <2>1, <2>3, AppendFirst DEF TypeOK, PreambleAnswer
    <3> QED BY <2>1, <2>3, <3>1 DEF CacheInv, Refreshing, ScaleKnown, ScaleCertain,
                                    SourceKnown, Delivers
  <2>4. CASE doubt' = doubt \cup {"old"}
    BY <2>1, <2>4 DEF CacheInv, Refreshing, ScaleKnown, ScaleCertain, SourceKnown, Delivers
  <2> QED BY <1>3, <2>2, <2>3, <2>4 DEF RefreshAsks
<1>4. ASSUME RefreshRestarts PROVE CacheInv'
  BY <1>4 DEF RefreshRestarts, CacheInv, Refreshing, ScaleKnown, ScaleCertain, SourceKnown,
              Delivers, Now,
              PreambleAnswer
<1>5. ASSUME RefreshParses PROVE CacheInv'
  <2>1. Now' = Now /\ UNCHANGED <<source, channel, doubt>> /\ pc' \in {"curve", "idle"}
    BY <1>5 DEF RefreshParses, Now
  <2>2. CASE got.kind = "preamble" /\ cache' = got.of /\ valid' = TRUE /\ pc' = "curve"
    <3>1. ScaleCertain => cache' = Now
      BY <1>5, <2>2 DEF RefreshParses, CacheInv, ScaleKnown, ScaleCertain, PreambleAnswer,
                        NoAnswer
    <3> QED BY <2>1, <2>2, <3>1 DEF CacheInv, Refreshing, ScaleKnown, ScaleCertain,
                                    SourceKnown, Delivers
  <2>3. CASE got.kind = "text" /\ valid' = TRUE /\ pc' = "curve"
    \* Text is no answer to WFMPRE?: an old answer was read, which left a doubt.
    <3>1. ~ScaleCertain
      BY <1>5, <2>3 DEF RefreshParses, CacheInv, ScaleKnown, ScaleCertain, PreambleAnswer,
                        NoAnswer
    <3> QED BY <2>1, <2>3, <3>1 DEF CacheInv, Refreshing, ScaleKnown, ScaleCertain,
                                    SourceKnown, Delivers
  <2>4. CASE pc' = "idle" /\ UNCHANGED <<cache, valid>>
    BY <1>5, <2>4, QuietStep DEF RefreshParses
  <2> QED BY <1>5, <2>2, <2>3, <2>4 DEF RefreshParses
<1>6. ASSUME CurveAsks PROVE CacheInv'
  <2>1. Now' = Now /\ UNCHANGED <<source, channel, cache, valid, doubt>>
    BY <1>6 DEF CurveAsks, Now
  <2>2. CASE answers' = Append(answers, CurveAnswer(Now)) /\ pc' = "read"
    <3>1. Delivers' => Head(answers') = CurveAnswer(Now)
      BY <1>0, <2>2, AppendFirst DEF Delivers, TypeOK
    <3>2. CurveAnswer(Now)' = CurveAnswer(Now) /\ CurveAnswer(Now).of.src = source
      BY <2>1 DEF CurveAnswer, Now
    <3>3. valid
      BY <1>6 DEF CurveAsks, CacheInv, Refreshing
    <3> QED BY <2>1, <2>2, <3>1, <3>2, <3>3 DEF CacheInv, Refreshing, ScaleKnown,
                                                ScaleCertain, SourceKnown
  <2>3. CASE pc' = "idle"
    BY <1>6, <2>3, QuietStep DEF CurveAsks
  <2> QED BY <1>6, <2>2, <2>3 DEF CurveAsks
<1>7. ASSUME CurveReads \/ CurveFails PROVE CacheInv'
  BY <1>7, QuietStep DEF CurveReads, CurveFails
<1> QED BY <1>1, <1>2, <1>3, <1>4, <1>5, <1>6, <1>7 DEF Fetch

LEMMA LinkKeeps ==
  ASSUME CacheInv, TypeOK, Link
  PROVE  CacheInv'
<1> USE DEF settingVars, stateVars, scopeVars
<1>1. ASSUME \/ Disconnect \/ Connect \/ ConnectIdentifies \/ Reconnect \/ ReconnectOpens
             \/ ReconnectIdentifies \/ ReconnectResumes
      PROVE  CacheInv'
  BY <1>1, QuietStep DEF Disconnect, Connect, ConnectIdentifies, Reconnect, ReconnectOpens,
                         ReconnectIdentifies, ReconnectResumes, Opens, Identifies, Idle
<1>2. ASSUME SyncSettings PROVE CacheInv'
  BY <1>2 DEF SyncSettings, CacheInv, Refreshing, ScaleKnown, ScaleCertain, SourceKnown,
              Delivers
<1>3. ASSUME ReconnectSelects PROVE CacheInv'
  BY <1>3, SelectKeeps DEF ReconnectSelects
<1> QED BY <1>1, <1>2, <1>3 DEF Link

LEMMA InstrumentKeeps ==
  ASSUME CacheInv, TypeOK, TurnKnob \/ PowerCycle \/ SequenceEnds
  PROVE  CacheInv'
<1> USE DEF settingVars, stateVars, scopeVars
<1>1. CASE TurnKnob
  BY <1>1 DEF TurnKnob, CacheInv, Refreshing, ScaleKnown, ScaleCertain, SourceKnown, Delivers
<1>2. CASE PowerCycle
  BY <1>2 DEF PowerCycle, CacheInv, Refreshing, ScaleKnown, ScaleCertain, SourceKnown, Doubts
<1>3. CASE SequenceEnds
  BY <1>3 DEF SequenceEnds, CacheInv, Refreshing, ScaleKnown, ScaleCertain, SourceKnown,
              Delivers, Now,
              PreambleAnswer, CurveAnswer
<1> QED BY <1>1, <1>2, <1>3

LEMMA CacheStep == CacheInv /\ TypeOK /\ [Next]_vars => CacheInv'
<1>1. CacheInv /\ UNCHANGED vars => CacheInv'
  BY DEF CacheInv, Refreshing, ScaleKnown, ScaleCertain, SourceKnown, Delivers, Now,
         PreambleAnswer,
         CurveAnswer, vars
<1> QED BY <1>1, CommandKeeps, FetchKeeps, LinkKeeps, InstrumentKeeps DEF Next

LEMMA CacheInvariant == Spec => []CacheInv
<1>1. Init => CacheInv
  BY DEF Init, CacheInv, Refreshing, ScaleKnown, ScaleCertain, SourceKnown, Delivers, Doubts
<1> QED BY <1>1, CacheStep, TypeCorrect, PTL DEF Spec

\* A returned waveform carries the preamble of the settings its curve was read
\* with, unless they changed without the program being told.
THEOREM ScaledRight == Spec => []FrameScaledRight
<1>1. CacheInv => FrameScaledRight
  <2> SUFFICES ASSUME CacheInv, Delivers, ScaleCertain PROVE cache = Head(answers).of
    BY DEF FrameScaledRight
  <2>1. cache = Now /\ Head(answers) = CurveAnswer(Now)
    BY DEF CacheInv, Refreshing, ScaleKnown, ScaleCertain, Delivers
  <2> QED BY <2>1 DEF CurveAnswer
<1> QED BY <1>1, CacheInvariant, PTL

\* A returned waveform is labelled with the channel its curve is from, unless the
\* source changed without the program being told.
THEOREM LabelledRight == Spec => []FrameLabelled
<1>1. CacheInv => FrameLabelled
  BY DEF CacheInv, SourceKnown, FrameLabelled
<1> QED BY <1>1, CacheInvariant, PTL
=============================================================================
