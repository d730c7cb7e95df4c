---------------------------- MODULE WaveformData -----------------------------
(***************************************************************************)
(* From the instrument's WFMPRE? and CURVE? answers to the ring of decoded *)
(* waveforms: WaveformPreamble::Parse, which fills the same object again   *)
(* and again, FetchWaveform's copies for the screen, Decode and Push, as   *)
(* the acquisition thread runs them (Waveform/, Threads/).                 *)
(*                                                                         *)
(* A number is abstracted to where it comes from: the settings in force    *)
(* when the instrument said it, numbered from 1, and 0 for the value the   *)
(* object is created with.  Commands that fail and settings changed        *)
(* without the program are in TekScope, the thread's life in               *)
(* AcquisitionThread.                                                      *)
(***************************************************************************)
EXTENDS Naturals, Sequences

CONSTANTS MaxSettings,   \* bound on the changes of settings
          Capacity,      \* waveforms the ring takes, 7 in the program
          Shortcomings,  \* what may be wrong with an answer: [missing, range]
          None

Fields == {"nrPt", "xIncr", "xZero", "yMult"}
Layouts == {15, 16}

ASSUME DataAssumption ==
  /\ MaxSettings \in Nat \ {0} /\ Capacity \in Nat \ {0}
  /\ Shortcomings \subseteq [missing : SUBSET Fields, range : SUBSET Fields]

VARIABLES
  settings,     \* the instrument's settings
  layout,       \* fields in its answer to WFMPRE?
  connected,    \* TektronixScope::IsConnected()
  valid,        \* m_preambleValid
  pre,          \* m_preambleCache
  errno,        \* the acquisition thread's errno is ERANGE
  acqPc,        \* where the acquisition thread stands
  stopRequest,  \* m_stopRequest
  cachedSec,    \* m_cachedSecPerDiv
  cachedVolt,   \* m_cachedVoltsPerDiv
  ring,         \* decoded waveforms the view has not seen
  partial,      \* history: the answer pre is from had not every field, errno was set,
                \* or it came before the device was opened
  longSeen,     \* history: an answer of 16 fields was parsed
  apart,        \* history: the cached scales are not those of the newest waveform
                \* put into the ring, nor of one on its way there
  fresh         \* history: the panel began to read the scales after the last
                \* change of them

historyVars == <<partial, longSeen, apart, fresh>>
instrumentVars == <<settings, layout, connected>>
dataVars == <<instrumentVars, valid, pre, errno, acqPc, stopRequest, cachedSec,
              cachedVolt, ring, historyVars>>

Versions == 0..MaxSettings
Preambles == [Fields -> Versions]
Secs == [nrPt : Versions, xIncr : Versions]
Frames == [pre : Preambles, made : Versions, layout : Layouts, doubt : BOOLEAN]

ASSUME NoneAssumption == None \notin Frames

\* secPerDiv is computed from two fields, voltsPerDiv from one.
SecPerDiv(p) == [nrPt |-> p["nrPt"], xIncr |-> p["xIncr"]]
VoltsPerDiv(p) == p["yMult"]

DataTypeOK ==
  /\ settings \in Versions /\ layout \in Layouts /\ connected \in BOOLEAN
  /\ valid \in BOOLEAN /\ pre \in Preambles /\ errno \in BOOLEAN
  /\ acqPc \in {"off", "top", "curve", "storeVolt", "decode"}
  /\ stopRequest \in BOOLEAN
  /\ cachedSec \in Secs /\ cachedVolt \in Versions
  /\ ring \in Seq(Frames) /\ Len(ring) <= Capacity
  /\ partial \in BOOLEAN /\ longSeen \in BOOLEAN /\ apart \in BOOLEAN /\ fresh \in BOOLEAN

DataInit ==
  /\ settings = 0 /\ layout = 15 /\ connected = FALSE
  /\ valid = FALSE /\ pre = [f \in Fields |-> 0] /\ errno = FALSE
  /\ acqPc = "off" /\ stopRequest = FALSE
  /\ cachedSec = [nrPt |-> 0, xIncr |-> 0] /\ cachedVolt = 0 /\ ring = <<>>
  /\ partial = FALSE /\ longSeen = FALSE /\ apart = TRUE /\ fresh = FALSE

-----------------------------------------------------------------------------
(* Parse.                                                                  *)

\* The order in which Parse comes to the fields.
Place == [nrPt |-> 1, xIncr |-> 2, xZero |-> 3, yMult |-> 4]

\* Mutated form of Present: the 15-field layout is read as if it were the other.
PresentAsLong(lay, missing) == Fields \ missing

\* XZERO is in the 16-field layout only.
Present(lay, missing) == Fields \ (missing \cup (IF lay = 15 THEN {"xZero"} ELSE {}))

\* ParseInt and ParseDouble leave their result alone when errno is ERANGE, which
\* an earlier number may have set and nobody clears.
Understood(present, range) ==
  {f \in present : ~errno /\ \A g \in present \cap range : Place[f] < Place[g]}

Parse(present, range) ==
  [f \in Fields |-> IF f \in Understood(present, range) THEN settings ELSE pre[f]]

\* The last test of Parse; XINCR's value at creation passes it.
IsValid(p) == p["nrPt"] # 0

-----------------------------------------------------------------------------
(* The acquisition thread.                                                 *)

\* Its errno goes with it.
ThreadExits ==
  /\ acqPc = "top" /\ stopRequest /\ acqPc' = "off" /\ errno' = FALSE
  /\ UNCHANGED <<instrumentVars, valid, pre, stopRequest, cachedSec,
                 cachedVolt, ring, historyVars>>

\* A queued SetChannel, SetHorizontalScale or SetChannelScale that goes well; the
\* scales only while the numbers they ask for are understood, which makes no difference.
CommandChangesSetting ==
  /\ acqPc = "top" /\ ~stopRequest /\ settings < MaxSettings
  /\ settings' = settings + 1 /\ valid' = FALSE
  /\ UNCHANGED <<layout, connected, pre, errno, acqPc, stopRequest, cachedSec,
                 cachedVolt, ring, historyVars>>

\* A query, a curve or a parse that fails changes nothing here.
RefreshAnswered(short) ==
  LET present == Present(layout, short.missing)
      p == Parse(present, short.range)
  IN  /\ acqPc = "top" /\ ~stopRequest /\ ~valid
      /\ pre' = p
      /\ errno' = (errno \/ present \cap short.range # {})
      /\ partial' = (short.missing # {} \/ errno')
      /\ longSeen' = (longSeen \/ layout = 16)
      /\ valid' = IsValid(p)
      /\ acqPc' = IF IsValid(p) THEN "curve" ELSE "top"
      /\ UNCHANGED <<instrumentVars, stopRequest, cachedSec, cachedVolt, ring, apart,
                     fresh>>

CacheUsed ==
  /\ acqPc = "top" /\ ~stopRequest /\ valid /\ acqPc' = "curve"
  /\ UNCHANGED <<instrumentVars, valid, pre, errno, stopRequest, cachedSec,
                 cachedVolt, ring, historyVars>>

CurveFails ==
  /\ acqPc = "curve" /\ acqPc' = "top"
  /\ UNCHANGED <<instrumentVars, valid, pre, errno, stopRequest, cachedSec,
                 cachedVolt, ring, historyVars>>

\* The curve is read and the first of the two scales stored.
CurveRead ==
  /\ acqPc = "curve" /\ acqPc' = "storeVolt"
  /\ cachedSec' = SecPerDiv(pre) /\ apart' = FALSE /\ fresh' = FALSE
  /\ UNCHANGED <<instrumentVars, valid, pre, errno, stopRequest, cachedVolt, ring,
                 partial, longSeen>>

StoreVolt ==
  /\ acqPc = "storeVolt" /\ acqPc' = "decode"
  /\ cachedVolt' = VoltsPerDiv(pre) /\ fresh' = FALSE
  /\ UNCHANGED <<instrumentVars, valid, pre, errno, stopRequest, cachedSec, ring,
                 partial, longSeen, apart>>

Frame == [pre |-> pre, made |-> settings, layout |-> layout,
          doubt |-> partial \/ (layout = 15 /\ longSeen)]

\* Mutated form of Deliver: Push takes one too many.
DeliverOffByOne(samples) ==
  LET taken == samples /\ Len(ring) <= Capacity
  IN  /\ acqPc = "decode" /\ acqPc' = "top"
      /\ ring' = IF taken THEN Append(ring, Frame) ELSE ring
      /\ apart' = (apart \/ ~taken)
      /\ UNCHANGED <<instrumentVars, valid, pre, errno, stopRequest, cachedSec, cachedVolt,
                     partial, longSeen, fresh>>

\* Push refuses when the ring is full; ReadBinaryBlock takes a block that ends
\* after its header for a good one, Decode does not.
Deliver(samples) ==
  LET taken == samples /\ Len(ring) < Capacity
  IN  /\ acqPc = "decode" /\ acqPc' = "top"
      /\ ring' = IF taken THEN Append(ring, Frame) ELSE ring
      /\ apart' = (apart \/ ~taken)
      /\ UNCHANGED <<instrumentVars, valid, pre, errno, stopRequest, cachedSec, cachedVolt,
                     partial, longSeen, fresh>>

ThreadStep ==
  \/ ThreadExits \/ CommandChangesSetting \/ CacheUsed
  \/ \E short \in Shortcomings : RefreshAnswered(short)
  \/ CurveFails \/ CurveRead \/ StoreVolt
  \/ \E samples \in BOOLEAN : Deliver(samples)

-----------------------------------------------------------------------------
(* A waveform's scales come from the answer for its own settings, unless   *)
(* that answer lacked a number, an earlier number was out of range, the    *)
(* preamble is from before the device was opened, or an instrument with    *)
(* the longer layout was read before.  One bad answer hurts the waveforms  *)
(* up to the next one only, except through errno                           *)
(* (Waveform/WaveformPreamble.cpp:32, Utils/StringUtils.cpp:101).          *)
Right(w) ==
  /\ \A f \in Fields \ {"xZero"} : w.pre[f] = w.made
  /\ w.pre["xZero"] = IF w.layout = 16 THEN w.made ELSE 0
=============================================================================
