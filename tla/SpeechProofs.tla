------------------------------ MODULE SpeechProofs ------------------------------
(***************************************************************************)
(* Proofs about Speech: every frame of speech is in one utterance, in the  *)
(* order of capture, and the duration the VAD reports is that of the audio *)
(* sent; acoustic events pair; a cue starts with its speech or within a    *)
(* known delay of it; and the numbers in a session file increase.  For any *)
(* VAD and tracker parameters, and however late the frames come and        *)
(* however worker, disk and stop interleave.                               *)
(*                                                                         *)
(* The argument has five parts that share little.  The voice: what was     *)
(* sent, what is being recorded and what is held back follow each other in *)
(* the stream of frames, and the VAD counts them.  The start: the clock,   *)
(* less what is buffered, is no moment before the first frame, because     *)
(* frames in a row are at least a frame apart.  The acoustic events:    *)
(* the open one is the last of an odd number.  The cues: an utterance that *)
(* may still be answered is on its way in one place, and is tracked unless *)
(* TrackerCap later ones have been.  The numbers: a file, and then what    *)
(* its writer has queued, end at the counter.                              *)
(***************************************************************************)
EXTENDS Speech, SequenceTheorems, FiniteSetTheorems, TLAPS

(***************************************************************************)
(* The inductive invariant.                                                *)
(***************************************************************************)

Recordings == [frames : Seq(Nat), duration : Nat, waited : Nat]

VoiceType ==
    /\ frame \in Nat /\ vad \in Vads /\ speaking \in BOOLEAN /\ sequence \in Nat
    /\ preRoll \in Seq(Nat) /\ utterance \in Seq(Nat) /\ taken \in Seq(Nat)
    /\ judged \subseteq Nat /\ sent \in [1 .. sequence -> Recordings]

StartType == origin \in Nat /\ startedAt \in Int /\ waited \in Nat

Lines == Nat \X Nat
Messages == {"started", "result"} \X Nat \X Nat

TrackType ==
    /\ DOMAIN tracked \subseteq 1 .. sequence /\ tracked \in [DOMAIN tracked -> Nat]
    /\ order \in Seq(Nat)
    /\ inbox \in Seq(Nat) /\ unread \in Seq(Lines) /\ attempt \in Nat
    /\ bus \in Seq(Messages) /\ cues \in Seq(Nat \X Nat)

FilesType ==
    /\ queue \in [Sinks -> Seq(Nat)] /\ leftover \in [Sinks -> Seq(Nat)]
    /\ file \in [Sinks -> Seq(Nat)] /\ pending \in [Sinks -> Nat]
    /\ closing \in {"no", "drain", "stats", "done"} /\ at \in {1, 2}
    /\ overran \in BOOLEAN /\ counter \in Nat

(* Captured frames increase, none is later than the last, and one sequence of *)
(* them follows the other.                                                    *)
Rising(s) == \A i, j \in DOMAIN s : i < j => s[i] < s[j]
UpTo(s, n) == \A i \in DOMAIN s : s[i] \in 1 .. n
Below(s, t) == \A i \in DOMAIN s, j \in DOMAIN t : s[i] < t[j]

VoiceInv ==
    /\ vad.speaking = speaking
    /\ IF speaking THEN preRoll = <<>> ELSE utterance = <<>>
    /\ vad.chunks = Len(utterance) /\ vad.lead = Len(preRoll)
    /\ Rising(taken) /\ Rising(utterance) /\ Rising(preRoll)
    /\ Below(taken, utterance) /\ Below(taken, preRoll)
    /\ UpTo(taken, frame) /\ UpTo(utterance, frame) /\ UpTo(preRoll, frame)
    /\ judged \subseteq Range(taken) \cup Range(utterance)
    /\ DurationIsThatOfTheAudio

(* Each frame takes its time. *)
Spread(s) == \A i, j \in DOMAIN s : i < j => s[i] + (j - i) <= s[j]

(* A moment that is not before the frames begin, and later by no more than they *)
(* waited and what is missing of them.                                          *)
Within(s, w, t) == s[1] - 1 <= t /\ t <= s[1] - 1 + w + Missing(s)

Sound(r, n) == Len(r.frames) >= 1 /\ Spread(r.frames) /\ UpTo(r.frames, n)

StartInv ==
    /\ Spread(utterance) /\ Spread(preRoll)
    /\ speaking /\ program = "desktop" =>
           utterance # <<>> /\ Within(utterance, waited, startedAt)
    /\ \A u \in 1 .. sequence : Sound(sent[u], frame)

(* The same of an offset on the session's timeline, of a recording. *)
NotBefore(r, o, c) == Begins(o, r) <= c
NotLater(r, o, c) == c <= Begins(o, r) + r.waited + Missing(r.frames)

InTime(pr, cs, rs, o, n) ==
    pr = "desktop" =>
        \A i \in DOMAIN cs :
            /\ NotBefore(rs[cs[i][1]], o, cs[i][2])
            /\ NotLater(rs[cs[i][1]], o, cs[i][2]) \/ n >= cs[i][1] + TrackerCap

(* Starts stand at the odd places, each followed by its own end. *)
Pairs(s) ==
    \A i \in 1 .. Len(s) :
        IF i % 2 = 1 THEN s[i][1] = "start" ELSE s[i] = <<"end", s[i - 1][2]>>

Acoustics == {"start", "end"} \X Nat

OpenIsLast(a, s) ==
    /\ a \in Nat /\ s \in Seq(Acoustics) /\ Pairs(s)
    /\ a # 0 <=> Len(s) % 2 = 1
    /\ a # 0 => s[Len(s)] = <<"start", a>>

AcousticInv ==
    /\ OpenIsLast(active, acoustic)
    /\ audio \in {"listening", "sending", "ended"}
    /\ audio = "ended" => active = 0

(* What the lines of a stdout, and the messages of the bus, are answers to. *)
Answered(r) == {r[i][2] : i \in DOMAIN r}
AnsweredOnce(r) == \A i, j \in DOMAIN r : r[i][2] = r[j][2] => i = j

Results(b) == {i \in DOMAIN b : b[i][1] = "result"}
Told(b) == {b[i][3] : i \in Results(b)}
ToldOnce(b) == \A i, j \in Results(b) : b[i][3] = b[j][3] => i = j

(* The utterances on their way to the worker or back. *)
Sending == IF audio = "sending" THEN {sequence} ELSE {}
OnItsWay == Sending \cup Range(inbox) \cup Answered(unread) \cup Told(bus)

(* An utterance that later ones have displaced. *)
Displaced(u) == sequence >= u + TrackerCap

Once(s) == \A i, j \in DOMAIN s : s[i] = s[j] => i = j

(* Each of them is in one place. *)
Apart ==
    /\ Once(inbox) /\ AnsweredOnce(unread) /\ ToldOnce(bus)
    /\ Sending \cap Range(inbox) = {} /\ Sending \cap Answered(unread) = {}
    /\ Sending \cap Told(bus) = {} /\ Range(inbox) \cap Answered(unread) = {}
    /\ Range(inbox) \cap Told(bus) = {} /\ Answered(unread) \cap Told(bus) = {}

WayInv ==
    /\ OnItsWay \subseteq 1 .. sequence
    /\ \A u \in OnItsWay : u \in DOMAIN tracked \/ Displaced(u)
    /\ Apart

TrackerInv ==
    /\ Rising(order) /\ Range(order) = DOMAIN tracked
    /\ program = "desktop" =>
           \A u \in DOMAIN tracked :
               NotBefore(sent[u], origin, tracked[u]) /\ NotLater(sent[u], origin, tracked[u])

CuesInv ==
    /\ \A i \in DOMAIN cues : cues[i][1] \in 1 .. sequence
    /\ InTime(program, cues, sent, origin, sequence)

CueInv == TrackerInv /\ WayInv /\ CuesInv

(* What is written, and then what is queued, increases up to the counter. *)
Numbered(f, q, n) == Rising(f) /\ Rising(q) /\ Below(f, q) /\ UpTo(f, n) /\ UpTo(q, n)

(* Only a drain that times out leaves a writer behind. *)
NumbersInv ==
    /\ closing # "no" => events = "ended"
    /\ \A s \in Sinks : pending[s] = Len(queue[s])
    /\ ~overran =>
           /\ leftover["vtt"] = <<>>
           /\ (closing = "stats" /\ at = 2) \/ closing = "done" => queue["vtt"] = <<>>
           /\ Numbered(file["vtt"], queue["vtt"], counter)

IInv ==
    /\ VoiceType /\ StartType /\ TrackType /\ FilesType
    /\ VoiceInv /\ StartInv /\ AcousticInv /\ CueInv /\ NumbersInv

(***************************************************************************)
(* Sequences of captured frames and of cue numbers.                        *)
(***************************************************************************)

LEMMA EmptyParts ==
    ASSUME NEW s \in Seq(Nat), NEW n \in Nat
    PROVE  /\ Rising(<<>>) /\ UpTo(<<>>, n) /\ Below(s, <<>>) /\ Below(<<>>, s)
           /\ Range(<<>>) = {}
BY DEF Rising, UpTo, Below, Range

LEMMA AppendParts ==
    ASSUME NEW s \in Seq(Nat), NEW n \in Nat, UpTo(s, n), Rising(s)
    PROVE  /\ Append(s, n + 1) \in Seq(Nat) /\ Len(Append(s, n + 1)) = Len(s) + 1
           /\ Rising(Append(s, n + 1)) /\ UpTo(Append(s, n + 1), n + 1)
           /\ Range(Append(s, n + 1)) = Range(s) \cup {n + 1}
<1> DEFINE t == Append(s, n + 1)
<1>1. /\ t \in Seq(Nat) /\ Len(t) = Len(s) + 1 /\ DOMAIN t = 1 .. Len(s) + 1
      /\ \A i \in DOMAIN s : t[i] = s[i]
      /\ t[Len(s) + 1] = n + 1 /\ DOMAIN s = 1 .. Len(s) /\ Len(s) \in Nat
  OBVIOUS
<1>2. \A i \in DOMAIN s : s[i] \in 1 .. n
  BY DEF UpTo
<1> HIDE DEF t
<1>3. UpTo(t, n + 1)
  BY <1>1, <1>2 DEF UpTo
<1>4. Rising(t)
  <2> SUFFICES ASSUME NEW i \in DOMAIN t, NEW j \in DOMAIN t, i < j
               PROVE  t[i] < t[j]
    BY DEF Rising
  <2>1. i \in DOMAIN s /\ (j \in DOMAIN s \/ j = Len(s) + 1)
    BY <1>1
  <2> QED
    BY <2>1, <1>1, <1>2 DEF Rising
<1>5. Range(t) = Range(s) \cup {n + 1}
  <2>1. \A i \in DOMAIN t : t[i] \in Range(s) \cup {n + 1}
    BY <1>1 DEF Range
  <2>2. \A i \in DOMAIN s : s[i] \in Range(t)
    BY <1>1 DEF Range
  <2>3. n + 1 \in Range(t)
    BY <1>1 DEF Range
  <2> QED
    BY <2>1, <2>2, <2>3 DEF Range
<1> QED
  BY <1>1, <1>3, <1>4, <1>5 DEF t

LEMMA UpToGrows ==
    ASSUME NEW s \in Seq(Nat), NEW n \in Nat, UpTo(s, n)
    PROVE  UpTo(s, n + 1)
BY DEF UpTo

LEMMA BelowAppend ==
    ASSUME NEW s \in Seq(Nat), NEW t \in Seq(Nat), NEW n \in Nat, UpTo(s, n), Below(s, t)
    PROVE  Below(s, Append(t, n + 1))
<1> DEFINE r == Append(t, n + 1)
<1>1. DOMAIN r = 1 .. Len(t) + 1 /\ r[Len(t) + 1] = n + 1 /\ DOMAIN t = 1 .. Len(t)
      /\ \A j \in DOMAIN t : r[j] = t[j]
  OBVIOUS
<1> HIDE DEF r
<1> SUFFICES ASSUME NEW i \in DOMAIN s, NEW j \in DOMAIN r
             PROVE  s[i] < r[j]
  BY DEF Below, r
<1>2. s[i] \in 1 .. n
  BY DEF UpTo
<1>3. CASE j \in DOMAIN t
  BY <1>3, <1>1 DEF Below
<1>4. CASE j = Len(t) + 1
  BY <1>4, <1>1, <1>2
<1> QED
  BY <1>1, <1>3, <1>4

LEMMA TailParts ==
    ASSUME NEW s \in Seq(Nat), s # <<>>, NEW n \in Nat, UpTo(s, n), Rising(s),
           NEW r \in Seq(Nat), Below(r, s)
    PROVE  /\ Tail(s) \in Seq(Nat) /\ Len(Tail(s)) = Len(s) - 1
           /\ Rising(Tail(s)) /\ UpTo(Tail(s), n) /\ Below(r, Tail(s))
<1> DEFINE t == Tail(s)
<1>1. /\ t \in Seq(Nat) /\ Len(t) = Len(s) - 1 /\ DOMAIN t = 1 .. Len(s) - 1
      /\ \A i \in DOMAIN t : t[i] = s[i + 1] /\ i + 1 \in DOMAIN s
      /\ DOMAIN s = 1 .. Len(s) /\ Len(s) \in Nat
  OBVIOUS
<1> HIDE DEF t
<1>2. UpTo(t, n) /\ Below(r, t)
  BY <1>1 DEF UpTo, Below
<1>3. Rising(t)
  <2> SUFFICES ASSUME NEW i \in DOMAIN t, NEW j \in DOMAIN t, i < j
               PROVE  t[i] < t[j]
    BY DEF Rising
  <2>1. i + 1 \in DOMAIN s /\ j + 1 \in DOMAIN s /\ i + 1 < j + 1
    BY <1>1
  <2>2. s[i + 1] < s[j + 1]
    BY <2>1 DEF Rising
  <2> QED
    BY <2>2, <1>1
<1> QED
  BY <1>1, <1>2, <1>3 DEF t

LEMMA ConcatParts ==
    ASSUME NEW s \in Seq(Nat), NEW t \in Seq(Nat), NEW n \in Nat,
           Rising(s), Rising(t), Below(s, t), UpTo(s, n), UpTo(t, n)
    PROVE  /\ s \o t \in Seq(Nat) /\ Rising(s \o t) /\ UpTo(s \o t, n)
           /\ Range(s \o t) = Range(s) \cup Range(t)
<1> DEFINE c == s \o t
<1>1. /\ c \in Seq(Nat) /\ DOMAIN c = 1 .. Len(s) + Len(t)
      /\ DOMAIN s = 1 .. Len(s) /\ DOMAIN t = 1 .. Len(t)
      /\ Len(s) \in Nat /\ Len(t) \in Nat
      /\ \A i \in DOMAIN s : c[i] = s[i]
  OBVIOUS
<1>2. \A i \in DOMAIN t : c[Len(s) + i] = t[i] /\ Len(s) + i \in DOMAIN c
  OBVIOUS
<1>3. \A i \in DOMAIN c : i \in DOMAIN s \/ (i - Len(s) \in DOMAIN t /\ i > Len(s))
  BY <1>1
<1>4. \A i \in DOMAIN c : i \notin DOMAIN s => c[i] = t[i - Len(s)]
  BY <1>1, <1>2, <1>3
<1> HIDE DEF c
<1>5. UpTo(c, n)
  BY <1>1, <1>3, <1>4 DEF UpTo
<1>6. Rising(c)
  <2> SUFFICES ASSUME NEW i \in DOMAIN c, NEW j \in DOMAIN c, i < j
               PROVE  c[i] < c[j]
    BY DEF Rising
  <2>1. CASE j \in DOMAIN s
    <3>1. i \in DOMAIN s
      BY <2>1, <1>1
    <3> QED
      BY <2>1, <3>1, <1>1 DEF Rising
  <2>2. CASE i \in DOMAIN s /\ j \notin DOMAIN s
    BY <2>2, <1>1, <1>3, <1>4 DEF Below
  <2>3. CASE i \notin DOMAIN s /\ j \notin DOMAIN s
    <3>1. PICK a \in DOMAIN t : a = i - Len(s)
      BY <2>3, <1>3
    <3>2. PICK b \in DOMAIN t : b = j - Len(s)
      BY <2>3, <1>3
    <3>3. a < b
      BY <3>1, <3>2, <1>1
    <3> QED
      BY <3>1, <3>2, <3>3, <2>3, <1>4 DEF Rising
  <2> QED
    BY <2>1, <2>2, <2>3, <1>1
<1>7. Range(c) = Range(s) \cup Range(t)
  <2>1. \A i \in DOMAIN c : c[i] \in Range(s) \cup Range(t)
    BY <1>1, <1>3, <1>4 DEF Range
  <2>2. \A i \in DOMAIN s : s[i] \in Range(c)
    BY <1>1 DEF Range
  <2>3. \A i \in DOMAIN t : t[i] \in Range(c)
    BY <1>2 DEF Range, c
  <2> QED
    BY <2>1, <2>2, <2>3 DEF Range
<1> QED
  BY <1>1, <1>5, <1>6, <1>7 DEF c

LEMMA BelowConcat ==
    ASSUME NEW s \in Seq(Nat), NEW t \in Seq(Nat), NEW r \in Seq(Nat), Below(s, r), Below(t, r)
    PROVE  Below(s \o t, r)
<1> DEFINE c == s \o t
<1> SUFFICES ASSUME NEW i \in DOMAIN c, NEW j \in DOMAIN r
             PROVE  c[i] < r[j]
  BY DEF Below
<1>1. (i \in DOMAIN s /\ c[i] = s[i]) \/ (i - Len(s) \in DOMAIN t /\ c[i] = t[i - Len(s)])
  OBVIOUS
<1> QED
  BY <1>1 DEF Below

LEMMA RisingIncreases ==
    ASSUME NEW s \in Seq(Nat), Rising(s)
    PROVE  Increasing(s)
BY DEF Rising, Increasing

(***************************************************************************)
(* The voice.                                                              *)
(***************************************************************************)

LEMMA VadSteps ==
    ASSUME NEW v \in Vads, NEW speech \in BOOLEAN
    PROVE  /\ Evaluated(v, speech) \in Vads
           /\ Transition(v, speech) \in {"start", "limit", "silence", "none"}
           /\ Transition(v, speech) = "start" <=> ~v.speaking /\ speech
           /\ Transition(v, speech) \in {"limit", "silence"} =>
                  v.speaking /\ Evaluated(v, speech) = Silent
           /\ Transition(v, speech) = "start" =>
                  /\ Evaluated(v, speech).speaking /\ Evaluated(v, speech).lead = 0
                  /\ Evaluated(v, speech).chunks = v.lead + 1
           /\ Transition(v, speech) = "none" =>
                  /\ Evaluated(v, speech).speaking = v.speaking
                  /\ v.speaking => /\ Evaluated(v, speech).chunks = v.chunks + 1
                                   /\ Evaluated(v, speech).lead = v.lead
                  /\ ~v.speaking =>
                         /\ Evaluated(v, speech).chunks = v.chunks
                         /\ Evaluated(v, speech).lead =
                                IF v.lead < PreRollSize THEN v.lead + 1 ELSE v.lead
<1> DEFINE tr == Transition(v, speech)
           w == Evaluated(v, speech)
<1>1. tr \in {"start", "limit", "silence", "none"} /\ (tr = "start" <=> ~v.speaking /\ speech)
      /\ (tr \in {"limit", "silence"} => v.speaking)
      /\ (tr = "none" /\ v.speaking /\ ~speech => v.silence + 1 <= SilenceLimit)
  BY VadAssumption DEF Transition, Vads
<1>2. tr = "start" =>
          w = [speaking |-> TRUE, silence |-> 0, chunks |-> v.lead + 1, lead |-> 0]
  BY <1>1 DEF Evaluated
<1>3. tr \in {"limit", "silence"} => w = Silent
  BY <1>1 DEF Evaluated
<1>4. tr = "none" /\ v.speaking =>
          w = [v EXCEPT !.silence = IF speech THEN 0 ELSE @ + 1, !.chunks = @ + 1]
  BY DEF Evaluated
<1>5. tr = "none" /\ ~v.speaking =>
          w = [v EXCEPT !.lead = IF @ < PreRollSize THEN @ + 1 ELSE @]
  BY DEF Evaluated
<1> HIDE DEF tr, w
<1>0. /\ SilenceLimit \in Nat /\ PreRollSize \in Nat /\ PreRollSize > 0
      /\ v.speaking \in BOOLEAN /\ v.silence \in Nat /\ v.silence <= SilenceLimit
      /\ v.chunks \in Nat /\ v.lead \in Nat /\ v.lead <= PreRollSize
  BY VadAssumption DEF Vads
<1>6. CASE tr = "start"
  <2>1. 0 \in 0 .. SilenceLimit /\ v.lead + 1 \in Nat /\ 0 \in 0 .. PreRollSize
    BY <1>0
  <2>2. [speaking |-> TRUE, silence |-> 0, chunks |-> v.lead + 1, lead |-> 0] \in Vads
    BY <2>1 DEF Vads
  <2>3. w = [speaking |-> TRUE, silence |-> 0, chunks |-> v.lead + 1, lead |-> 0]
    BY <1>2, <1>6
  <2>4. w \in Vads
    BY <2>2, <2>3
  <2>5. w.speaking = TRUE /\ w.lead = 0 /\ w.chunks = v.lead + 1
    BY <2>3
  <2> QED
    BY <1>1, <1>6, <2>4, <2>5 DEF tr, w
<1>7. CASE tr \in {"limit", "silence"}
  <2>1. 0 \in 0 .. SilenceLimit /\ 0 \in Nat /\ 0 \in 0 .. PreRollSize
    BY <1>0
  <2>2. Silent \in Vads
    BY <2>1 DEF Vads, Silent
  <2> QED
    BY <1>1, <1>3, <1>7, <2>2 DEF tr, w
<1>8. CASE tr = "none" /\ v.speaking
  <2>1. v = [speaking |-> v.speaking, silence |-> v.silence, chunks |-> v.chunks, lead |-> v.lead]
    BY DEF Vads
  <2>2. w = [speaking |-> v.speaking, silence |-> IF speech THEN 0 ELSE v.silence + 1,
             chunks |-> v.chunks + 1, lead |-> v.lead]
    BY <1>4, <1>8, <2>1
  <2>3. (IF speech THEN 0 ELSE v.silence + 1) \in 0 .. SilenceLimit
    BY <1>0, <1>1, <1>8
  <2>4. w \in Vads
    BY <1>0, <2>2, <2>3 DEF Vads
  <2> QED
    BY <1>1, <1>8, <2>2, <2>4 DEF tr, w
<1>9. CASE tr = "none" /\ ~v.speaking
  BY <1>1, <1>5, <1>9, VadAssumption DEF Vads, tr, w
<1> QED
  BY <1>1, <1>6, <1>7, <1>8, <1>9

LEMMA SpeechStartsVoice ==
    ASSUME VoiceType, VoiceInv, SpeechStarts
    PROVE  VoiceType' /\ VoiceInv'
<1> USE DEF VoiceType
<1>1. /\ ~speaking /\ utterance = <<>> /\ speaking' = TRUE /\ preRoll' = <<>>
      /\ utterance' = Append(preRoll, frame + 1) /\ frame' = frame + 1
      /\ vad' = Evaluated(vad, TRUE) /\ judged' = judged \cup {frame + 1}
      /\ sequence' = sequence /\ taken' = taken /\ sent' = sent
  BY VadSteps DEF SpeechStarts, Judged, Hears, VoiceInv
<1>2. /\ vad' \in Vads /\ vad'.speaking /\ vad'.chunks = vad.lead + 1 /\ vad'.lead = 0
  BY <1>1, VadSteps DEF SpeechStarts
<1>3. /\ utterance' \in Seq(Nat) /\ Len(utterance') = Len(preRoll) + 1
      /\ Rising(utterance') /\ UpTo(utterance', frame + 1)
      /\ Range(utterance') = Range(preRoll) \cup {frame + 1}
  BY <1>1, AppendParts DEF VoiceInv
<1>4. Below(taken, utterance')
  BY <1>1, BelowAppend DEF VoiceInv
<1>5. UpTo(taken, frame + 1)
  BY UpToGrows DEF VoiceInv
<1>6. Rising(<<>>) /\ UpTo(<<>>, frame + 1) /\ Below(taken, <<>>) /\ Range(<<>>) = {}
  BY EmptyParts
<1>7. judged' \subseteq Range(taken) \cup Range(utterance')
  BY <1>1, <1>3, <1>6 DEF VoiceInv
<1>8. VoiceType'
  <2>1. frame' \in Nat /\ judged' \subseteq Nat
    BY <1>1
  <2>2. speaking' \in BOOLEAN /\ preRoll' \in Seq(Nat)
    BY <1>1
  <2> QED
    BY <1>1, <1>2, <1>3, <2>1, <2>2
<1> QED
  BY <1>1, <1>2, <1>3, <1>4, <1>5, <1>6, <1>7, <1>8 DEF VoiceInv, DurationIsThatOfTheAudio

LEMMA ListensVoice ==
    ASSUME VoiceType, VoiceInv, NEW speech \in BOOLEAN, Listens(speech)
    PROVE  VoiceType' /\ VoiceInv'
<1> USE DEF VoiceType
<1>1. /\ frame' = frame + 1 /\ vad' = Evaluated(vad, speech) /\ speaking' = speaking
      /\ judged' = IF speech THEN judged \cup {frame + 1} ELSE judged
      /\ sequence' = sequence /\ taken' = taken /\ sent' = sent
      /\ Transition(vad, speech) = "none" /\ vad.speaking = speaking
  BY DEF Listens, Judged, Hears, VoiceInv
<1>2. /\ vad' \in Vads /\ vad'.speaking = speaking
      /\ speaking => vad'.chunks = vad.chunks + 1 /\ vad'.lead = vad.lead
      /\ ~speaking => ~speech /\ vad'.chunks = vad.chunks
      /\ ~speaking => vad'.lead = IF vad.lead < PreRollSize THEN vad.lead + 1 ELSE vad.lead
  BY <1>1, VadSteps
<1>3. UpTo(taken, frame + 1) /\ UpTo(utterance, frame + 1) /\ UpTo(preRoll, frame + 1)
  BY UpToGrows DEF VoiceInv
<1>4. CASE speaking
  <2>1. utterance' = Append(utterance, frame + 1) /\ preRoll' = preRoll
    BY <1>4 DEF Listens
  <2>2. /\ utterance' \in Seq(Nat) /\ Len(utterance') = Len(utterance) + 1
        /\ Rising(utterance') /\ UpTo(utterance', frame + 1)
        /\ Range(utterance') = Range(utterance) \cup {frame + 1}
    BY <2>1, AppendParts DEF VoiceInv
  <2>3. Below(taken, utterance')
    BY <2>1, BelowAppend DEF VoiceInv
  <2>4. judged' \subseteq Range(taken) \cup Range(utterance')
    BY <1>1, <2>2 DEF VoiceInv
  <2>5. VoiceType'
    <3>1. frame' \in Nat /\ judged' \subseteq Nat
      BY <1>1
    <3> QED
      BY <1>1, <1>2, <2>1, <2>2, <3>1
  <2> QED
    BY <1>1, <1>2, <1>3, <1>4, <2>1, <2>2, <2>3, <2>4, <2>5
       DEF VoiceInv, DurationIsThatOfTheAudio
<1>5. CASE ~speaking
  <2> DEFINE kept == IF Len(preRoll) >= PreRollSize THEN Tail(preRoll) ELSE preRoll
  <2>1. utterance' = utterance /\ preRoll' = Append(kept, frame + 1)
    BY <1>5 DEF Listens
  <2>2. /\ kept \in Seq(Nat) /\ Rising(kept) /\ UpTo(kept, frame) /\ Below(taken, kept)
        /\ Len(kept) + 1 = IF vad.lead < PreRollSize THEN vad.lead + 1 ELSE vad.lead
    <3>1. CASE Len(preRoll) >= PreRollSize
      <4>1. preRoll # <<>> /\ Len(preRoll) = vad.lead /\ vad.lead = PreRollSize
        BY <3>1, VadAssumption DEF VoiceInv, Vads
      <4>2. /\ Tail(preRoll) \in Seq(Nat) /\ Len(Tail(preRoll)) = Len(preRoll) - 1
            /\ Rising(Tail(preRoll)) /\ UpTo(Tail(preRoll), frame)
            /\ Below(taken, Tail(preRoll))
        BY <4>1, TailParts DEF VoiceInv
      <4>3. kept = Tail(preRoll)
        BY <3>1
      <4>4. Len(kept) + 1 = vad.lead
        BY <4>1, <4>2, <4>3, VadAssumption
      <4> QED
        BY <4>1, <4>2, <4>3, <4>4
    <3>2. CASE ~(Len(preRoll) >= PreRollSize)
      BY <3>2, VadAssumption DEF VoiceInv
    <3> QED
      BY <3>1, <3>2
  <2> HIDE DEF kept
  <2>3. /\ preRoll' \in Seq(Nat) /\ Len(preRoll') = Len(kept) + 1
        /\ Rising(preRoll') /\ UpTo(preRoll', frame + 1)
    BY <2>1, <2>2, AppendParts
  <2>4. Below(taken, preRoll')
    BY <2>1, <2>2, BelowAppend DEF VoiceInv
  <2>5. VoiceType'
    <3>1. frame' \in Nat /\ judged' \subseteq Nat
      BY <1>1
    <3> QED
      BY <1>1, <1>2, <2>1, <2>3, <3>1
  <2> QED
    BY <1>1, <1>2, <1>3, <1>5, <2>1, <2>2, <2>3, <2>4, <2>5
       DEF VoiceInv, DurationIsThatOfTheAudio
<1> QED
  BY <1>4, <1>5

(* What is sent, and the duration the VAD gives it. *)
LEMMA SpeechEndsSent ==
    ASSUME VoiceType, VoiceInv, StartType, NEW speech \in BOOLEAN, SpeechEnds(speech)
    PROVE  LET whole == Append(utterance, frame + 1)
           IN  /\ whole \in Seq(Nat) /\ CaptureOffset \in Nat
               /\ \/ /\ sequence' = sequence + 1
                     /\ sent' \in [1 .. sequence + 1 -> Recordings]
                     /\ \A u \in 1 .. sequence : sent'[u] = sent[u]
                     /\ sent'[sequence + 1] =
                            [frames |-> whole, duration |-> Len(whole), waited |-> waited]
                     /\ Track(sequence + 1, CaptureOffset) /\ audio' = "sending"
                  \/ UNCHANGED <<sequence, sent, audio, tracked, order>>
<1> USE DEF VoiceType
<1> DEFINE whole == Append(utterance, frame + 1)
<1>0. utterance \in Seq(Nat) /\ frame + 1 \in Nat
  OBVIOUS
<1>1. whole \in Seq(Nat) /\ Len(whole) = Len(utterance) + 1 /\ Len(whole) \in Nat
  BY <1>0
<1>2. CaptureOffset \in Nat
  BY DEF CaptureOffset, Since, StartType
<1>3. Duration(vad) = Len(whole)
  BY <1>1 DEF Duration, VoiceInv
<1>4. CASE Len(whole) >= MinFrames
  <2>1. /\ sequence' = sequence + 1 /\ Track(sequence + 1, CaptureOffset) /\ audio' = "sending"
        /\ sent' = [u \in DOMAIN sent \cup {sequence + 1} |->
                        IF u = sequence + 1
                        THEN [frames |-> whole, duration |-> Duration(vad), waited |-> waited]
                        ELSE sent[u]]
    BY <1>4 DEF SpeechEnds
  <2> HIDE DEF whole
  <2>2. DOMAIN sent \cup {sequence + 1} = 1 .. sequence + 1
    OBVIOUS
  <2>3. [frames |-> whole, duration |-> Duration(vad), waited |-> waited] \in Recordings
    BY <1>1, <1>3 DEF Recordings, StartType
  <2>4. sent' \in [1 .. sequence + 1 -> Recordings]
    BY <2>1, <2>2, <2>3
  <2>5. \A u \in 1 .. sequence : sent'[u] = sent[u]
    BY <2>1, <2>2
  <2>6. sent'[sequence + 1] = [frames |-> whole, duration |-> Len(whole), waited |-> waited]
    BY <1>3, <2>1, <2>2
  <2> QED
    BY <1>1, <1>2, <2>1, <2>4, <2>5, <2>6 DEF whole
<1>5. CASE ~(Len(whole) >= MinFrames)
  BY <1>1, <1>2, <1>5 DEF SpeechEnds, trackVars
<1> QED
  BY <1>4, <1>5

LEMMA SpeechEndsVoice ==
    ASSUME VoiceType, VoiceInv, StartType, NEW speech \in BOOLEAN, SpeechEnds(speech)
    PROVE  VoiceType' /\ VoiceInv'
<1> USE DEF VoiceType
<1> DEFINE whole == Append(utterance, frame + 1)
<1>1. /\ frame' = frame + 1 /\ vad' = Evaluated(vad, speech) /\ speaking' = FALSE
      /\ judged' = IF speech THEN judged \cup {frame + 1} ELSE judged
      /\ utterance' = <<>> /\ taken' = taken \o whole /\ preRoll' = preRoll
      /\ Transition(vad, speech) \in {"silence", "limit"}
      /\ speaking /\ preRoll = <<>>
  BY DEF SpeechEnds, Judged, Hears, VoiceInv
<1>2. vad' = Silent /\ vad' \in Vads
  BY <1>1, VadSteps
<1>3. /\ whole \in Seq(Nat) /\ Rising(whole) /\ UpTo(whole, frame + 1)
      /\ Range(whole) = Range(utterance) \cup {frame + 1}
  BY AppendParts DEF VoiceInv
<1>4. Below(taken, whole)
  BY BelowAppend DEF VoiceInv
<1>5. UpTo(taken, frame + 1) /\ Rising(taken)
  BY UpToGrows DEF VoiceInv
<1>6. sequence' \in Nat /\ sent' \in [1 .. sequence' -> Recordings]
      /\ DurationIsThatOfTheAudio'
  <2>1. CASE UNCHANGED <<sequence, sent>>
    BY <2>1 DEF VoiceInv, DurationIsThatOfTheAudio
  <2>2. CASE /\ sequence' = sequence + 1
             /\ sent' \in [1 .. sequence + 1 -> Recordings]
             /\ \A u \in 1 .. sequence : sent'[u] = sent[u]
             /\ sent'[sequence + 1] =
                    [frames |-> whole, duration |-> Len(whole), waited |-> waited]
    <3> HIDE DEF whole
    <3> SUFFICES ASSUME NEW u \in 1 .. sequence + 1
                 PROVE  sent'[u].duration = Len(sent'[u].frames)
      BY <2>2 DEF DurationIsThatOfTheAudio
    <3>1. CASE u = sequence + 1
      BY <2>2, <3>1
    <3>2. CASE u \in 1 .. sequence
      BY <2>2, <3>2 DEF VoiceInv, DurationIsThatOfTheAudio
    <3> QED
      BY <3>1, <3>2
  <2> QED
    BY <2>1, <2>2, SpeechEndsSent
<1> HIDE DEF whole
<1>7. /\ taken' \in Seq(Nat) /\ Rising(taken') /\ UpTo(taken', frame + 1)
      /\ Range(taken') = Range(taken) \cup Range(whole)
  BY <1>1, <1>3, <1>4, <1>5, ConcatParts
<1>8. /\ Rising(<<>>) /\ UpTo(<<>>, frame + 1) /\ Below(taken', <<>>) /\ Range(<<>>) = {}
  BY <1>7, EmptyParts
<1>9. judged' \subseteq Range(taken') \cup Range(utterance')
  BY <1>1, <1>3, <1>7 DEF VoiceInv
<1>10. VoiceType'
  <2>1. frame' \in Nat /\ judged' \subseteq Nat
    BY <1>1
  <2>2. speaking' \in BOOLEAN /\ preRoll' \in Seq(Nat) /\ utterance' \in Seq(Nat)
    BY <1>1
  <2> QED
    BY <1>2, <1>6, <1>7, <2>1, <2>2
<1>11. vad'.speaking = speaking' /\ vad'.chunks = Len(utterance') /\ vad'.lead = Len(preRoll')
  <2>1. Silent.speaking = FALSE /\ Silent.chunks = 0 /\ Silent.lead = 0
    BY DEF Silent
  <2>2. vad'.chunks = 0 /\ vad'.lead = 0
    BY <1>2, <2>1
  <2>3. Len(<<>>) = 0
    OBVIOUS
  <2> QED
    BY <1>1, <1>2, <2>1, <2>2, <2>3
<1>12. utterance' = <<>> /\ preRoll' = <<>> /\ speaking' = FALSE /\ frame' = frame + 1
  BY <1>1
<1> QED
  BY <1>6, <1>7, <1>8, <1>9, <1>10, <1>11, <1>12 DEF VoiceInv

LEMMA VoiceBegins ==
    ASSUME NEW n \in Nat
    PROVE  /\ Silent \in Vads /\ Empty \in [1 .. 0 -> Recordings] /\ DOMAIN Empty = {}
           /\ Rising(<<>>) /\ UpTo(<<>>, n) /\ Below(<<>>, <<>>) /\ <<>> \in Seq(Nat)
<1>1. <<>> \in Seq(Nat)
  OBVIOUS
<1>2. Empty \in [1 .. 0 -> Recordings] /\ DOMAIN Empty = {}
  BY DEF Empty
<1>3. 0 \in 0 .. SilenceLimit /\ 0 \in Nat /\ 0 \in 0 .. PreRollSize
  BY VadAssumption
<1>4. Silent \in Vads
  BY <1>3 DEF Vads, Silent
<1> QED
  BY <1>1, <1>2, <1>4, EmptyParts

LEMMA VoicePreserved ==
    ASSUME VoiceType, VoiceInv, StartType, [Next]_vars
    PROVE  VoiceType' /\ VoiceInv'
<1>1. CASE SpeechStarts
  BY <1>1, SpeechStartsVoice
<1>2. CASE \E speech \in BOOLEAN : Listens(speech) \/ SpeechEnds(speech)
  BY <1>2, ListensVoice, SpeechEndsVoice
<1>3. CASE VadFails
  <2>1. /\ frame' = frame + 1
        /\ UNCHANGED <<vad, preRoll, speaking, utterance, sequence, judged, taken, sent>>
    BY <1>3 DEF VadFails, Hears
  <2>2. UpTo(taken, frame + 1) /\ UpTo(utterance, frame + 1) /\ UpTo(preRoll, frame + 1)
    BY UpToGrows DEF VoiceInv, VoiceType
  <2> QED
    BY <2>1, <2>2 DEF VoiceInv, VoiceType, DurationIsThatOfTheAudio
<1>4. CASE \E resumed \in BOOLEAN : StartAgain(resumed)
  <2>1. /\ vad' = Silent /\ preRoll' = <<>> /\ speaking' = FALSE /\ utterance' = <<>>
        /\ sequence' = 0 /\ judged' = {} /\ taken' = <<>> /\ sent' = Empty /\ frame' = frame
    BY <1>4 DEF StartAgain
  <2>2. VoiceType'
    BY <2>1, VoiceBegins DEF VoiceType
  <2> QED
    BY <2>1, <2>2, VoiceBegins DEF VoiceInv, VoiceType, Silent, DurationIsThatOfTheAudio
<1>5. CASE UNCHANGED voiceVars
  BY <1>5 DEF voiceVars, startVars, VoiceInv, VoiceType, DurationIsThatOfTheAudio
<1>6. ASSUME Step PROVE SpeechStarts \/ (\E speech \in BOOLEAN : Listens(speech) \/ SpeechEnds(speech))
          \/ VadFails \/ (\E resumed \in BOOLEAN : StartAgain(resumed)) \/ UNCHANGED voiceVars
  BY <1>6 DEF Step, SendGivenUp, Sends, SendFails, AudioEnds, WorkerAnswers, WorkerRespawns,
     AnswerRead, EventNotAdmitted, ResultDropped, ResultEmitted, HeadlessIgnores,
     HeadlessDrops, HeadlessEmits, EventsEnd, Cancel, Close, Closing, Files, Completes,
     HeadlessCompletes, Receives
<1> QED
  BY <1>1, <1>2, <1>3, <1>4, <1>5, <1>6 DEF Next, vars

(***************************************************************************)
(* Where an utterance begins, by the clock.                                *)
(***************************************************************************)

LEMMA SpreadEmpty == Spread(<<>>)
BY DEF Spread

LEMMA SpreadAppend ==
    ASSUME NEW s \in Seq(Nat), NEW n \in Nat, UpTo(s, n), Spread(s)
    PROVE  Spread(Append(s, n + 1))
<1> DEFINE t == Append(s, n + 1)
<1>1. /\ DOMAIN t = 1 .. Len(s) + 1 /\ t[Len(s) + 1] = n + 1
      /\ \A i \in DOMAIN s : t[i] = s[i] /\ s[i] \in Nat /\ s[i] <= n
      /\ DOMAIN s = 1 .. Len(s) /\ Len(s) \in Nat
  BY DEF UpTo
<1> HIDE DEF t
<1> SUFFICES ASSUME NEW i \in DOMAIN t, NEW j \in DOMAIN t, i < j
             PROVE  t[i] + (j - i) <= t[j]
  BY DEF Spread, t
<1>2. i \in DOMAIN s
  BY <1>1
<1>6. j \in DOMAIN s \/ (j = Len(s) + 1 /\ i = Len(s)) \/ (j = Len(s) + 1 /\ i < Len(s))
  BY <1>1, <1>2
<1>3. CASE j \in DOMAIN s
  BY <1>1, <1>2, <1>3 DEF Spread
<1>4. CASE j = Len(s) + 1 /\ i = Len(s)
  BY <1>1, <1>2, <1>4
<1>5. CASE j = Len(s) + 1 /\ i < Len(s)
  <2>1. Len(s) \in DOMAIN s /\ s[i] + (Len(s) - i) <= s[Len(s)]
    BY <1>1, <1>2, <1>5 DEF Spread
  <2>2. PICK a \in Nat, b \in Nat, l \in Nat : a = s[i] /\ b = s[Len(s)] /\ l = Len(s)
    BY <1>1, <1>2, <2>1
  <2>3. b <= n /\ i \in Nat
    BY <1>1, <2>1, <2>2
  <2>4. a + (l - i) <= b
    BY <2>1, <2>2
  <2>5. a + ((l + 1) - i) <= n + 1
    BY <2>3, <2>4
  <2> QED
    BY <1>1, <1>2, <1>5, <2>2, <2>5
<1> QED
  BY <1>3, <1>4, <1>5, <1>6

LEMMA SpreadTail ==
    ASSUME NEW s \in Seq(Nat), s # <<>>, Spread(s)
    PROVE  Spread(Tail(s))
<1> DEFINE t == Tail(s)
<1>1. /\ DOMAIN t = 1 .. Len(s) - 1 /\ DOMAIN s = 1 .. Len(s) /\ Len(s) \in Nat
      /\ \A i \in DOMAIN t : t[i] = s[i + 1] /\ i + 1 \in DOMAIN s
  OBVIOUS
<1> HIDE DEF t
<1> SUFFICES ASSUME NEW i \in DOMAIN t, NEW j \in DOMAIN t, i < j
             PROVE  t[i] + (j - i) <= t[j]
  BY DEF Spread, t
<1>2. s[i + 1] + ((j + 1) - (i + 1)) <= s[j + 1]
  BY <1>1 DEF Spread
<1>3. (j + 1) - (i + 1) = j - i
  BY <1>1
<1> QED
  BY <1>1, <1>2, <1>3

(* The last of the frames is that much later than the first. *)
LEMMA SpreadEnds ==
    ASSUME NEW s \in Seq(Nat), s # <<>>, Spread(s)
    PROVE  /\ Len(s) \in Nat /\ Len(s) >= 1 /\ s[1] \in Nat /\ s[Len(s)] \in Nat
           /\ s[1] + (Len(s) - 1) <= s[Len(s)]
<1>1. Len(s) \in Nat /\ Len(s) >= 1 /\ 1 \in DOMAIN s /\ Len(s) \in DOMAIN s
  OBVIOUS
<1>2. s[1] \in Nat /\ s[Len(s)] \in Nat
  BY <1>1
<1>3. CASE Len(s) = 1
  BY <1>1, <1>2, <1>3
<1>4. CASE Len(s) > 1
  BY <1>1, <1>2, <1>4 DEF Spread
<1> QED
  BY <1>1, <1>2, <1>3, <1>4

(* The clock, less what is buffered, when a frame starts an utterance. *)
LEMMA WithinStarts ==
    ASSUME NEW s \in Seq(Nat), NEW n \in Nat, UpTo(s, n), Spread(s), NEW now \in Int, now >= n + 1
    PROVE  Within(Append(s, n + 1), now - (n + 1), now - (Len(s) + 1))
<1> DEFINE t == Append(s, n + 1)
<1>1. t \in Seq(Nat) /\ t # <<>> /\ Len(t) = Len(s) + 1 /\ t[Len(t)] = n + 1 /\ Spread(t)
  BY SpreadAppend
<1> HIDE DEF t
<1>2. Len(t) \in Nat /\ Len(t) >= 1 /\ t[1] \in Nat /\ t[1] + (Len(t) - 1) <= n + 1
  BY <1>1, SpreadEnds
<1>3. Within(t, now - (n + 1), now - Len(t))
  BY <1>1, <1>2 DEF Within, Missing
<1> QED
  BY <1>1, <1>3 DEF t

(* A later frame takes nothing from it. *)
LEMMA WithinGrows ==
    ASSUME NEW s \in Seq(Nat), s # <<>>, NEW n \in Nat, UpTo(s, n), Spread(s),
           NEW w \in Nat, NEW t \in Int, Within(s, w, t)
    PROVE  Within(Append(s, n + 1), w, t)
<1> DEFINE r == Append(s, n + 1)
<1>1. /\ Len(r) = Len(s) + 1 /\ r[Len(s) + 1] = n + 1 /\ r[1] = s[1]
      /\ Len(s) \in Nat /\ Len(s) \in DOMAIN s
  OBVIOUS
<1>2. s[1] \in Nat /\ s[Len(s)] \in Nat /\ s[Len(s)] <= n
  BY <1>1, SpreadEnds DEF UpTo
<1>4. r[Len(r)] = n + 1
  BY <1>1
<1> HIDE DEF r
<1>5. PICK b \in Nat, l \in Nat, k \in Nat : b = s[1] /\ l = s[Len(s)] /\ k = Len(s)
  BY <1>1, <1>2
<1>6. b - 1 <= t /\ t <= b - 1 + w + (l - b + 1 - k) /\ l <= n
  BY <1>2, <1>5 DEF Within, Missing
<1>7. Missing(r) = n + 1 - b + 1 - (k + 1)
  BY <1>1, <1>4, <1>5 DEF Missing
<1>8. b - 1 <= t /\ t <= b - 1 + w + (n + 1 - b + 1 - (k + 1))
  <2>1. l - b + 1 - k <= n + 1 - b + 1 - (k + 1)
    BY <1>6
  <2>2. PICK x \in Int, y \in Int : x = l - b + 1 - k /\ y = n + 1 - b + 1 - (k + 1)
    OBVIOUS
  <2>3. t <= b - 1 + w + x /\ x <= y
    BY <1>6, <2>1, <2>2
  <2>4. b - 1 + w + x <= b - 1 + w + y
    BY <2>3
  <2>5. t <= b - 1 + w + y
    BY <2>3, <2>4
  <2> QED
    BY <1>6, <2>2, <2>5
<1>3. Within(r, w, t)
  BY <1>1, <1>5, <1>7, <1>8 DEF Within
<1> QED
  BY <1>3 DEF r

(* On the session's timeline, of the start that was noted ... *)
LEMMA NotedFits ==
    ASSUME NEW r \in Recordings, r.frames # <<>>, Spread(r.frames), NEW o \in Nat, NEW t \in Int,
           Within(r.frames, r.waited, t)
    PROVE  NotBefore(r, o, Since(o, t)) /\ NotLater(r, o, Since(o, t))
<1>1. r.frames \in Seq(Nat) /\ r.waited \in Nat
  BY DEF Recordings
<1>2. PICK b \in Nat : b = r.frames[1]
  BY <1>1, SpreadEnds
<1>3. Missing(r.frames) \in Nat
  BY <1>1, SpreadEnds DEF Missing
<1>4. PICK m \in Nat : m = Missing(r.frames)
  BY <1>3
<1>5. b - 1 <= t /\ t <= b - 1 + r.waited + m
  BY <1>2, <1>4 DEF Within
<1>6. Begins(o, r) = Since(o, b - 1)
  BY <1>2 DEF Begins
<1>7. Since(o, b - 1) <= Since(o, t) /\ Since(o, t) <= Since(o, b - 1) + r.waited + m
  BY <1>1, <1>5 DEF Since
<1> QED
  BY <1>4, <1>6, <1>7 DEF NotBefore, NotLater

(* ... and of the arrival of the answer, less the duration. *)
LEMMA ArrivalFits ==
    ASSUME NEW r \in Recordings, NEW n \in Nat, Sound(r, n), NEW o \in Nat,
           NEW now \in Int, now >= n
    PROVE  NotBefore(r, o, Since(o, now - Len(r.frames)))
<1>1. r.frames \in Seq(Nat) /\ r.frames # <<>>
  BY DEF Recordings, Sound
<1>2. /\ Len(r.frames) \in Nat /\ Len(r.frames) >= 1 /\ r.frames[1] \in Nat
      /\ r.frames[Len(r.frames)] \in Nat
      /\ r.frames[1] + (Len(r.frames) - 1) <= r.frames[Len(r.frames)]
  BY <1>1, SpreadEnds DEF Sound
<1>3. r.frames[Len(r.frames)] <= n
  <2>1. Len(r.frames) \in DOMAIN r.frames
    BY <1>1
  <2> QED
    BY <1>2, <2>1 DEF Sound, UpTo
<1>4. PICK b \in Nat : b = r.frames[1]
  BY <1>2
<1>5. PICK l \in Nat : l = Len(r.frames)
  BY <1>2
<1>6. b - 1 <= now - l
  BY <1>2, <1>3, <1>4, <1>5
<1>7. Since(o, b - 1) <= Since(o, now - l)
  BY <1>6 DEF Since
<1> QED
  BY <1>4, <1>5, <1>7 DEF NotBefore, Begins

LEMMA SoundGrows ==
    ASSUME NEW r \in Recordings, NEW n \in Nat, Sound(r, n)
    PROVE  Sound(r, n + 1)
BY UpToGrows DEF Sound, Recordings

LEMMA StartTypePreserved ==
    ASSUME VoiceType, StartType, [Next]_vars
    PROVE  StartType'
<1>1. CASE SpeechStarts
  <2>1. /\ origin' = origin
        /\ \/ UNCHANGED startVars
           \/ \E now \in Moments(frame + 1) :
                  startedAt' = now - (Len(preRoll) + 1) /\ waited' = now - (frame + 1)
    BY <1>1 DEF SpeechStarts, StartNoted
  <2>2. Len(preRoll) \in Nat /\ Moments(frame + 1) \subseteq Nat
        /\ \A now \in Moments(frame + 1) : now >= frame + 1
    BY SpeechAssumption DEF VoiceType, Moments
  <2>3. CASE UNCHANGED startVars
    BY <2>1, <2>3 DEF startVars, StartType
  <2>4. CASE \E now \in Moments(frame + 1) :
                 startedAt' = now - (Len(preRoll) + 1) /\ waited' = now - (frame + 1)
    BY <2>1, <2>2, <2>4 DEF StartType, VoiceType
  <2> QED
    BY <2>1, <2>3, <2>4
<1>2. CASE \E resumed \in BOOLEAN : StartAgain(resumed)
  <2>1. PICK resumed \in BOOLEAN : StartAgain(resumed)
    BY <1>2
  <2>2. Moments(frame) \subseteq Nat
    BY SpeechAssumption DEF VoiceType, Moments
  <2> QED
    BY <2>1, <2>2 DEF StartAgain, StartType
<1>3. CASE UNCHANGED <<origin, startVars>>
  BY <1>3 DEF StartType, startVars
<1>4. ASSUME Step
      PROVE  \/ SpeechStarts \/ (\E resumed \in BOOLEAN : StartAgain(resumed))
             \/ UNCHANGED <<origin, startVars>>
  BY <1>4 DEF Step, Listens, SpeechEnds, VadFails, SendGivenUp, Sends, SendFails, AudioEnds,
     WorkerAnswers, WorkerRespawns, AnswerRead, EventNotAdmitted, ResultDropped, ResultEmitted,
     HeadlessIgnores, HeadlessDrops, HeadlessEmits, EventsEnd, Cancel, Close, Closing, Files,
     Completes, HeadlessCompletes, Receives, voiceVars
<1> QED
  BY <1>1, <1>2, <1>3, <1>4 DEF Next, vars, voiceVars

LEMMA SpeechStartsStart ==
    ASSUME VoiceType, VoiceInv, StartType, StartInv, SpeechStarts, program' = program
    PROVE  StartInv'
<1>1. /\ utterance' = Append(preRoll, frame + 1) /\ preRoll' = <<>> /\ frame' = frame + 1
      /\ UNCHANGED <<sequence, sent>>
  BY DEF SpeechStarts, Judged, Hears
<1>2. preRoll \in Seq(Nat) /\ frame \in Nat /\ UpTo(preRoll, frame) /\ Spread(preRoll)
  BY DEF VoiceType, VoiceInv, StartInv
<1>3. Spread(utterance') /\ Spread(preRoll')
  BY <1>1, <1>2, SpreadAppend, SpreadEmpty
<1>4. ASSUME program = "desktop"
      PROVE  utterance' # <<>> /\ Within(utterance', waited', startedAt')
  <2>1. PICK now \in Moments(frame + 1) :
            startedAt' = now - (Len(preRoll) + 1) /\ waited' = now - (frame + 1)
    BY <1>4 DEF SpeechStarts, StartNoted
  <2>2. now \in Int /\ now >= frame + 1
    BY <1>2, SpeechAssumption DEF Moments
  <2>3. Within(utterance', waited', startedAt')
    BY <1>1, <1>2, <2>1, <2>2, WithinStarts
  <2>4. utterance' # <<>>
    BY <1>1, <1>2
  <2> QED
    BY <2>3, <2>4
<1>5. \A u \in 1 .. sequence' : Sound(sent'[u], frame')
  BY <1>1, SoundGrows DEF VoiceType, StartInv
<1> QED
  BY <1>3, <1>4, <1>5 DEF StartInv

LEMMA ListensStart ==
    ASSUME VoiceType, VoiceInv, StartType, StartInv, NEW speech \in BOOLEAN, Listens(speech),
           program' = program
    PROVE  StartInv'
<1>1. /\ frame' = frame + 1 /\ speaking' = speaking
      /\ UNCHANGED <<sequence, sent, startedAt, waited>>
  BY DEF Listens, Judged, Hears, startVars
<1>2. \A u \in 1 .. sequence' : Sound(sent'[u], frame')
  BY <1>1, SoundGrows DEF VoiceType, StartInv
<1>3. CASE speaking
  <2>1. utterance' = Append(utterance, frame + 1) /\ preRoll' = preRoll
    BY <1>3 DEF Listens
  <2>2. utterance \in Seq(Nat) /\ frame \in Nat /\ UpTo(utterance, frame) /\ Spread(utterance)
    BY DEF VoiceType, VoiceInv, StartInv
  <2>3. Spread(utterance') /\ utterance' # <<>> /\ Spread(preRoll')
    BY <2>1, <2>2, SpreadAppend DEF StartInv
  <2>4. ASSUME program = "desktop" PROVE Within(utterance', waited', startedAt')
    BY <1>1, <1>3, <2>1, <2>2, <2>4, WithinGrows DEF StartInv, StartType
  <2> QED
    BY <1>2, <2>3, <2>4 DEF StartInv
<1>4. CASE ~speaking
  <2> DEFINE kept == IF Len(preRoll) >= PreRollSize THEN Tail(preRoll) ELSE preRoll
  <2>1. utterance' = utterance /\ preRoll' = Append(kept, frame + 1)
    BY <1>4 DEF Listens
  <2>2. preRoll \in Seq(Nat) /\ frame \in Nat /\ UpTo(preRoll, frame) /\ Spread(preRoll)
    BY DEF VoiceType, VoiceInv, StartInv
  <2>3. kept \in Seq(Nat) /\ UpTo(kept, frame) /\ Spread(kept)
    <3>1. CASE Len(preRoll) >= PreRollSize
      <4>1. preRoll # <<>>
        BY <3>1, VadAssumption
      <4>2. Tail(preRoll) \in Seq(Nat) /\ UpTo(Tail(preRoll), frame)
        BY <2>2, <4>1, TailParts, EmptyParts DEF VoiceInv, VoiceType
      <4> QED
        BY <2>2, <3>1, <4>1, <4>2, SpreadTail
    <3>2. CASE ~(Len(preRoll) >= PreRollSize)
      BY <2>2, <3>2
    <3> QED
      BY <3>1, <3>2
  <2> HIDE DEF kept
  <2>4. Spread(preRoll')
    BY <2>1, <2>2, <2>3, SpreadAppend
  <2> QED
    BY <1>1, <1>2, <1>4, <2>1, <2>4 DEF StartInv
<1> QED
  BY <1>3, <1>4

(* What is sent fits the start that was noted. *)
LEMMA SpeechEndsStart ==
    ASSUME VoiceType, VoiceInv, StartType, StartInv, NEW speech \in BOOLEAN, SpeechEnds(speech)
    PROVE  LET whole == Append(utterance, frame + 1)
           IN  /\ whole \in Seq(Nat) /\ whole # <<>> /\ Spread(whole) /\ UpTo(whole, frame + 1)
               /\ program = "desktop" => Within(whole, waited, startedAt)
<1> DEFINE whole == Append(utterance, frame + 1)
<1>1. utterance \in Seq(Nat) /\ frame \in Nat /\ UpTo(utterance, frame) /\ Spread(utterance)
      /\ Rising(utterance) /\ speaking
  BY DEF VoiceType, VoiceInv, StartInv, SpeechEnds
<1>2. whole \in Seq(Nat) /\ whole # <<>> /\ UpTo(whole, frame + 1)
  BY <1>1, AppendParts
<1>3. Spread(whole)
  BY <1>1, SpreadAppend
<1>4. ASSUME program = "desktop" PROVE Within(whole, waited, startedAt)
  BY <1>1, <1>4, WithinGrows DEF StartInv, StartType
<1> QED
  BY <1>2, <1>3, <1>4

LEMMA StartPreserved ==
    ASSUME VoiceType, VoiceInv, StartType, StartInv, [Next]_vars
    PROVE  StartInv'
<1>1. CASE SpeechStarts /\ UNCHANGED program
  BY <1>1, SpeechStartsStart
<1>2. CASE UNCHANGED program /\ \E speech \in BOOLEAN : Listens(speech)
  BY <1>2, ListensStart
<1>3. ASSUME NEW speech \in BOOLEAN, SpeechEnds(speech) PROVE StartInv'
  <2> DEFINE whole == Append(utterance, frame + 1)
  <2>1. utterance' = <<>> /\ speaking' = FALSE /\ preRoll' = preRoll /\ frame' = frame + 1
    BY <1>3 DEF SpeechEnds, Judged, Hears
  <2>2. \A u \in 1 .. sequence : Sound(sent[u], frame + 1)
    BY SoundGrows DEF VoiceType, StartInv
  <2>3. /\ whole \in Seq(Nat) /\ whole # <<>> /\ Spread(whole) /\ UpTo(whole, frame + 1)
    BY <1>3, SpeechEndsStart
  <2>4. \/ /\ sequence' = sequence + 1
           /\ \A u \in 1 .. sequence : sent'[u] = sent[u]
           /\ sent'[sequence + 1].frames = whole
        \/ UNCHANGED <<sequence, sent>>
    BY <1>3, SpeechEndsSent
  <2> HIDE DEF whole
  <2>5. Len(whole) >= 1
    BY <2>3
  <2>6. sequence \in Nat
    BY DEF VoiceType
  <2>7. \A u \in 1 .. sequence' : Sound(sent'[u], frame')
    <3>1. CASE UNCHANGED <<sequence, sent>>
      BY <2>1, <2>2, <3>1
    <3>2. CASE /\ sequence' = sequence + 1
               /\ \A u \in 1 .. sequence : sent'[u] = sent[u]
               /\ sent'[sequence + 1].frames = whole
      <4>1. Sound(sent'[sequence + 1], frame + 1)
        BY <2>3, <2>5, <3>2 DEF Sound
      <4>2. \A u \in 1 .. sequence : Sound(sent'[u], frame + 1)
        BY <2>2, <3>2
      <4>3. \A u \in 1 .. sequence' : u = sequence + 1 \/ u \in 1 .. sequence
        BY <2>6, <3>2
      <4> QED
        BY <2>1, <4>1, <4>2, <4>3
    <3> QED
      BY <2>4, <3>1, <3>2
  <2> QED
    BY <2>1, <2>7, SpreadEmpty DEF StartInv
<1>4. CASE VadFails /\ UNCHANGED program
  <2>1. frame' = frame + 1
        /\ UNCHANGED <<preRoll, speaking, utterance, sequence, sent, startedAt, waited>>
    BY <1>4 DEF VadFails, Hears, startVars
  <2>2. \A u \in 1 .. sequence : Sound(sent[u], frame + 1)
    BY SoundGrows DEF VoiceType, StartInv
  <2> QED
    BY <1>4, <2>1, <2>2 DEF StartInv
<1>5. CASE \E resumed \in BOOLEAN : StartAgain(resumed)
  <2>1. preRoll' = <<>> /\ speaking' = FALSE /\ utterance' = <<>> /\ sequence' = 0
    BY <1>5 DEF StartAgain
  <2>2. 1 .. sequence' = {}
    BY <2>1
  <2> QED
    BY <2>1, <2>2, SpreadEmpty DEF StartInv
<1>6. CASE UNCHANGED <<program, voiceVars>>
  BY <1>6 DEF voiceVars, startVars, StartInv
<1>7. ASSUME Step PROVE SpeechStarts \/ (\E speech \in BOOLEAN : Listens(speech) \/ SpeechEnds(speech))
          \/ VadFails \/ (\E resumed \in BOOLEAN : StartAgain(resumed)) \/ UNCHANGED voiceVars
  BY <1>7 DEF Step, SendGivenUp, Sends, SendFails, AudioEnds, WorkerAnswers, WorkerRespawns,
     AnswerRead, EventNotAdmitted, ResultDropped, ResultEmitted, HeadlessIgnores,
     HeadlessDrops, HeadlessEmits, EventsEnd, Cancel, Close, Closing, Files, Completes,
     HeadlessCompletes, Receives
<1> QED
  BY <1>1, <1>2, <1>3, <1>4, <1>5, <1>6, <1>7 DEF Next, vars

(***************************************************************************)
(* The acoustic events.                                                    *)
(***************************************************************************)

LEMMA Parity ==
    ASSUME NEW n \in Nat
    PROVE  n % 2 \in {0, 1} /\ (n % 2 = 1 <=> (n + 1) % 2 = 0)
OBVIOUS

LEMMA OpenIsPaired ==
    ASSUME AcousticInv
    PROVE  AcousticPaired
<1>1. Len(acoustic) \in Nat
  BY DEF AcousticInv, OpenIsLast
<1> QED
  BY <1>1, Parity DEF AcousticInv, AcousticPaired, OpenIsLast, Pairs

LEMMA PairStarts ==
    ASSUME NEW s, OpenIsLast(0, s)
    PROVE  OpenIsLast(Len(s) + 1, Append(s, <<"start", Len(s) + 1>>))
<1> DEFINE n == Len(s)
           e == <<"start", n + 1>>
           t == Append(s, e)
<1>1. s \in Seq(Acoustics) /\ n \in Nat /\ e \in Acoustics
  BY DEF OpenIsLast, Acoustics
<1>2. /\ t \in Seq(Acoustics) /\ Len(t) = n + 1 /\ t[n + 1] = e
      /\ \A i \in 1 .. n : t[i] = s[i]
  BY <1>1
<1>3. n % 2 = 0 /\ (n + 1) % 2 = 1
  BY <1>1, Parity DEF OpenIsLast
<1>4. e[1] = "start"
  OBVIOUS
<1> HIDE DEF t, e
<1>5. Pairs(t)
  <2> SUFFICES ASSUME NEW i \in 1 .. n + 1
               PROVE  IF i % 2 = 1 THEN t[i][1] = "start" ELSE t[i] = <<"end", t[i - 1][2]>>
    BY <1>2 DEF Pairs
  <2>1. CASE i = n + 1
    BY <2>1, <1>2, <1>3, <1>4
  <2>2. CASE i \in 1 .. n
    <3>1. IF i % 2 = 1 THEN s[i][1] = "start" ELSE s[i] = <<"end", s[i - 1][2]>>
      BY <2>2 DEF OpenIsLast, Pairs
    <3>2. i % 2 # 1 => i - 1 \in 1 .. n
      BY <2>2, <1>1
    <3> QED
      BY <3>1, <3>2, <2>2, <1>2
  <2> QED
    BY <2>1, <2>2, <1>1
<1>6. n + 1 # 0 /\ n + 1 \in Nat
  BY <1>1
<1> QED
  BY <1>1, <1>2, <1>3, <1>5, <1>6 DEF OpenIsLast, e, t

LEMMA PairEnds ==
    ASSUME NEW a, a # 0, NEW s, OpenIsLast(a, s)
    PROVE  OpenIsLast(0, Append(s, <<"end", a>>))
<1> DEFINE n == Len(s)
           e == <<"end", a>>
           t == Append(s, e)
<1>0. s \in Seq(Acoustics) /\ a \in Nat
  BY DEF OpenIsLast
<1>1. s \in Seq(Acoustics) /\ n \in Nat /\ e \in Acoustics
  <2>1. n \in Nat
    BY <1>0
  <2>2. e \in Acoustics
    BY <1>0 DEF Acoustics
  <2> QED
    BY <1>0, <2>1, <2>2
<1>2. /\ t \in Seq(Acoustics) /\ Len(t) = n + 1 /\ t[n + 1] = e
      /\ \A i \in 1 .. n : t[i] = s[i]
  BY <1>1
<1>3. n % 2 = 1 /\ (n + 1) % 2 = 0 /\ n \in 1 .. n
  BY <1>1, Parity DEF OpenIsLast
<1>4. t[n] = <<"start", a>> /\ t[n][2] = a
  BY <1>2, <1>3 DEF OpenIsLast
<1> HIDE DEF t
<1>5. Pairs(t)
  <2> SUFFICES ASSUME NEW i \in 1 .. n + 1
               PROVE  IF i % 2 = 1 THEN t[i][1] = "start" ELSE t[i] = <<"end", t[i - 1][2]>>
    BY <1>2 DEF Pairs
  <2>1. CASE i = n + 1
    <3>1. i - 1 = n /\ i % 2 # 1
      BY <2>1, <1>1, <1>3
    <3> QED
      BY <2>1, <3>1, <1>2, <1>4
  <2>2. CASE i \in 1 .. n
    <3>1. IF i % 2 = 1 THEN s[i][1] = "start" ELSE s[i] = <<"end", s[i - 1][2]>>
      BY <2>2 DEF OpenIsLast, Pairs
    <3>2. i % 2 # 1 => i - 1 \in 1 .. n
      BY <2>2, <1>1
    <3> QED
      BY <3>1, <3>2, <2>2, <1>2
  <2> QED
    BY <2>1, <2>2, <1>1
<1> QED
  BY <1>1, <1>2, <1>3, <1>5 DEF OpenIsLast, t

LEMMA ObserveKeeps ==
    ASSUME OpenIsLast(active, acoustic), NEW transition, Observe(transition)
    PROVE  OpenIsLast(active, acoustic)' /\ (transition = "closed" => active' = 0)
<1>1. CASE transition = "start" /\ active = 0
  <2>1. /\ active' = Len(acoustic) + 1
        /\ acoustic' = Append(acoustic, <<"start", Len(acoustic) + 1>>)
    BY <1>1 DEF Observe
  <2>2. OpenIsLast(0, acoustic)
    BY <1>1
  <2> QED
    BY <1>1, <2>1, <2>2, PairStarts
<1>2. CASE transition \in {"silence", "limit", "closed"} /\ active # 0
  <2>1. active' = 0 /\ acoustic' = Append(acoustic, <<"end", active>>)
    BY <1>2 DEF Observe
  <2> QED
    BY <1>2, <2>1, PairEnds
<1>3. CASE ~(transition = "start" /\ active = 0)
           /\ ~(transition \in {"silence", "limit", "closed"} /\ active # 0)
  <2>1. active' = active /\ acoustic' = acoustic
    BY <1>3 DEF Observe, lifeVars
  <2> QED
    BY <1>3, <2>1
<1> QED
  BY <1>1, <1>2, <1>3

LEMMA AcousticPreserved ==
    ASSUME AcousticInv, [Next]_vars
    PROVE  AcousticInv'
<1>1. OpenIsLast(active, acoustic) /\ audio \in {"listening", "sending", "ended"}
      /\ (audio = "ended" => active = 0)
  BY DEF AcousticInv
<1>2. SUFFICES OpenIsLast(active, acoustic)' /\ audio' \in {"listening", "sending", "ended"}
               /\ (audio' = "ended" => active' = 0)
  BY DEF AcousticInv
<1>3. CASE SpeechStarts \/ \E speech \in BOOLEAN : Listens(speech) \/ SpeechEnds(speech)
  <2>1. \E speech \in BOOLEAN : Judged(speech)
    BY <1>3 DEF SpeechStarts, Listens, SpeechEnds
  <2>2. audio = "listening" /\ \E transition : Observe(transition)
    BY <2>1 DEF Judged, Hears
  <2>3. audio' \in {"listening", "sending"}
    BY <1>3, <2>2 DEF SpeechStarts, Listens, SpeechEnds
  <2> QED
    BY <1>1, <2>2, <2>3, ObserveKeeps
<1>4. CASE AudioEnds
  <2>1. audio' = "ended" /\ Observe("closed")
    BY <1>4 DEF AudioEnds
  <2> QED
    BY <1>1, <2>1, ObserveKeeps
<1>5. CASE \E resumed \in BOOLEAN : StartAgain(resumed)
  <2>1. active' = 0 /\ acoustic' = <<>> /\ audio' = "listening"
    BY <1>5 DEF StartAgain
  <2>2. OpenIsLast(0, <<>>)
    BY DEF OpenIsLast, Pairs
  <2> QED
    BY <2>1, <2>2
<1>6. CASE UNCHANGED lifeVars /\ (audio' = audio \/ audio' = "listening")
  BY <1>1, <1>6 DEF lifeVars
<1>7. ASSUME Step
      PROVE  \/ SpeechStarts \/ \E speech \in BOOLEAN : Listens(speech) \/ SpeechEnds(speech)
             \/ AudioEnds \/ \E resumed \in BOOLEAN : StartAgain(resumed)
             \/ UNCHANGED lifeVars /\ (audio' = audio \/ audio' = "listening")
  BY <1>7 DEF Step, VadFails, SendGivenUp, Sends, SendFails, WorkerAnswers, WorkerRespawns,
     AnswerRead, EventNotAdmitted, ResultDropped, ResultEmitted, HeadlessIgnores,
     HeadlessDrops, HeadlessEmits, EventsEnd, Cancel, Close, Closing, Files, Completes,
     HeadlessCompletes, Receives
<1> QED
  BY <1>3, <1>4, <1>5, <1>6, <1>7 DEF Next, vars, lifeVars

(***************************************************************************)
(* The numbers in the file.                                                *)
(***************************************************************************)

LEMMA NumberedEmit ==
    ASSUME NEW f \in Seq(Nat), NEW q \in Seq(Nat), NEW n \in Nat, Numbered(f, q, n)
    PROVE  Numbered(f, q, n + 1) /\ Numbered(f, Append(q, n + 1), n + 1)
<1>1. UpTo(f, n + 1) /\ UpTo(q, n + 1)
  BY UpToGrows DEF Numbered
<1>2. Rising(Append(q, n + 1)) /\ UpTo(Append(q, n + 1), n + 1)
  BY AppendParts DEF Numbered
<1>3. Below(f, Append(q, n + 1))
  BY BelowAppend DEF Numbered
<1> QED
  BY <1>1, <1>2, <1>3 DEF Numbered

LEMMA NumberedWrite ==
    ASSUME NEW f \in Seq(Nat), NEW q \in Seq(Nat), NEW n \in Nat, Numbered(f, q, n), q # <<>>
    PROVE  /\ Head(q) \in Nat /\ Tail(q) \in Seq(Nat) /\ Len(Tail(q)) = Len(q) - 1
           /\ Numbered(f, Tail(q), n) /\ Numbered(Append(f, Head(q)), Tail(q), n)
<1>1. /\ Tail(q) \in Seq(Nat) /\ Len(Tail(q)) = Len(q) - 1
      /\ Rising(Tail(q)) /\ UpTo(Tail(q), n) /\ Below(f, Tail(q))
  BY TailParts DEF Numbered
<1> DEFINE h == Head(q)
           g == Append(f, h)
<1>2. /\ h = q[1] /\ 1 \in DOMAIN q /\ h \in Nat
      /\ \A i \in DOMAIN Tail(q) : Tail(q)[i] = q[i + 1] /\ i + 1 \in DOMAIN q /\ 1 < i + 1
  OBVIOUS
<1>3. /\ \A i \in DOMAIN f : f[i] < h
      /\ \A i \in DOMAIN Tail(q) : h < Tail(q)[i]
  BY <1>2 DEF Numbered, Below, Rising
<1>4. h \in 1 .. n
  BY <1>2 DEF Numbered, UpTo
<1>5. /\ g \in Seq(Nat) /\ DOMAIN g = 1 .. Len(f) + 1 /\ g[Len(f) + 1] = h
      /\ DOMAIN f = 1 .. Len(f) /\ Len(f) \in Nat
      /\ \A i \in DOMAIN f : g[i] = f[i]
  BY <1>2
<1> HIDE DEF h, g
<1>6. Rising(g)
  <2> SUFFICES ASSUME NEW i \in DOMAIN g, NEW j \in DOMAIN g, i < j
               PROVE  g[i] < g[j]
    BY DEF Rising
  <2>1. i \in DOMAIN f /\ (j \in DOMAIN f \/ j = Len(f) + 1)
    BY <1>5
  <2> QED
    BY <2>1, <1>3, <1>5 DEF Numbered, Rising
<1>7. UpTo(g, n)
  <2> SUFFICES ASSUME NEW i \in DOMAIN g
               PROVE  g[i] \in 1 .. n
    BY DEF UpTo
  <2>1. \A k \in DOMAIN f : f[k] \in 1 .. n
    BY DEF Numbered, UpTo
  <2>2. i \in DOMAIN f \/ i = Len(f) + 1
    BY <1>5
  <2> QED
    BY <1>4, <1>5, <2>1, <2>2
<1>8. Below(g, Tail(q))
  <2> SUFFICES ASSUME NEW i \in DOMAIN g, NEW j \in DOMAIN Tail(q)
               PROVE  g[i] < Tail(q)[j]
    BY DEF Below
  <2>1. CASE i \in DOMAIN f
    BY <2>1, <1>1, <1>5 DEF Below
  <2>2. CASE i = Len(f) + 1
    BY <2>2, <1>3, <1>5
  <2> QED
    BY <2>1, <2>2, <1>5
<1> QED
  BY <1>1, <1>2, <1>6, <1>7, <1>8 DEF Numbered, g, h

(* A restart goes on from the number of the last cue in the file. *)
LEMMA NumberedResumed ==
    ASSUME NEW f \in [Sinks -> Seq(Nat)], NEW n \in Nat, Rising(f["vtt"]), UpTo(f["vtt"], n)
    PROVE  LastCue(f) \in Nat /\ Numbered(f["vtt"], <<>>, LastCue(f))
<1> DEFINE s == f["vtt"]
<1>1. s \in Seq(Nat)
  BY DEF Sinks
<1> HIDE DEF s
<1>2. CASE s = <<>>
  <2>1. LastCue(f) = 0
    BY <1>2 DEF LastCue, s
  <2>2. Numbered(<<>>, <<>>, 0)
    BY EmptyParts, VoiceBegins DEF Numbered
  <2> QED
    BY <1>2, <2>1, <2>2 DEF s
<1>3. CASE s # <<>>
  <2>1. LastCue(f) = s[Len(s)]
    BY <1>3 DEF LastCue, s
  <2>2. /\ DOMAIN s = 1 .. Len(s) /\ Len(s) \in DOMAIN s /\ s[Len(s)] \in Nat
    BY <1>1, <1>3
  <2>3. UpTo(s, s[Len(s)])
    <3> SUFFICES ASSUME NEW i \in DOMAIN s
                 PROVE  s[i] \in 1 .. s[Len(s)]
      BY DEF UpTo
    <3>1. s[i] \in 1 .. n
      BY DEF UpTo, s
    <3>2. CASE i = Len(s)
      BY <3>1, <3>2
    <3>3. CASE i < Len(s)
      <4>1. s[i] < s[Len(s)]
        BY <2>2, <3>3 DEF Rising, s
      <4> QED
        BY <2>2, <3>1, <4>1
    <3> QED
      BY <2>2, <3>2, <3>3
  <2>4. Rising(<<>>) /\ UpTo(<<>>, s[Len(s)]) /\ Below(s, <<>>)
    BY <1>1, <2>2, EmptyParts
  <2> QED
    BY <2>1, <2>2, <2>3, <2>4 DEF Numbered, s
<1> QED
  BY <1>2, <1>3

LEMMA EmitNumbers ==
    ASSUME FilesType, NumbersInv, ResultEmitted
    PROVE  FilesType' /\ NumbersInv'
<1> USE DEF FilesType, Sinks
<1>1. /\ counter' = counter + 1 /\ events = "running" /\ closing = "no"
      /\ leftover' = leftover /\ file' = file /\ closing' = closing /\ at' = at
      /\ overran' = overran /\ events' = events
  BY DEF ResultEmitted, Completes, Receives, Emit, NumbersInv, closeVars
<1>2. \A s \in Sinks :
          \/ queue'[s] = queue[s] /\ pending'[s] = pending[s]
          \/ queue'[s] = Append(queue[s], counter + 1) /\ pending'[s] = pending[s] + 1
  BY DEF ResultEmitted, Emit
<1>3. /\ queue' = [s \in Sinks |-> queue'[s]] /\ pending' = [s \in Sinks |-> pending'[s]]
  BY DEF ResultEmitted, Emit
<1>4. \A s \in Sinks : /\ queue'[s] \in Seq(Nat) /\ pending'[s] \in Nat
                       /\ pending'[s] = Len(queue'[s])
  <2> TAKE s \in Sinks
  <2>1. queue[s] \in Seq(Nat) /\ pending[s] = Len(queue[s]) /\ pending[s] \in Nat
    BY DEF NumbersInv
  <2>2. /\ Append(queue[s], counter + 1) \in Seq(Nat)
        /\ Len(Append(queue[s], counter + 1)) = Len(queue[s]) + 1
    BY <2>1
  <2>3. CASE queue'[s] = queue[s] /\ pending'[s] = pending[s]
    BY <2>1, <2>3
  <2>4. CASE queue'[s] = Append(queue[s], counter + 1) /\ pending'[s] = pending[s] + 1
    <3>1. pending'[s] \in Nat
      BY <2>1, <2>4
    <3> QED
      BY <2>1, <2>2, <2>4, <3>1
  <2> QED
    BY <1>2, <2>3, <2>4
<1>5. queue' \in [Sinks -> Seq(Nat)] /\ pending' \in [Sinks -> Nat]
  BY <1>3, <1>4
<1>6. ~overran => Numbered(file["vtt"], queue'["vtt"], counter + 1)
  <2>1. \/ queue'["vtt"] = queue["vtt"]
        \/ queue'["vtt"] = Append(queue["vtt"], counter + 1)
    BY <1>2
  <2>2. file["vtt"] \in Seq(Nat) /\ queue["vtt"] \in Seq(Nat)
    OBVIOUS
  <2>3. ~overran => /\ Numbered(file["vtt"], queue["vtt"], counter + 1)
                    /\ Numbered(file["vtt"], Append(queue["vtt"], counter + 1), counter + 1)
    BY <2>2, NumberedEmit DEF NumbersInv
  <2> QED
    BY <2>1, <2>3
<1> QED
  BY <1>1, <1>4, <1>5, <1>6 DEF NumbersInv

LEMMA WritesNumbers ==
    ASSUME FilesType, NumbersInv, NEW w \in Sinks, Writes(w),
           UNCHANGED <<counter, events>>
    PROVE  FilesType' /\ NumbersInv'
<1> USE DEF FilesType, Sinks
<1>1. /\ queue[w] \in Seq(Nat) /\ queue[w] # <<>> /\ file[w] \in Seq(Nat)
      /\ leftover' = leftover /\ closing' = closing /\ at' = at /\ overran' = overran
  BY DEF Writes, closeVars
<1>2. /\ Tail(queue[w]) \in Seq(Nat) /\ Len(Tail(queue[w])) = Len(queue[w]) - 1
      /\ Head(queue[w]) \in Nat /\ Len(queue[w]) \in Nat /\ Len(queue[w]) > 0
      /\ Append(file[w], Head(queue[w])) \in Seq(Nat)
  BY <1>1
<1>3. /\ queue' = [queue EXCEPT ![w] = Tail(queue[w])]
      /\ pending' = [pending EXCEPT ![w] = pending[w] - 1]
      /\ file' = file \/ file' = [file EXCEPT ![w] = Append(file[w], Head(queue[w]))]
  BY DEF Writes
<1>4. pending[w] = Len(queue[w])
  BY DEF NumbersInv
<1>5. /\ queue' \in [Sinks -> Seq(Nat)] /\ pending' \in [Sinks -> Nat]
      /\ file' \in [Sinks -> Seq(Nat)]
  <2>1. queue' \in [Sinks -> Seq(Nat)] /\ pending' \in [Sinks -> Nat]
    BY <1>2, <1>3, <1>4
  <2>2. [file EXCEPT ![w] = Append(file[w], Head(queue[w]))] \in [Sinks -> Seq(Nat)]
    BY <1>2
  <2> QED
    BY <1>3, <2>1, <2>2
<1>6. \A s \in Sinks : pending'[s] = Len(queue'[s])
  BY <1>2, <1>3, <1>4 DEF NumbersInv
<1>7. CASE w = "jsonl"
  <2>1. queue'["vtt"] = queue["vtt"] /\ file'["vtt"] = file["vtt"]
    BY <1>3, <1>7
  <2> QED
    BY <1>1, <1>5, <1>6, <2>1 DEF NumbersInv
<1>8. CASE w = "vtt"
  <2>1. /\ queue'["vtt"] = Tail(queue["vtt"])
        /\ \/ file'["vtt"] = file["vtt"]
           \/ file'["vtt"] = Append(file["vtt"], Head(queue["vtt"]))
    BY <1>3, <1>8
  <2>2. ~overran => Numbered(file'["vtt"], queue'["vtt"], counter)
    <3>1. /\ file["vtt"] \in Seq(Nat) /\ queue["vtt"] \in Seq(Nat) /\ queue["vtt"] # <<>>
          /\ ~overran => Numbered(file["vtt"], queue["vtt"], counter)
      BY <1>1, <1>8 DEF NumbersInv
    <3>2. ~overran =>
              /\ Numbered(file["vtt"], Tail(queue["vtt"]), counter)
              /\ Numbered(Append(file["vtt"], Head(queue["vtt"])), Tail(queue["vtt"]), counter)
      BY <3>1, NumberedWrite
    <3> QED
      BY <2>1, <3>2
  <2> QED
    BY <1>1, <1>5, <1>6, <1>8, <2>2 DEF NumbersInv
<1> QED
  BY <1>7, <1>8

LEMMA LeftoverNumbers ==
    ASSUME FilesType, NumbersInv, NEW w \in Sinks, WritesLeftover(w),
           UNCHANGED <<counter, events>>
    PROVE  FilesType' /\ NumbersInv'
<1> USE DEF FilesType, Sinks
<1>1. /\ queue' = queue /\ pending' = pending
      /\ closing' = closing /\ at' = at /\ overran' = overran
      /\ leftover[w] # <<>> /\ leftover[w] \in Seq(Nat) /\ file[w] \in Seq(Nat)
  BY DEF WritesLeftover, closeVars
<1>2. /\ file' = [file EXCEPT ![w] = Append(file[w], Head(leftover[w]))]
      /\ leftover' = [leftover EXCEPT ![w] = Tail(leftover[w])]
  BY DEF WritesLeftover
<1>3. /\ Append(file[w], Head(leftover[w])) \in Seq(Nat) /\ Tail(leftover[w]) \in Seq(Nat)
  BY <1>1
<1>4. file' \in [Sinks -> Seq(Nat)] /\ leftover' \in [Sinks -> Seq(Nat)]
  BY <1>2, <1>3
<1>5. ~overran => w = "jsonl"
  BY <1>1 DEF NumbersInv
<1>6. ~overran => file'["vtt"] = file["vtt"] /\ leftover'["vtt"] = leftover["vtt"]
  BY <1>2, <1>5
<1> QED
  BY <1>1, <1>4, <1>6 DEF NumbersInv

LEMMA NextSinkSteps ==
    ASSUME at \in {1, 2}, NEW e, NextSink(e)
    PROVE  \/ at = 1 /\ closing' = "drain" /\ at' = 2
           \/ at = 2 /\ closing' = "done" /\ at' = 2
<1>1. Len(Order) = 2
  BY DEF Order
<1>2. CASE at = 1
  <2>1. at < Len(Order)
    BY <1>1, <1>2
  <2>2. closing' = "drain"
    BY <2>1 DEF NextSink
  <2>3. at' = at + 1
    BY <2>1 DEF NextSink
  <2>4. at + 1 = 2
    BY <1>2
  <2> QED
    BY <1>2, <2>2, <2>3, <2>4
<1>3. CASE at = 2
  <2>1. ~(at < Len(Order))
    BY <1>1, <1>3
  <2>2. closing' = "done"
    BY <2>1 DEF NextSink
  <2>3. at' = at
    BY <2>1 DEF NextSink
  <2> QED
    BY <1>3, <2>2, <2>3
<1> QED
  BY <1>2, <1>3

LEMMA ClosingNumbers ==
    ASSUME FilesType, NumbersInv, CloseStep, UNCHANGED <<counter, events>>
    PROVE  FilesType' /\ NumbersInv'
<1> USE DEF FilesType
<1>1. /\ UNCHANGED sinkVars /\ closing # "no" /\ events = "ended"
  BY DEF CloseStep, Drained, DrainTimesOut, StatsRead, NumbersInv
<1>2. /\ queue' = queue /\ leftover' = leftover /\ file' = file /\ pending' = pending
  BY <1>1 DEF sinkVars
<1>3. Order[1] = "jsonl" /\ Order[2] = "vtt" /\ Len(Order) = 2
  BY DEF Order
<1>4. CASE Drained
  <2>1. /\ closing' = "stats" /\ at' = at /\ overran' = overran
        /\ at = 2 => pending["vtt"] = 0
    BY <1>3, <1>4 DEF Drained
  <2>2. queue["vtt"] \in Seq(Nat) /\ pending["vtt"] = Len(queue["vtt"])
    BY DEF NumbersInv, Sinks
  <2>3. at = 2 => queue["vtt"] = <<>>
    BY <2>1, <2>2
  <2> QED
    BY <1>1, <1>2, <2>1, <2>3 DEF NumbersInv
<1>5. CASE DrainTimesOut
  <2>1. overran' = TRUE
    BY <1>5 DEF DrainTimesOut
  <2>2. closing' \in {"drain", "done"} /\ at' \in {1, 2}
    BY <1>5, NextSinkSteps DEF DrainTimesOut
  <2> QED
    BY <1>1, <1>2, <2>1, <2>2 DEF NumbersInv
<1>6. CASE StatsRead
  <2>1. /\ closing = "stats" /\ overran' = overran
        /\ \/ at = 1 /\ closing' = "drain" /\ at' = 2
           \/ at = 2 /\ closing' = "done" /\ at' = 2
    BY <1>6, NextSinkSteps DEF StatsRead
  <2> QED
    BY <1>1, <1>2, <2>1 DEF NumbersInv
<1> QED
  BY <1>4, <1>5, <1>6 DEF CloseStep

LEMMA RestartNumbers ==
    ASSUME FilesType, NumbersInv, NEW resumed \in BOOLEAN, StartAgain(resumed)
    PROVE  FilesType' /\ NumbersInv'
<1> USE DEF FilesType
<1>1. /\ queue' = NoCue /\ pending' = Zero /\ closing' = "no" /\ at' = 1
      /\ closing = "done" /\ overran' = (resumed /\ overran)
  BY DEF StartAgain, SinksReopened
<1>2. /\ NoCue \in [Sinks -> Seq(Nat)] /\ Zero \in [Sinks -> Nat]
      /\ \A s \in Sinks : NoCue[s] = <<>> /\ Zero[s] = 0 /\ Len(NoCue[s]) = 0
      /\ NoCue["vtt"] = <<>>
  BY DEF NoCue, Zero, Sinks
<1>3. CASE resumed
  <2>1. /\ leftover' = queue /\ file' = file /\ overran' = overran /\ counter' = LastCue(file)
    BY <1>1, <1>3 DEF StartAgain, SinksReopened
  <2>2. LastCue(file) \in Nat
    <3>1. file["vtt"] \in Seq(Nat)
      BY DEF Sinks
    <3> QED
      BY <3>1 DEF LastCue
  <2>3. ~overran => /\ queue["vtt"] = <<>>
                    /\ Numbered(file["vtt"], <<>>, LastCue(file))
    BY <1>1, NumberedResumed DEF NumbersInv, Numbered
  <2> QED
    BY <1>1, <1>2, <2>1, <2>2, <2>3 DEF NumbersInv
<1>4. CASE ~resumed
  <2>1. leftover' = NoCue /\ file' = NoCue /\ overran' = FALSE /\ counter' = 0
    BY <1>1, <1>4 DEF StartAgain, SinksReopened
  <2>2. Numbered(<<>>, <<>>, 0)
    BY EmptyParts, VoiceBegins DEF Numbered
  <2> QED
    BY <1>1, <1>2, <2>1, <2>2 DEF NumbersInv
<1> QED
  BY <1>3, <1>4

LEMMA NumbersPreserved ==
    ASSUME FilesType, NumbersInv, [Next]_vars
    PROVE  FilesType' /\ NumbersInv'
<1>1. CASE ResultEmitted
  BY <1>1, EmitNumbers
<1>2. CASE Files
  <2>1. UNCHANGED <<counter, events>>
    BY <1>2 DEF Files, eventVars
  <2>2. CASE \E s \in Sinks : Counts(s)
    <3>1. UNCHANGED <<queue, pending, leftover, file, closing, at, overran>>
      BY <2>2 DEF Counts, closeVars
    <3> QED
      BY <2>1, <3>1 DEF FilesType, NumbersInv
  <2> QED
    BY <1>2, <2>1, <2>2, WritesNumbers, LeftoverNumbers DEF Files, FileStep
<1>3. CASE Closing
  BY <1>3, ClosingNumbers DEF Closing, eventVars
<1>4. CASE Close
  <2>1. /\ closing = "no" /\ closing' = "drain" /\ events = "ended"
        /\ UNCHANGED <<queue, pending, leftover, file, at, overran, counter, events>>
    BY <1>4 DEF Close, CloseBegins, sinkVars, eventVars
  <2> QED
    BY <2>1 DEF FilesType, NumbersInv
<1>5. CASE \E resumed \in BOOLEAN : StartAgain(resumed)
  BY <1>5, RestartNumbers
<1>6. CASE /\ UNCHANGED <<queue, pending, leftover, file, closing, at, overran, counter>>
           /\ events' = events \/ events' = "ended"
  BY <1>6 DEF FilesType, NumbersInv
<1>7. ASSUME Step
      PROVE  \/ ResultEmitted \/ Files \/ Closing \/ Close
             \/ \E resumed \in BOOLEAN : StartAgain(resumed)
             \/ /\ UNCHANGED <<queue, pending, leftover, file, closing, at, overran, counter>>
                /\ events' = events \/ events' = "ended"
  BY <1>7 DEF Step, VadFails, SpeechStarts, Listens, SpeechEnds, Judged, SendGivenUp, Sends,
     SendFails, AudioEnds, WorkerAnswers, WorkerRespawns,
     AnswerRead, EventNotAdmitted, ResultDropped, HeadlessIgnores,
     HeadlessDrops, HeadlessEmits, EventsEnd, Cancel, Completes,
     HeadlessCompletes, Receives, eventVars, sinkVars, closeVars, fileVars
<1> QED
  BY <1>1, <1>2, <1>3, <1>4, <1>5, <1>6, <1>7
     DEF Next, vars, eventVars, sinkVars, closeVars, fileVars

(***************************************************************************)
(* The tracker.                                                            *)
(***************************************************************************)

LEMMA RemoveAtIs ==
    ASSUME NEW S, NEW s \in Seq(S), NEW i \in DOMAIN s
    PROVE  /\ RemoveAt(s, i) \in Seq(S) /\ DOMAIN RemoveAt(s, i) = 1 .. Len(s) - 1
           /\ \A k \in 1 .. Len(s) - 1 :
                  RemoveAt(s, i)[k] = IF k < i THEN s[k] ELSE s[k + 1]
<1> DEFINE a == SubSeq(s, 1, i - 1)
           b == SubSeq(s, i + 1, Len(s))
<1>0. Len(s) \in Nat /\ DOMAIN s = 1 .. Len(s) /\ i \in 1 .. Len(s)
  OBVIOUS
<1>1. a \in Seq(S) /\ Len(a) = i - 1 /\ \A k \in 1 .. i - 1 : a[k] = s[k]
  BY <1>0
<1>2. b \in Seq(S) /\ Len(b) = Len(s) - i /\ \A k \in 1 .. Len(s) - i : b[k] = s[i + k]
  BY <1>0
<1>3. RemoveAt(s, i) = a \o b
  BY DEF RemoveAt
<1> HIDE DEF a, b
<1>4. /\ a \o b \in Seq(S) /\ Len(a \o b) = Len(s) - 1
      /\ \A k \in 1 .. Len(s) - 1 : (a \o b)[k] = IF k <= i - 1 THEN a[k] ELSE b[k - (i - 1)]
  <2>1. a \o b \in Seq(S) /\ Len(a \o b) = Len(a) + Len(b)
    BY <1>1, <1>2, ConcatProperties
  <2>2. Len(a) + Len(b) = Len(s) - 1
    BY <1>0, <1>1, <1>2
  <2>3. \A k \in 1 .. Len(a) + Len(b) :
            (a \o b)[k] = IF k <= Len(a) THEN a[k] ELSE b[k - Len(a)]
    BY <1>1, <1>2, ConcatProperties
  <2> QED
    BY <1>1, <2>1, <2>2, <2>3
<1>5. ASSUME NEW k \in 1 .. Len(s) - 1
      PROVE  (a \o b)[k] = IF k < i THEN s[k] ELSE s[k + 1]
  <2>1. CASE k < i
    BY <2>1, <1>0, <1>1, <1>4
  <2>2. CASE ~(k < i)
    <3>1. k - (i - 1) \in 1 .. Len(s) - i /\ i + (k - (i - 1)) = k + 1
      BY <2>2, <1>0
    <3>2. (a \o b)[k] = b[k - (i - 1)]
      BY <2>2, <1>0, <1>4
    <3> QED
      BY <2>2, <3>1, <3>2, <1>2
  <2> QED
    BY <2>1, <2>2
<1> QED
  BY <1>3, <1>4, <1>5

LEMMA RemoveFirstIs ==
    ASSUME NEW s \in Seq(Nat), Rising(s), NEW u
    PROVE  \/ u \notin Range(s) /\ RemoveFirst(s, u) = s
           \/ \E i \in DOMAIN s : s[i] = u /\ RemoveFirst(s, u) = RemoveAt(s, i)
<1>0. DOMAIN s = 1 .. Len(s) /\ \A i \in DOMAIN s : s[i] \in Nat
  OBVIOUS
<1>1. CASE \E i \in 1 .. Len(s) : s[i] = u
  <2>1. PICK i \in 1 .. Len(s) : s[i] = u
    BY <1>1
  <2>2. \A j \in 1 .. Len(s) : s[j] = u => j = i
    BY <1>0, <2>1 DEF Rising
  <2> DEFINE I == {j \in 1 .. Len(s) : s[j] = u}
  <2>3. I = {i}
    BY <2>1, <2>2
  <2>4. Min(I) = i
    BY <2>3 DEF Min
  <2>5. SelectInSeq(s, LAMBDA v : v = u) = Min(I)
    BY <2>3 DEF SelectInSeq
  <2>6. RemoveFirst(s, u) = RemoveAt(s, SelectInSeq(s, LAMBDA v : v = u))
    BY <1>1 DEF RemoveFirst
  <2> QED
    BY <1>0, <2>1, <2>4, <2>5, <2>6
<1>2. CASE ~\E i \in 1 .. Len(s) : s[i] = u
  BY <1>0, <1>2 DEF RemoveFirst, Range
<1> QED
  BY <1>1, <1>2

LEMMA RemovedFrom ==
    ASSUME NEW s \in Seq(Nat), Rising(s), NEW u
    PROVE  /\ RemoveFirst(s, u) \in Seq(Nat) /\ Rising(RemoveFirst(s, u))
           /\ Range(RemoveFirst(s, u)) = Range(s) \ {u}
<1>1. CASE u \notin Range(s) /\ RemoveFirst(s, u) = s
  BY <1>1
<1>2. CASE \E i \in DOMAIN s : s[i] = u /\ RemoveFirst(s, u) = RemoveAt(s, i)
  <2>1. PICK i \in DOMAIN s : s[i] = u /\ RemoveFirst(s, u) = RemoveAt(s, i)
    BY <1>2
  <2> DEFINE t == RemoveAt(s, i)
  <2>2. /\ t \in Seq(Nat) /\ DOMAIN t = 1 .. Len(s) - 1
        /\ \A k \in 1 .. Len(s) - 1 : t[k] = IF k < i THEN s[k] ELSE s[k + 1]
    BY RemoveAtIs
  <2>3. DOMAIN s = 1 .. Len(s) /\ Len(s) \in Nat /\ i \in 1 .. Len(s)
    OBVIOUS
  <2> HIDE DEF t
  <2>4. Rising(t)
    <3> SUFFICES ASSUME NEW j \in DOMAIN t, NEW k \in DOMAIN t, j < k
                 PROVE  t[j] < t[k]
      BY DEF Rising
    <3> DEFINE p == IF j < i THEN j ELSE j + 1
               q == IF k < i THEN k ELSE k + 1
    <3>0. j \in 1 .. Len(s) - 1 /\ k \in 1 .. Len(s) - 1
      BY <2>2
    <3>1. p \in DOMAIN s /\ q \in DOMAIN s /\ p < q
      <4>1. CASE j < i /\ k < i
        BY <3>0, <2>3, <4>1
      <4>2. CASE j < i /\ ~(k < i)
        BY <3>0, <2>3, <4>2
      <4>3. CASE ~(j < i)
        <5>1. ~(k < i)
          BY <3>0, <2>3, <4>3
        <5> QED
          BY <3>0, <2>3, <4>3, <5>1
      <4> QED
        BY <4>1, <4>2, <4>3
    <3>2. t[j] = s[p] /\ t[k] = s[q]
      BY <2>2
    <3> QED
      BY <3>1, <3>2 DEF Rising
  <2>5. ASSUME NEW k \in DOMAIN t
        PROVE  t[k] \in Range(s) \ {u}
    <3> DEFINE q == IF k < i THEN k ELSE k + 1
    <3>1. q \in DOMAIN s /\ q # i /\ t[k] = s[q]
      BY <2>2, <2>3
    <3>2. s[q] # s[i]
      BY <3>1, <2>3 DEF Rising
    <3> QED
      BY <3>1, <3>2, <2>1 DEF Range
  <2>6. ASSUME NEW j \in DOMAIN s, s[j] # u
        PROVE  s[j] \in Range(t)
    <3>1. CASE j < i
      <4>1. j \in DOMAIN t /\ t[j] = s[j]
        BY <3>1, <2>2, <2>3
      <4> QED
        BY <4>1 DEF Range
    <3>2. CASE j > i
      <4>1. j - 1 \in DOMAIN t /\ t[j - 1] = s[j]
        BY <3>2, <2>2, <2>3
      <4> QED
        BY <4>1 DEF Range
    <3> QED
      BY <3>1, <3>2, <2>1, <2>3, <2>6
  <2>7. Range(t) = Range(s) \ {u}
    BY <2>5, <2>6 DEF Range
  <2> QED
    BY <2>1, <2>2, <2>4, <2>7 DEF t
<1> QED
  BY <1>1, <1>2, RemoveFirstIs

(* The head of what rises is the least of it and is not met again. *)
LEMMA HeadIsLeast ==
    ASSUME NEW s \in Seq(Nat), Rising(s), s # <<>>
    PROVE  /\ Head(s) \in Nat /\ Head(s) \in Range(s) /\ \A u \in Range(s) : Head(s) <= u
           /\ Tail(s) \in Seq(Nat) /\ Rising(Tail(s)) /\ Range(Tail(s)) = Range(s) \ {Head(s)}
<1> DEFINE t == Tail(s)
           h == Head(s)
<1>1. /\ h \in Nat /\ h = s[1] /\ 1 \in DOMAIN s /\ DOMAIN s = 1 .. Len(s)
      /\ \A i \in DOMAIN s : s[i] \in Nat
      /\ t \in Seq(Nat) /\ DOMAIN t = 1 .. Len(s) - 1 /\ Len(s) \in Nat
      /\ \A i \in DOMAIN t : t[i] = s[i + 1] /\ i + 1 \in DOMAIN s /\ 1 < i + 1
  OBVIOUS
<1> HIDE DEF t, h
<1>2. \A i \in DOMAIN s : i # 1 => h < s[i]
  BY <1>1 DEF Rising
<1>3. h \in Range(s) /\ \A u \in Range(s) : h <= u
  <2>1. ASSUME NEW i \in DOMAIN s
        PROVE  h <= s[i]
    <3>1. CASE i = 1
      BY <1>1, <3>1
    <3>2. CASE i # 1
      <4>1. h < s[i] /\ s[i] \in Nat
        BY <1>1, <1>2, <3>2
      <4> QED
        BY <1>1, <4>1
    <3> QED
      BY <3>1, <3>2
  <2> QED
    BY <1>1, <2>1 DEF Range
<1>4. Rising(t)
  <2> SUFFICES ASSUME NEW i \in DOMAIN t, NEW j \in DOMAIN t, i < j
               PROVE  t[i] < t[j]
    BY DEF Rising
  <2>1. i + 1 \in DOMAIN s /\ j + 1 \in DOMAIN s /\ i + 1 < j + 1
    BY <1>1
  <2>2. s[i + 1] < s[j + 1]
    BY <2>1 DEF Rising
  <2> QED
    BY <2>2, <1>1
<1>5. ASSUME NEW i \in DOMAIN t
      PROVE  t[i] \in Range(s) \ {h}
  <2>1. i + 1 \in DOMAIN s /\ i + 1 # 1 /\ t[i] = s[i + 1]
    BY <1>1
  <2>2. h < s[i + 1] /\ s[i + 1] \in Nat
    BY <1>1, <1>2, <2>1
  <2>3. t[i] # h
    BY <1>1, <2>1, <2>2
  <2> QED
    BY <2>1, <2>3 DEF Range
<1>6. ASSUME NEW i \in DOMAIN s, s[i] # h
      PROVE  s[i] \in Range(t)
  <2>1. i - 1 \in DOMAIN t /\ t[i - 1] = s[i]
    BY <1>1, <1>6
  <2> QED
    BY <2>1 DEF Range
<1>7. Range(t) = Range(s) \ {h}
  BY <1>5, <1>6 DEF Range
<1> QED
  BY <1>1, <1>3, <1>4, <1>7 DEF t, h

(* What makes room has been followed by as many as the tracker holds. *)
LEMMA FullIsSpread ==
    ASSUME NEW D, NEW h \in Nat, NEW n \in Nat, D \subseteq h .. n,
           Cardinality(D) >= TrackerCap
    PROVE  n + 1 >= h + TrackerCap
<1>0. TrackerCap \in Nat /\ TrackerCap > 0
  BY SpeechAssumption
<1>1. IsFiniteSet(h .. n) /\ Cardinality(h .. n) = IF h > n THEN 0 ELSE n - h + 1
  BY FS_Interval
<1>2. IsFiniteSet(D) /\ Cardinality(D) <= Cardinality(h .. n) /\ Cardinality(D) \in Nat
  BY <1>1, FS_Subset, FS_CardinalityType
<1> QED
  BY <1>0, <1>1, <1>2

LEMMA Tracks ==
    ASSUME TrackType, TrackerInv, VoiceType, NEW began \in Nat, Track(sequence + 1, began)
    PROVE  /\ order' \in Seq(Nat) /\ Rising(order') /\ Range(order') = DOMAIN tracked'
           /\ DOMAIN tracked' \subseteq 1 .. sequence + 1
           /\ tracked' \in [DOMAIN tracked' -> Nat]
           /\ sequence + 1 \in DOMAIN tracked' /\ tracked'[sequence + 1] = began
           /\ \A v \in DOMAIN tracked' \ {sequence + 1} :
                  v \in DOMAIN tracked /\ tracked'[v] = tracked[v]
           /\ \A v \in DOMAIN tracked \ DOMAIN tracked' : sequence + 1 >= v + TrackerCap
<1> DEFINE full == Cardinality(DOMAIN tracked) >= TrackerCap
           kept == DOMAIN tracked \ (IF full THEN {Head(order)} ELSE {})
           rest == IF full THEN Tail(order) ELSE order
<1>0. /\ sequence \in Nat /\ order \in Seq(Nat) /\ Rising(order)
      /\ Range(order) = DOMAIN tracked /\ DOMAIN tracked \subseteq 1 .. sequence
      /\ tracked \in [DOMAIN tracked -> Nat]
  BY DEF VoiceType, TrackType, TrackerInv
<1>1. /\ order' = Append(rest, sequence + 1)
      /\ tracked' = [v \in kept \cup {sequence + 1} |->
                        IF v = sequence + 1 THEN began ELSE tracked[v]]
  BY DEF Track
<1>2. full => order # <<>>
  <2> SUFFICES ASSUME full, order = <<>>
               PROVE  FALSE
    OBVIOUS
  <2>1. DOMAIN tracked = {}
    BY <1>0, EmptyParts
  <2>2. Cardinality({}) = 0
    BY FS_EmptySet
  <2> QED
    BY <2>1, <2>2, SpeechAssumption
<1>3. /\ rest \in Seq(Nat) /\ Rising(rest) /\ Range(rest) = kept
  <2>1. CASE full
    BY <1>0, <1>2, <2>1, HeadIsLeast
  <2>2. CASE ~full
    BY <1>0, <2>2
  <2> QED
    BY <2>1, <2>2
<1>4. \A v \in DOMAIN tracked \ kept : sequence + 1 >= v + TrackerCap
  <2> SUFFICES ASSUME full
               PROVE  sequence + 1 >= Head(order) + TrackerCap
    OBVIOUS
  <2>1. Head(order) \in Nat /\ \A u \in DOMAIN tracked : Head(order) <= u
    BY <1>0, <1>2, HeadIsLeast
  <2>2. DOMAIN tracked \subseteq Head(order) .. sequence
    BY <1>0, <2>1
  <2> QED
    BY <1>0, <2>1, <2>2, FullIsSpread
<1>5. kept \subseteq DOMAIN tracked
  OBVIOUS
<1> HIDE DEF kept, rest, full
<1>6. UpTo(rest, sequence)
  BY <1>0, <1>3, <1>5 DEF UpTo, Range
<1>7. /\ order' \in Seq(Nat) /\ Rising(order') /\ Range(order') = kept \cup {sequence + 1}
  BY <1>0, <1>1, <1>3, <1>6, AppendParts
<1>8. DOMAIN tracked' = kept \cup {sequence + 1}
  BY <1>1
<1>9. DOMAIN tracked' \subseteq 1 .. sequence + 1
  BY <1>0, <1>5, <1>8
<1>10. sequence + 1 \notin DOMAIN tracked
  BY <1>0
<1>11. tracked'[sequence + 1] = began
  BY <1>1
<1>12. \A v \in DOMAIN tracked' \ {sequence + 1} : v \in DOMAIN tracked /\ tracked'[v] = tracked[v]
  BY <1>1, <1>5, <1>8
<1>13. tracked' \in [DOMAIN tracked' -> Nat]
  BY <1>0, <1>1, <1>5, <1>8
<1> QED
  BY <1>4, <1>7, <1>8, <1>9, <1>11, <1>12, <1>13

LEMMA Untracks ==
    ASSUME TrackType, TrackerInv, NEW u, Untrack(u), UNCHANGED <<program, origin, sequence, sent>>
    PROVE  /\ TrackerInv' /\ order' \in Seq(Nat) /\ DOMAIN tracked' = DOMAIN tracked \ {u}
           /\ tracked' \in [DOMAIN tracked' -> Nat]
<1>1. order' = RemoveFirst(order, u) /\ tracked' = [v \in DOMAIN tracked \ {u} |-> tracked[v]]
  BY DEF Untrack
<1>2. order \in Seq(Nat) /\ tracked \in [DOMAIN tracked -> Nat]
  BY DEF TrackType
<1>3. order' \in Seq(Nat) /\ Rising(order') /\ Range(order') = DOMAIN tracked \ {u}
  BY <1>1, <1>2, RemovedFrom DEF TrackerInv
<1>4. /\ DOMAIN tracked' = DOMAIN tracked \ {u}
      /\ \A v \in DOMAIN tracked \ {u} : tracked'[v] = tracked[v]
  BY <1>1
<1>5. tracked' \in [DOMAIN tracked' -> Nat]
  BY <1>1, <1>2
<1> QED
  BY <1>3, <1>4, <1>5 DEF TrackerInv

(***************************************************************************)
(* The way to the worker and back.                                         *)
(***************************************************************************)

LEMMA InboxAppend ==
    ASSUME NEW s \in Seq(Nat), NEW n \in Nat, Once(s), n \notin Range(s)
    PROVE  /\ Append(s, n) \in Seq(Nat) /\ Once(Append(s, n))
           /\ Range(Append(s, n)) = Range(s) \cup {n}
<1> DEFINE t == Append(s, n)
<1>1. /\ t \in Seq(Nat) /\ DOMAIN t = 1 .. Len(s) + 1 /\ t[Len(s) + 1] = n
      /\ DOMAIN s = 1 .. Len(s) /\ Len(s) \in Nat /\ \A i \in DOMAIN s : t[i] = s[i]
  OBVIOUS
<1> HIDE DEF t
<1>2. \A i \in DOMAIN t : i \in DOMAIN s \/ i = Len(s) + 1
  BY <1>1
<1>3. \A i \in DOMAIN s : s[i] # n
  BY DEF Range
<1>4. Once(t)
  BY <1>1, <1>2, <1>3 DEF Once
<1>5. Range(t) = Range(s) \cup {n}
  <2>1. \A i \in DOMAIN t : t[i] \in Range(s) \cup {n}
    BY <1>1, <1>2 DEF Range
  <2>2. \A i \in DOMAIN s : i \in DOMAIN t /\ s[i] = t[i]
    BY <1>1
  <2>3. n \in Range(t)
    BY <1>1 DEF Range
  <2> QED
    BY <2>1, <2>2, <2>3 DEF Range
<1> QED
  BY <1>1, <1>4, <1>5 DEF t

LEMMA InboxTail ==
    ASSUME NEW s \in Seq(Nat), Once(s), s # <<>>
    PROVE  /\ Head(s) \in Nat /\ Head(s) \in Range(s) /\ Tail(s) \in Seq(Nat)
           /\ Once(Tail(s)) /\ Range(Tail(s)) \subseteq Range(s) \ {Head(s)}
<1> DEFINE t == Tail(s)
           h == Head(s)
<1>1. /\ h \in Nat /\ h = s[1] /\ 1 \in DOMAIN s
      /\ t \in Seq(Nat) /\ DOMAIN t = 1 .. Len(s) - 1 /\ Len(s) \in Nat
      /\ \A i \in DOMAIN t : t[i] = s[i + 1] /\ i + 1 \in DOMAIN s /\ i + 1 # 1
  OBVIOUS
<1> HIDE DEF t, h
<1>2. Once(t)
  <2> SUFFICES ASSUME NEW i \in DOMAIN t, NEW j \in DOMAIN t, t[i] = t[j]
               PROVE  i = j
    BY DEF Once
  <2>1. i + 1 = j + 1
    BY <1>1 DEF Once
  <2> QED
    BY <2>1, <1>1
<1>3. \A i \in DOMAIN t : t[i] \in Range(s) /\ t[i] # h
  BY <1>1 DEF Once, Range
<1>4. h \in Range(s)
  BY <1>1 DEF Range
<1> QED
  BY <1>1, <1>2, <1>3, <1>4 DEF Range, t, h

LEMMA UnreadAppend ==
    ASSUME NEW r \in Seq(Lines), NEW e \in Lines, AnsweredOnce(r), e[2] \notin Answered(r)
    PROVE  /\ Append(r, e) \in Seq(Lines) /\ AnsweredOnce(Append(r, e))
           /\ Answered(Append(r, e)) = Answered(r) \cup {e[2]}
<1> DEFINE t == Append(r, e)
<1>1. /\ t \in Seq(Lines) /\ DOMAIN t = 1 .. Len(r) + 1 /\ t[Len(r) + 1] = e
      /\ DOMAIN r = 1 .. Len(r) /\ Len(r) \in Nat /\ \A i \in DOMAIN r : t[i] = r[i]
  OBVIOUS
<1> HIDE DEF t
<1>2. \A i \in DOMAIN t : i \in DOMAIN r \/ i = Len(r) + 1
  BY <1>1
<1>3. \A i \in DOMAIN r : r[i][2] # e[2]
  BY DEF Answered
<1>4. AnsweredOnce(t)
  BY <1>1, <1>2, <1>3 DEF AnsweredOnce
<1>5. Answered(t) = Answered(r) \cup {e[2]}
  <2>1. \A i \in DOMAIN t : t[i][2] \in Answered(r) \cup {e[2]}
    BY <1>1, <1>2 DEF Answered
  <2>2. \A i \in DOMAIN r : i \in DOMAIN t /\ r[i][2] = t[i][2]
    BY <1>1
  <2>3. e[2] \in Answered(t)
    BY <1>1 DEF Answered
  <2> QED
    BY <2>1, <2>2, <2>3 DEF Answered
<1> QED
  BY <1>1, <1>4, <1>5 DEF t

LEMMA UnreadRemoved ==
    ASSUME NEW r \in Seq(Lines), AnsweredOnce(r), NEW i \in DOMAIN r
    PROVE  /\ RemoveAt(r, i) \in Seq(Lines) /\ AnsweredOnce(RemoveAt(r, i))
           /\ r[i] \in Lines /\ r[i][2] \in Answered(r)
           /\ Answered(RemoveAt(r, i)) \subseteq Answered(r) \ {r[i][2]}
<1> DEFINE t == RemoveAt(r, i)
<1>1. /\ t \in Seq(Lines) /\ DOMAIN t = 1 .. Len(r) - 1
      /\ \A k \in 1 .. Len(r) - 1 : t[k] = IF k < i THEN r[k] ELSE r[k + 1]
  BY RemoveAtIs
<1>2. /\ DOMAIN r = 1 .. Len(r) /\ Len(r) \in Nat /\ i \in 1 .. Len(r) /\ r[i] \in Lines
  OBVIOUS
<1> HIDE DEF t
<1>3. ASSUME NEW k \in DOMAIN t
      PROVE  \E m \in DOMAIN r : /\ t[k] = r[m] /\ m # i
                                 /\ m = IF k < i THEN k ELSE k + 1
  <2>1. CASE k < i
    BY <2>1, <1>1, <1>2
  <2>2. CASE ~(k < i)
    BY <2>2, <1>1, <1>2
  <2> QED
    BY <2>1, <2>2
<1>4. AnsweredOnce(t)
  <2> SUFFICES ASSUME NEW j \in DOMAIN t, NEW k \in DOMAIN t, t[j][2] = t[k][2]
               PROVE  j = k
    BY DEF AnsweredOnce
  <2>1. PICK m \in DOMAIN r : t[j] = r[m] /\ m # i /\ m = IF j < i THEN j ELSE j + 1
    BY <1>3
  <2>2. PICK n \in DOMAIN r : t[k] = r[n] /\ n # i /\ n = IF k < i THEN k ELSE k + 1
    BY <1>3
  <2>3. m = n
    BY <2>1, <2>2 DEF AnsweredOnce
  <2>4. j \in Nat /\ k \in Nat /\ i \in Nat
    BY <1>1, <1>2
  <2> QED
    BY <2>1, <2>2, <2>3, <2>4
<1>5. ASSUME NEW k \in DOMAIN t
      PROVE  t[k][2] \in Answered(r) /\ t[k][2] # r[i][2]
  <2>1. PICK m \in DOMAIN r : t[k] = r[m] /\ m # i
    BY <1>3
  <2> QED
    BY <2>1 DEF AnsweredOnce, Answered
<1>6. r[i][2] \in Answered(r)
  BY DEF Answered
<1>7. Answered(t) \subseteq Answered(r) \ {r[i][2]}
  BY <1>5 DEF Answered
<1> QED
  BY <1>1, <1>2, <1>4, <1>6, <1>7 DEF t

LEMMA BusTail ==
    ASSUME NEW b \in Seq(Messages), ToldOnce(b), b # <<>>
    PROVE  /\ Tail(b) \in Seq(Messages) /\ ToldOnce(Tail(b)) /\ Told(Tail(b)) \subseteq Told(b)
           /\ Head(b) \in Messages
           /\ Head(b)[1] = "result" => Head(b)[3] \in Told(b) /\ Head(b)[3] \notin Told(Tail(b))
<1> DEFINE t == Tail(b)
           h == Head(b)
<1>1. /\ h \in Messages /\ h = b[1] /\ 1 \in DOMAIN b
      /\ t \in Seq(Messages) /\ DOMAIN t = 1 .. Len(b) - 1 /\ Len(b) \in Nat
      /\ \A i \in DOMAIN t : t[i] = b[i + 1] /\ i + 1 \in DOMAIN b /\ i + 1 # 1
  OBVIOUS
<1> HIDE DEF t, h
<1>2. \A i \in Results(t) : i + 1 \in Results(b) /\ t[i] = b[i + 1] /\ i + 1 # 1
  BY <1>1 DEF Results
<1>3. ToldOnce(t)
  <2> SUFFICES ASSUME NEW i \in Results(t), NEW j \in Results(t), t[i][3] = t[j][3]
               PROVE  i = j
    BY DEF ToldOnce
  <2>1. i + 1 = j + 1
    BY <1>2 DEF ToldOnce
  <2>2. i \in Nat /\ j \in Nat
    BY <1>1 DEF Results
  <2> QED
    BY <2>1, <2>2
<1>4. Told(t) \subseteq Told(b)
  BY <1>2 DEF Told
<1>5. ASSUME h[1] = "result"
      PROVE  h[3] \in Told(b) /\ h[3] \notin Told(t)
  <2>1. 1 \in Results(b)
    BY <1>1, <1>5 DEF Results
  <2>2. \A i \in Results(t) : t[i][3] # h[3]
    BY <1>1, <1>2, <2>1 DEF ToldOnce
  <2> QED
    BY <1>1, <2>1, <2>2 DEF Told
<1> QED
  BY <1>1, <1>3, <1>4, <1>5 DEF t, h

LEMMA BusAppend ==
    ASSUME NEW b \in Seq(Messages), ToldOnce(b), NEW e \in Messages,
           e[1] = "result" => e[3] \notin Told(b)
    PROVE  /\ Append(b, e) \in Seq(Messages) /\ ToldOnce(Append(b, e))
           /\ Told(Append(b, e)) \subseteq
                  Told(b) \cup (IF e[1] = "result" THEN {e[3]} ELSE {})
<1> DEFINE t == Append(b, e)
<1>1. /\ t \in Seq(Messages) /\ DOMAIN t = 1 .. Len(b) + 1 /\ t[Len(b) + 1] = e
      /\ DOMAIN b = 1 .. Len(b) /\ Len(b) \in Nat /\ \A i \in DOMAIN b : t[i] = b[i]
  OBVIOUS
<1> HIDE DEF t
<1>2. \A i \in Results(t) :
          \/ i \in Results(b) /\ t[i] = b[i]
          \/ i = Len(b) + 1 /\ t[i] = e /\ e[1] = "result"
  BY <1>1 DEF Results
<1>3. \A i \in Results(b) : e[1] = "result" => b[i][3] # e[3]
  BY DEF Told
<1>4. ToldOnce(t)
  <2> SUFFICES ASSUME NEW i \in Results(t), NEW j \in Results(t), t[i][3] = t[j][3]
               PROVE  i = j
    BY DEF ToldOnce
  <2> QED
    BY <1>2, <1>3 DEF ToldOnce
<1>5. Told(t) \subseteq Told(b) \cup (IF e[1] = "result" THEN {e[3]} ELSE {})
  BY <1>2 DEF Told
<1> QED
  BY <1>1, <1>4, <1>5 DEF t

LEMMA Broadcasts ==
    ASSUME bus \in Seq(Messages), ToldOnce(bus), NEW e \in Messages, Broadcast(e),
           e[1] = "result" => e[3] \notin Told(bus)
    PROVE  /\ bus' \in Seq(Messages) /\ ToldOnce(bus')
           /\ Told(bus') \subseteq Told(bus) \cup (IF e[1] = "result" THEN {e[3]} ELSE {})
<1> DEFINE b == IF Len(bus) >= BusSize THEN Tail(bus) ELSE bus
<1>1. bus' = Append(b, e)
  BY DEF Broadcast
<1>2. b \in Seq(Messages) /\ ToldOnce(b) /\ Told(b) \subseteq Told(bus)
  <2>1. CASE Len(bus) >= BusSize
    <3>1. bus # <<>>
      BY <2>1, SpeechAssumption
    <3> QED
      BY <2>1, <3>1, BusTail
  <2>2. CASE ~(Len(bus) >= BusSize)
    BY <2>2
  <2> QED
    BY <2>1, <2>2
<1> HIDE DEF b
<1> QED
  BY <1>1, <1>2, BusAppend

(***************************************************************************)
(* The cues.                                                               *)
(***************************************************************************)

LEMMA WayKept ==
    ASSUME WayInv, Apart', sequence' = sequence, OnItsWay' \subseteq OnItsWay,
           \A u \in OnItsWay' : u \in DOMAIN tracked => u \in DOMAIN tracked'
    PROVE  WayInv'
BY DEF WayInv, Displaced

LEMMA TrackerKept ==
    ASSUME TrackerInv, UNCHANGED <<program, origin, order, tracked, sequence, sent>>
    PROVE  TrackerInv'
BY DEF TrackerInv

LEMMA CuesKept ==
    ASSUME CuesInv, UNCHANGED <<program, origin, cues, sequence, sent>>
    PROVE  CuesInv'
BY DEF CuesInv, InTime

LEMMA NothingYet ==
    /\ DOMAIN Empty = {} /\ Empty \in [{} -> Nat]
    /\ <<>> \in Seq(Nat) /\ <<>> \in Seq(Lines) /\ <<>> \in Seq(Messages)
    /\ <<>> \in Seq(Nat \X Nat) /\ DOMAIN <<>> = {} /\ Rising(<<>>)
    /\ Range(<<>>) = {} /\ Answered(<<>>) = {} /\ Told(<<>>) = {}
    /\ Once(<<>>) /\ AnsweredOnce(<<>>) /\ ToldOnce(<<>>)
<1>1. DOMAIN Empty = {} /\ Empty \in [{} -> Nat]
  BY DEF Empty
<1>2. DOMAIN <<>> = {}
  OBVIOUS
<1>3. /\ <<>> \in Seq(Nat) /\ <<>> \in Seq(Lines) /\ <<>> \in Seq(Messages)
      /\ <<>> \in Seq(Nat \X Nat)
  OBVIOUS
<1>4. Range(<<>>) = {} /\ Answered(<<>>) = {} /\ Results(<<>>) = {} /\ Told(<<>>) = {}
  BY <1>2 DEF Range, Answered, Told, Results
<1>5. Rising(<<>>) /\ Once(<<>>) /\ AnsweredOnce(<<>>) /\ ToldOnce(<<>>)
  BY <1>2, <1>4 DEF Rising, Once, AnsweredOnce, ToldOnce
<1> QED
  BY <1>1, <1>2, <1>3, <1>4, <1>5

LEMMA SpeechEndsCues ==
    ASSUME VoiceType, VoiceInv, StartType, StartInv, TrackType, CueInv, NEW speech \in BOOLEAN,
           SpeechEnds(speech), program' = program
    PROVE  TrackType' /\ CueInv'
<1> DEFINE whole == Append(utterance, frame + 1)
           n == sequence + 1
<1>1. /\ audio = "listening"
      /\ inbox' = inbox /\ unread' = unread /\ attempt' = attempt /\ bus' = bus /\ cues' = cues
      /\ program' = program /\ origin' = origin
  BY DEF SpeechEnds, Judged, Hears, workerVars, eventVars
<1>2. CASE UNCHANGED <<sequence, sent, audio, tracked, order>>
  <2>1. TrackType'
    BY <1>1, <1>2 DEF TrackType
  <2>2. TrackerInv' /\ CuesInv'
    BY <1>1, <1>2, TrackerKept, CuesKept DEF CueInv
  <2>3. Sending' = Sending
    BY <1>2 DEF Sending
  <2>4. OnItsWay' = OnItsWay /\ Apart'
    BY <1>1, <2>3 DEF OnItsWay, Apart, CueInv, WayInv
  <2> QED
    BY <1>2, <2>1, <2>2, <2>4, WayKept DEF CueInv
<1>3. CASE /\ whole \in Seq(Nat) /\ CaptureOffset \in Nat
           /\ sequence' = n /\ sent' \in [1 .. n -> Recordings]
           /\ \A u \in 1 .. sequence : sent'[u] = sent[u]
           /\ sent'[n] = [frames |-> whole, duration |-> Len(whole), waited |-> waited]
           /\ Track(n, CaptureOffset) /\ audio' = "sending"
  <2>9. /\ whole # <<>> /\ Spread(whole)
        /\ program = "desktop" => Within(whole, waited, startedAt)
    BY SpeechEndsStart
  <2> HIDE DEF whole
  <2>0. sequence \in Nat /\ DOMAIN tracked \subseteq 1 .. sequence
    BY DEF VoiceType, TrackType
  <2>1. /\ order' \in Seq(Nat) /\ Rising(order') /\ Range(order') = DOMAIN tracked'
        /\ DOMAIN tracked' \subseteq 1 .. n /\ tracked' \in [DOMAIN tracked' -> Nat]
        /\ n \in DOMAIN tracked' /\ tracked'[n] = CaptureOffset
        /\ \A v \in DOMAIN tracked' \ {n} : v \in DOMAIN tracked /\ tracked'[v] = tracked[v]
        /\ \A v \in DOMAIN tracked \ DOMAIN tracked' : n >= v + TrackerCap
    BY <1>3, Tracks DEF CueInv
  <2>2. TrackType'
    BY <1>1, <1>3, <2>1 DEF TrackType
  <2>3. TrackerInv'
    <3> SUFFICES ASSUME program = "desktop", NEW u \in DOMAIN tracked'
                 PROVE  /\ NotBefore(sent'[u], origin, tracked'[u])
                        /\ NotLater(sent'[u], origin, tracked'[u])
      BY <1>1, <2>1 DEF TrackerInv
    <3>1. CASE u = n
      <4>1. sent'[n] \in Recordings /\ sent'[n].frames = whole /\ sent'[n].waited = waited
        BY <1>3, <2>0
      <4>2. tracked'[n] = Since(origin, startedAt)
        BY <2>1 DEF CaptureOffset
      <4>3. PICK r \in Recordings : r = sent'[n]
        BY <4>1
      <4>4. NotBefore(r, origin, Since(origin, startedAt)) /\ NotLater(r, origin, Since(origin, startedAt))
        BY <2>9, <4>1, <4>3, NotedFits DEF StartType
      <4> QED
        BY <3>1, <4>2, <4>3, <4>4
    <3>2. CASE u # n
      <4>1. u \in DOMAIN tracked /\ tracked'[u] = tracked[u] /\ u \in 1 .. sequence
        BY <2>0, <2>1, <3>2
      <4> QED
        BY <1>3, <4>1 DEF CueInv, TrackerInv
    <3> QED
      BY <3>1, <3>2
  <2>4. Sending = {} /\ Sending' = {n}
    BY <1>1, <1>3 DEF Sending
  <2>5. OnItsWay' = OnItsWay \cup {n} /\ n \notin OnItsWay /\ OnItsWay \subseteq 1 .. sequence
    BY <1>1, <2>0, <2>4 DEF OnItsWay, CueInv, WayInv
  <2>6. Apart'
    BY <1>1, <2>4, <2>5 DEF Apart, OnItsWay, CueInv, WayInv
  <2>7. WayInv'
    <3>1. OnItsWay' \subseteq 1 .. n
      BY <2>0, <2>5
    <3>2. ASSUME NEW u \in OnItsWay'
          PROVE  u \in DOMAIN tracked' \/ n >= u + TrackerCap
      <4>1. CASE u = n
        BY <2>1, <4>1
      <4>2. CASE u \in OnItsWay
        <5>1. u \in DOMAIN tracked \/ sequence >= u + TrackerCap
          BY <4>2 DEF CueInv, WayInv, Displaced
        <5>2. u \in Nat
          BY <2>0, <2>5, <4>2
        <5>3. sequence >= u + TrackerCap => n >= u + TrackerCap
          BY <2>0, <5>2, SpeechAssumption
        <5> QED
          BY <2>1, <5>1, <5>3
      <4> QED
        BY <2>5, <4>1, <4>2
    <3> QED
      BY <1>3, <2>6, <3>1, <3>2 DEF WayInv, Displaced
  <2>8. CuesInv'
    <3>1. ASSUME NEW i \in DOMAIN cues
          PROVE  /\ cues[i][1] \in 1 .. sequence /\ sent'[cues[i][1]] = sent[cues[i][1]]
                 /\ sequence >= cues[i][1] + TrackerCap => n >= cues[i][1] + TrackerCap
      <4>1. PICK u \in 1 .. sequence : u = cues[i][1]
        BY DEF CueInv, CuesInv
      <4> QED
        BY <1>3, <2>0, <4>1, SpeechAssumption
    <3>2. \A i \in DOMAIN cues : cues[i][1] \in 1 .. n
      BY <2>0, <3>1
    <3>3. InTime(program, cues, sent', origin, n)
      <4> SUFFICES ASSUME program = "desktop", NEW i \in DOMAIN cues
                   PROVE  /\ NotBefore(sent'[cues[i][1]], origin, cues[i][2])
                          /\ \/ NotLater(sent'[cues[i][1]], origin, cues[i][2])
                             \/ n >= cues[i][1] + TrackerCap
        BY DEF InTime
      <4>1. /\ NotBefore(sent[cues[i][1]], origin, cues[i][2])
            /\ \/ NotLater(sent[cues[i][1]], origin, cues[i][2])
               \/ sequence >= cues[i][1] + TrackerCap
        BY DEF CueInv, CuesInv, InTime
      <4> QED
        BY <3>1, <4>1
    <3> QED
      BY <1>1, <1>3, <3>2, <3>3 DEF CuesInv
  <2> QED
    BY <2>2, <2>3, <2>7, <2>8 DEF CueInv
<1> QED
  BY <1>2, <1>3, SpeechEndsSent

(* What the audio task and the worker do with a command. *)
LEMMA SendsWay ==
    ASSUME VoiceType, TrackType, CueInv, SendGivenUp \/ Sends \/ SendFails, program' = program
    PROVE  TrackType' /\ CueInv'
<1>1. /\ UNCHANGED <<program, origin, sequence, sent, unread, attempt, bus, cues>>
      /\ audio = "sending" /\ audio' = "listening"
  BY DEF SendGivenUp, Sends, SendFails, voiceVars, workerVars, eventVars
<1>2. Sending = {sequence} /\ Sending' = {}
  BY <1>1 DEF Sending
<1>3. CuesInv' /\ TrackerInv /\ WayInv /\ Apart
  BY <1>1, CuesKept DEF CueInv, WayInv
<1>4. sequence \in Nat /\ sequence \notin Range(inbox) /\ sequence \notin Answered(unread)
      /\ sequence \notin Told(bus)
  BY <1>2, <1>3 DEF VoiceType, Apart
<1>5. CASE SendGivenUp
  <2>1. inbox' = inbox /\ order' = order /\ tracked' = tracked
    BY <1>5 DEF SendGivenUp, workerVars, trackVars
  <2>2. OnItsWay' \subseteq OnItsWay /\ Apart'
    BY <1>1, <1>2, <1>3, <2>1 DEF OnItsWay, Apart
  <2>3. TrackType'
    BY <1>1, <2>1 DEF TrackType
  <2>4. WayInv' /\ TrackerInv'
    BY <1>1, <1>3, <2>1, <2>2, WayKept, TrackerKept
  <2> QED
    BY <1>3, <2>3, <2>4 DEF CueInv
<1>6. CASE Sends
  <2>1. inbox' = Append(inbox, sequence) /\ order' = order /\ tracked' = tracked
    BY <1>6 DEF Sends, trackVars
  <2>2. /\ inbox' \in Seq(Nat) /\ Once(inbox') /\ Range(inbox') = Range(inbox) \cup {sequence}
    BY <1>3, <1>4, <2>1, InboxAppend DEF TrackType, Apart
  <2>3. OnItsWay' \subseteq OnItsWay /\ Apart'
    BY <1>1, <1>2, <1>3, <1>4, <2>2 DEF OnItsWay, Apart
  <2>4. TrackType'
    BY <1>1, <2>1, <2>2 DEF TrackType
  <2>5. WayInv' /\ TrackerInv'
    BY <1>1, <1>3, <2>1, <2>3, WayKept, TrackerKept
  <2> QED
    BY <1>3, <2>4, <2>5 DEF CueInv
<1>7. CASE SendFails
  <2>1. inbox' = inbox /\ Untrack(sequence)
    BY <1>7 DEF SendFails, workerVars
  <2>2. OnItsWay' \subseteq OnItsWay \ {sequence} /\ Apart'
    BY <1>1, <1>2, <1>3, <1>4, <2>1 DEF OnItsWay, Apart
  <2>3. /\ TrackerInv' /\ order' \in Seq(Nat) /\ DOMAIN tracked' = DOMAIN tracked \ {sequence}
        /\ tracked' \in [DOMAIN tracked' -> Nat]
    BY <1>1, <1>3, <2>1, Untracks
  <2>4. TrackType'
    BY <1>1, <2>1, <2>3 DEF TrackType
  <2>5. WayInv'
    BY <1>1, <1>3, <2>2, <2>3, WayKept
  <2> QED
    BY <1>3, <2>3, <2>4, <2>5 DEF CueInv
<1> QED
  BY <1>5, <1>6, <1>7

LEMMA WorkerWay ==
    ASSUME TrackType, CueInv, WorkerAnswers \/ WorkerRespawns \/ AnswerRead, program' = program
    PROVE  TrackType' /\ CueInv'
<1>1. UNCHANGED <<program, origin, sequence, sent, audio, tracked, order, cues>>
  BY DEF WorkerAnswers, WorkerRespawns, AnswerRead, voiceVars, trackVars, eventVars
<1>2. Sending' = Sending
  BY <1>1 DEF Sending
<1>3. CuesInv' /\ TrackerInv' /\ WayInv /\ Apart
  BY <1>1, CuesKept, TrackerKept DEF CueInv, WayInv
<1>4. /\ inbox \in Seq(Nat) /\ unread \in Seq(Lines) /\ attempt \in Nat /\ bus \in Seq(Messages)
  BY DEF TrackType
<1>5. CASE WorkerAnswers
  <2>1. /\ inbox # <<>> /\ inbox' = Tail(inbox) /\ unread' = Append(unread, <<attempt, Head(inbox)>>)
        /\ attempt' = attempt /\ bus' = bus
    BY <1>5 DEF WorkerAnswers, eventVars
  <2>2. /\ Head(inbox) \in Nat /\ Head(inbox) \in Range(inbox) /\ inbox' \in Seq(Nat)
        /\ Once(inbox') /\ Range(inbox') \subseteq Range(inbox) \ {Head(inbox)}
    BY <1>3, <1>4, <2>1, InboxTail DEF Apart
  <2>3. PICK e \in Lines : e = <<attempt, Head(inbox)>> /\ e[2] = Head(inbox)
    <3>1. <<attempt, Head(inbox)>> \in Lines
      BY <1>4, <2>2 DEF Lines
    <3> QED
      BY <3>1
  <2>4. Head(inbox) \notin Answered(unread)
    BY <1>3, <2>2 DEF Apart
  <2>5. /\ unread' \in Seq(Lines) /\ AnsweredOnce(unread')
        /\ Answered(unread') = Answered(unread) \cup {Head(inbox)}
    BY <1>3, <1>4, <2>1, <2>3, <2>4, UnreadAppend DEF Apart
  <2>6. OnItsWay' \subseteq OnItsWay
    BY <1>2, <2>1, <2>2, <2>5 DEF OnItsWay
  <2>7. Apart'
    BY <1>2, <1>3, <2>1, <2>2, <2>5 DEF Apart
  <2>8. TrackType'
    BY <1>1, <2>1, <2>2, <2>5 DEF TrackType
  <2>9. WayInv'
    BY <1>1, <1>3, <2>6, <2>7, WayKept
  <2> QED
    BY <1>3, <2>8, <2>9 DEF CueInv
<1>6. CASE WorkerRespawns
  <2>1. /\ inbox' = <<>> /\ attempt' = attempt + 1 /\ unread' = unread
        /\ Broadcast(<<"started", attempt + 1, 0>>)
    BY <1>6 DEF WorkerRespawns
  <2>2. PICK e \in Messages : e = <<"started", attempt + 1, 0>> /\ e[1] = "started"
    <3>1. <<"started", attempt + 1, 0>> \in Messages
      BY <1>4 DEF Messages
    <3> QED
      BY <3>1
  <2>3. bus' \in Seq(Messages) /\ ToldOnce(bus') /\ Told(bus') \subseteq Told(bus)
    BY <1>3, <1>4, <2>1, <2>2, Broadcasts DEF Apart
  <2>4. Range(<<>>) = {} /\ Once(<<>>) /\ <<>> \in Seq(Nat)
    BY NothingYet
  <2>5. OnItsWay' \subseteq OnItsWay
    BY <1>2, <2>1, <2>3, <2>4 DEF OnItsWay
  <2>6. Apart'
    BY <1>2, <1>3, <2>1, <2>3, <2>4 DEF Apart
  <2>7. TrackType'
    BY <1>1, <1>4, <2>1, <2>3, <2>4 DEF TrackType
  <2>8. WayInv'
    BY <1>1, <1>3, <2>5, <2>6, WayKept
  <2> QED
    BY <1>3, <2>7, <2>8 DEF CueInv
<1>7. CASE AnswerRead
  <2>1. PICK i \in DOMAIN unread : /\ Broadcast(<<"result", unread[i][1], unread[i][2]>>)
                                   /\ unread' = RemoveAt(unread, i)
    BY <1>7 DEF AnswerRead
  <2>2. inbox' = inbox /\ attempt' = attempt
    BY <1>7 DEF AnswerRead
  <2>3. /\ unread' \in Seq(Lines) /\ AnsweredOnce(unread') /\ unread[i] \in Lines
        /\ unread[i][2] \in Answered(unread)
        /\ Answered(unread') \subseteq Answered(unread) \ {unread[i][2]}
    BY <1>3, <1>4, <2>1, UnreadRemoved DEF Apart
  <2>4. PICK u \in Nat : u = unread[i][2]
    BY <2>3 DEF Lines
  <2>5. PICK e \in Messages : /\ e = <<"result", unread[i][1], unread[i][2]>>
                              /\ e[1] = "result" /\ e[3] = u
    <3>1. <<"result", unread[i][1], unread[i][2]>> \in Messages
      BY <2>3 DEF Lines, Messages
    <3> QED
      BY <2>4, <3>1
  <2>6. u \notin Told(bus)
    BY <1>3, <2>3, <2>4 DEF Apart
  <2>7. bus' \in Seq(Messages) /\ ToldOnce(bus') /\ Told(bus') \subseteq Told(bus) \cup {u}
    BY <1>3, <1>4, <2>1, <2>5, <2>6, Broadcasts DEF Apart
  <2>8. OnItsWay' \subseteq OnItsWay
    BY <1>2, <2>2, <2>3, <2>4, <2>7 DEF OnItsWay
  <2>9. Apart'
    BY <1>2, <1>3, <2>2, <2>3, <2>4, <2>7 DEF Apart
  <2>10. TrackType'
    BY <1>1, <2>2, <2>3, <2>7, <1>4 DEF TrackType
  <2>11. WayInv'
    BY <1>1, <1>3, <2>8, <2>9, WayKept
  <2> QED
    BY <1>3, <2>10, <2>11 DEF CueInv
<1> QED
  BY <1>5, <1>6, <1>7

(* What the event task receives is on its way no more. *)
LEMMA ReceivesWay ==
    ASSUME TrackType, CueInv, Receives
    PROVE  /\ UNCHANGED <<sequence, sent, inbox, unread, attempt>>
           /\ bus' \in Seq(Messages) /\ Apart' /\ OnItsWay' \subseteq OnItsWay
           /\ Head(bus) \in Messages
           /\ Head(bus)[1] = "result" =>
                  Head(bus)[3] \in OnItsWay /\ Head(bus)[3] \notin OnItsWay'
<1>1. /\ UNCHANGED <<sequence, sent, inbox, unread, attempt, audio>>
      /\ bus # <<>> /\ bus' = Tail(bus)
  BY DEF Receives, voiceVars, workerVars
<1>2. Sending' = Sending
  BY <1>1 DEF Sending
<1>3. Apart /\ bus \in Seq(Messages)
  BY DEF CueInv, WayInv, TrackType
<1>4. /\ bus' \in Seq(Messages) /\ ToldOnce(bus') /\ Told(bus') \subseteq Told(bus)
      /\ Head(bus) \in Messages
      /\ Head(bus)[1] = "result" => Head(bus)[3] \in Told(bus) /\ Head(bus)[3] \notin Told(bus')
  BY <1>1, <1>3, BusTail DEF Apart
<1>5. OnItsWay' \subseteq OnItsWay
  BY <1>1, <1>2, <1>4 DEF OnItsWay
<1>6. Apart'
  BY <1>1, <1>2, <1>3, <1>4 DEF Apart
<1>7. ASSUME Head(bus)[1] = "result"
      PROVE  Head(bus)[3] \in OnItsWay /\ Head(bus)[3] \notin OnItsWay'
  <2>1. PICK u : u = Head(bus)[3]
    OBVIOUS
  <2>2. u \in Told(bus) /\ u \notin Told(bus')
    BY <1>4, <1>7, <2>1
  <2>3. u \notin Sending /\ u \notin Range(inbox) /\ u \notin Answered(unread)
    BY <1>3, <2>2 DEF Apart
  <2> QED
    BY <1>1, <1>2, <2>1, <2>2, <2>3 DEF OnItsWay
<1> QED
  BY <1>1, <1>4, <1>5, <1>6, <1>7

LEMMA AnswersCues ==
    ASSUME VoiceType, StartType, StartInv, TrackType, CueInv, Receives, program' = program,
           origin' = origin, Head(bus)[1] = "result", Untrack(Head(bus)[3]),
           NEW e \in Int, cues' = cues \/ cues' = Append(cues, <<Head(bus)[3], e>>),
           \/ cues' = cues
           \/ program = "headless" /\ e = 0
           \/ \E now \in MomentOf(Head(bus)[3]) : e = StartOf(Head(bus)[3], now)
    PROVE  TrackType' /\ CueInv'
<1>1. /\ UNCHANGED <<sequence, sent, inbox, unread, attempt>>
      /\ bus' \in Seq(Messages) /\ Apart' /\ OnItsWay' \subseteq OnItsWay
      /\ Head(bus) \in Messages
      /\ Head(bus)[3] \in OnItsWay /\ Head(bus)[3] \notin OnItsWay'
  BY ReceivesWay
<1>2. PICK u \in Nat : u = Head(bus)[3]
  BY <1>1 DEF Messages
<1>3. TrackerInv /\ WayInv /\ CuesInv /\ u \in OnItsWay /\ u \notin OnItsWay' /\ Untrack(u)
  BY <1>1, <1>2 DEF CueInv
<1>4. /\ TrackerInv' /\ order' \in Seq(Nat) /\ DOMAIN tracked' = DOMAIN tracked \ {u}
      /\ tracked' \in [DOMAIN tracked' -> Nat]
  BY <1>1, <1>3, Untracks
<1>5. WayInv'
  BY <1>1, <1>3, <1>4, WayKept
<1>6. ASSUME cues' # cues
      PROVE  /\ u \in 1 .. sequence /\ e \in Nat
             /\ program = "desktop" =>
                    /\ NotBefore(sent[u], origin, e)
                    /\ NotLater(sent[u], origin, e) \/ sequence >= u + TrackerCap
  <2>1. u \in 1 .. sequence /\ (u \in DOMAIN tracked \/ sequence >= u + TrackerCap)
    BY <1>3 DEF WayInv, Displaced
  <2>2. CASE program = "headless" /\ e = 0
    BY <2>1, <2>2
  <2>3. ASSUME NEW now \in MomentOf(u), e = StartOf(u, now)
        PROVE  /\ e \in Nat
               /\ program = "desktop" =>
                      /\ NotBefore(sent[u], origin, e)
                      /\ NotLater(sent[u], origin, e) \/ sequence >= u + TrackerCap
    <3>1. CASE u \in DOMAIN tracked
      <4>1. e = tracked[u] /\ tracked[u] \in Nat
        BY <2>3, <3>1 DEF StartOf, TrackType
      <4> QED
        BY <1>3, <3>1, <4>1 DEF TrackerInv
    <3>2. CASE u \notin DOMAIN tracked
      <4>1. sent[u] \in Recordings /\ Sound(sent[u], frame) /\ frame \in Nat /\ origin \in Nat
        BY <2>1 DEF VoiceType, StartType, StartInv
      <4>2. PICK r \in Recordings : r = sent[u]
        BY <4>1
      <4>3. now \in Int /\ now >= frame
        BY <2>3, <3>2, <4>1, SpeechAssumption DEF MomentOf, Moments
      <4>4. e = Since(origin, now - Len(r.frames)) /\ Len(r.frames) \in Nat
        BY <2>3, <3>2, <4>2 DEF StartOf, Recordings
      <4>5. NotBefore(r, origin, Since(origin, now - Len(r.frames)))
        BY <4>1, <4>2, <4>3, ArrivalFits
      <4>6. e \in Nat
        BY <4>1, <4>3, <4>4 DEF Since
      <4> QED
        BY <2>1, <3>2, <4>2, <4>4, <4>5, <4>6
    <3> QED
      BY <3>1, <3>2
  <2> QED
    BY <1>2, <1>6, <2>1, <2>2, <2>3
<1>7. cues' \in Seq(Nat \X Nat) /\ CuesInv'
  <2>1. CASE cues' = cues
    BY <1>1, <1>3, <2>1, CuesKept DEF TrackType
  <2>2. CASE cues' # cues
    <3>0. cues' = Append(cues, <<u, e>>)
      BY <1>2, <2>2
    <3>1. PICK c \in Nat \X Nat : c = <<u, e>> /\ c[1] = u /\ c[2] = e
      <4>1. <<u, e>> \in Nat \X Nat
        BY <1>6, <2>2
      <4> QED
        BY <4>1
    <3>2. cues \in Seq(Nat \X Nat)
      BY DEF TrackType
    <3>3. /\ cues' \in Seq(Nat \X Nat) /\ DOMAIN cues' = 1 .. Len(cues) + 1
          /\ cues'[Len(cues) + 1] = c /\ DOMAIN cues = 1 .. Len(cues) /\ Len(cues) \in Nat
          /\ \A i \in DOMAIN cues : cues'[i] = cues[i]
      BY <3>0, <3>1, <3>2
    <3>4. \A i \in DOMAIN cues' : cues'[i][1] \in 1 .. sequence
      <4> SUFFICES ASSUME NEW i \in DOMAIN cues'
                   PROVE  cues'[i][1] \in 1 .. sequence
        OBVIOUS
      <4>1. CASE i \in DOMAIN cues
        BY <1>3, <3>3, <4>1 DEF CuesInv
      <4>2. CASE i = Len(cues) + 1
        BY <1>6, <2>2, <3>1, <3>3, <4>2
      <4> QED
        BY <3>3, <4>1, <4>2
    <3>5. InTime(program, cues', sent, origin, sequence)
      <4> SUFFICES ASSUME program = "desktop", NEW i \in DOMAIN cues'
                   PROVE  /\ NotBefore(sent[cues'[i][1]], origin, cues'[i][2])
                          /\ \/ NotLater(sent[cues'[i][1]], origin, cues'[i][2])
                             \/ sequence >= cues'[i][1] + TrackerCap
        BY DEF InTime
      <4>1. CASE i \in DOMAIN cues
        BY <1>3, <3>3, <4>1 DEF CuesInv, InTime
      <4>2. CASE i = Len(cues) + 1
        BY <1>6, <2>2, <3>1, <3>3, <4>2
      <4> QED
        BY <3>3, <4>1, <4>2
    <3> QED
      BY <1>1, <3>3, <3>4, <3>5 DEF CuesInv
  <2> QED
    BY <2>1, <2>2
<1>8. TrackType'
  BY <1>1, <1>4, <1>7 DEF TrackType
<1> QED
  BY <1>4, <1>5, <1>7, <1>8 DEF CueInv

LEMMA RestartCues ==
    ASSUME NEW resumed \in BOOLEAN, StartAgain(resumed)
    PROVE  TrackType' /\ CueInv'
<1>1. /\ sequence' = 0 /\ sent' = Empty /\ audio' = "listening"
      /\ tracked' = Empty /\ order' = <<>> /\ inbox' = <<>> /\ unread' = <<>>
      /\ attempt' = 1 /\ bus' = <<>> /\ cues' = <<>>
  BY DEF StartAgain
<1>2. TrackType'
  BY <1>1, NothingYet DEF TrackType
<1>3. Sending' = {}
  BY <1>1 DEF Sending
<1>4. OnItsWay' = {} /\ Apart'
  BY <1>1, <1>3, NothingYet DEF OnItsWay, Apart
<1>5. TrackerInv' /\ WayInv' /\ CuesInv'
  BY <1>1, <1>4, NothingYet DEF TrackerInv, WayInv, CuesInv, InTime
<1> QED
  BY <1>2, <1>5 DEF CueInv

LEMMA CuesPreserved ==
    ASSUME VoiceType, VoiceInv, StartType, StartInv, TrackType, CueInv, [Next]_vars
    PROVE  TrackType' /\ CueInv'
<1>0. UNCHANGED program \/ UNCHANGED vars
  BY DEF Next
<1>9. program' = program
  BY <1>0 DEF vars
<1>1. CASE \E speech \in BOOLEAN : SpeechEnds(speech)
  BY <1>1, <1>9, SpeechEndsCues
<1>2. CASE SendGivenUp \/ Sends \/ SendFails
  BY <1>2, <1>9, SendsWay
<1>3. CASE WorkerAnswers \/ WorkerRespawns \/ AnswerRead
  BY <1>3, <1>9, WorkerWay
<1>4. CASE EventNotAdmitted \/ HeadlessIgnores
  <2>1. Receives /\ UNCHANGED <<program, origin, tracked, order, cues>>
    BY <1>4, <1>9 DEF EventNotAdmitted, HeadlessIgnores, trackVars
  <2>2. /\ UNCHANGED <<sequence, sent, inbox, unread, attempt>>
        /\ bus' \in Seq(Messages) /\ Apart' /\ OnItsWay' \subseteq OnItsWay
    BY <2>1, ReceivesWay
  <2>3. TrackType'
    BY <2>1, <2>2 DEF TrackType
  <2> QED
    BY <2>1, <2>2, <2>3, WayKept, TrackerKept, CuesKept DEF CueInv
<1>5. CASE ResultDropped \/ ResultEmitted \/ HeadlessDrops \/ HeadlessEmits
  <2>1. Receives /\ Head(bus)[1] = "result" /\ Untrack(Head(bus)[3]) /\ origin' = origin
    BY <1>5 DEF ResultDropped, ResultEmitted, HeadlessDrops, HeadlessEmits, Completes,
       HeadlessCompletes
  <2>2. \/ cues' = cues
        \/ program = "headless" /\ cues' = Append(cues, <<Head(bus)[3], 0>>)
        \/ \E now \in MomentOf(Head(bus)[3]) :
               cues' = Append(cues, <<Head(bus)[3], StartOf(Head(bus)[3], now)>>)
    BY <1>5 DEF ResultDropped, ResultEmitted, HeadlessDrops, HeadlessEmits, Completes,
       HeadlessCompletes
  <2>3. CASE cues' = cues
    BY <1>9, <2>1, <2>3, AnswersCues
  <2>4. CASE program = "headless" /\ cues' = Append(cues, <<Head(bus)[3], 0>>)
    BY <1>9, <2>1, <2>4, AnswersCues
  <2>5. ASSUME NEW now \in MomentOf(Head(bus)[3]),
               cues' = Append(cues, <<Head(bus)[3], StartOf(Head(bus)[3], now)>>)
        PROVE  TrackType' /\ CueInv'
    <3>1. StartOf(Head(bus)[3], now) \in Int
      <4>1. PICK u \in Nat : u = Head(bus)[3] /\ (u \in DOMAIN tracked \/ sent[u] \in Recordings)
        BY <2>1, ReceivesWay DEF CueInv, WayInv, VoiceType, Messages
      <4>2. CASE u \in DOMAIN tracked
        BY <4>1, <4>2 DEF StartOf, TrackType
      <4>3. CASE u \notin DOMAIN tracked
        <5>1. Len(sent[u].frames) \in Nat
          BY <4>1, <4>3 DEF Recordings
        <5>2. now \in Int
          BY <2>5, SpeechAssumption DEF MomentOf, Moments, VoiceType
        <5> QED
          BY <4>1, <4>3, <5>1, <5>2 DEF StartOf, Since, StartType
      <4> QED
        BY <4>2, <4>3
    <3> QED
      BY <1>9, <2>1, <2>5, <3>1, AnswersCues
  <2> QED
    BY <2>2, <2>3, <2>4, <2>5
<1>6. CASE \E resumed \in BOOLEAN : StartAgain(resumed)
  BY <1>6, RestartCues
<1>7. CASE /\ UNCHANGED <<origin, sequence, sent, tracked, order, inbox, unread, attempt, bus, cues>>
           /\ audio' = audio \/ audio' # "sending"
  <2>1. Sending' \subseteq Sending
    BY <1>7 DEF Sending
  <2>2. OnItsWay' \subseteq OnItsWay
    BY <1>7, <2>1 DEF OnItsWay
  <2>3. Apart'
    BY <1>7, <2>1 DEF Apart, CueInv, WayInv
  <2>4. TrackType'
    BY <1>7 DEF TrackType
  <2> QED
    BY <1>7, <1>9, <2>2, <2>3, <2>4, WayKept, TrackerKept, CuesKept DEF CueInv
<1>8. ASSUME Step
      PROVE  \/ \E speech \in BOOLEAN : SpeechEnds(speech)
             \/ SendGivenUp \/ Sends \/ SendFails \/ WorkerAnswers \/ WorkerRespawns \/ AnswerRead
             \/ EventNotAdmitted \/ HeadlessIgnores
             \/ ResultDropped \/ ResultEmitted \/ HeadlessDrops \/ HeadlessEmits
             \/ \E resumed \in BOOLEAN : StartAgain(resumed)
             \/ /\ UNCHANGED <<origin, sequence, sent, tracked, order, inbox, unread, attempt, bus, cues>>
                /\ audio' = audio \/ audio' # "sending"
  BY <1>8 DEF Step, VadFails, SpeechStarts, Listens, Judged, AudioEnds, EventsEnd, Cancel, Close,
     Closing, Files, voiceVars, startVars, trackVars, workerVars, eventVars
<1> QED
  BY <1>1, <1>2, <1>3, <1>4, <1>5, <1>6, <1>7, <1>8
     DEF Next, vars, voiceVars, trackVars, workerVars, eventVars

(***************************************************************************)
(* The theorems.                                                           *)
(***************************************************************************)

(* Whatever the microphone, the VAD, the worker, the disk and the stop do, the *)
(* audio task, the event task and the writers keep the inductive invariant.    *)
THEOREM SpeechInvariant == Spec => []IInv
<1>1. Init => IInv
  <2> SUFFICES ASSUME Init
               PROVE  IInv
    OBVIOUS
  <2>1. VoiceType
    BY VoiceBegins DEF Init, VoiceType
  <2>2. VoiceInv
    BY VoiceBegins DEF Init, VoiceInv, Silent, DurationIsThatOfTheAudio
  <2>6. StartType
    BY SpeechAssumption DEF Init, StartType, Moments
  <2>7. StartInv
    BY SpreadEmpty DEF Init, StartInv
  <2>3. AcousticInv
    BY DEF Init, AcousticInv, OpenIsLast, Pairs
  <2>4. FilesType /\ NumbersInv
    <3>1. /\ NoCue \in [Sinks -> Seq(Nat)] /\ Zero \in [Sinks -> Nat]
          /\ \A s \in Sinks : NoCue[s] = <<>> /\ Zero[s] = 0 /\ Len(NoCue[s]) = 0
          /\ NoCue["vtt"] = <<>>
      BY DEF NoCue, Zero, Sinks
    <3>2. Numbered(<<>>, <<>>, 0)
      BY EmptyParts, VoiceBegins DEF Numbered
    <3> QED
      BY <3>1, <3>2 DEF Init, FilesInit, SinksNew, FilesType, NumbersInv
  <2>5. TrackType /\ CueInv
    <3>1. TrackType
      BY NothingYet DEF Init, TrackType
    <3>2. Sending = {}
      BY DEF Init, Sending
    <3>3. OnItsWay = {} /\ Apart
      BY <3>2, NothingYet DEF Init, OnItsWay, Apart
    <3> QED
      BY <3>1, <3>3, NothingYet DEF Init, CueInv, TrackerInv, WayInv, CuesInv, InTime
  <2> QED
    BY <2>1, <2>2, <2>3, <2>4, <2>5, <2>6, <2>7 DEF IInv
<1>2. IInv /\ [Next]_vars => IInv'
  BY VoicePreserved, StartTypePreserved, StartPreserved, AcousticPreserved, NumbersPreserved, CuesPreserved DEF IInv
<1> QED
  BY <1>1, <1>2, PTL DEF Spec

(* Every frame the VAD judges speech is in one utterance, once and in the order of *)
(* capture, however silence and the length limit cut phrases and for any pre-roll. *)
THEOREM SpeechIsSentInOrder == Spec => []SpeechInOrderOnce
<1>1. IInv => SpeechInOrderOnce
  <2> SUFFICES ASSUME VoiceType, VoiceInv
               PROVE  SpeechInOrderOnce
    BY DEF IInv
  <2>1. /\ taken \in Seq(Nat) /\ utterance \in Seq(Nat) /\ preRoll \in Seq(Nat) /\ frame \in Nat
        /\ Rising(taken) /\ Rising(utterance) /\ Rising(preRoll)
        /\ Below(taken, utterance) /\ Below(taken, preRoll)
        /\ UpTo(taken, frame) /\ UpTo(utterance, frame) /\ UpTo(preRoll, frame)
        /\ judged \subseteq Range(taken) \cup Range(utterance)
    BY DEF VoiceType, VoiceInv
  <2>2. /\ taken \o utterance \in Seq(Nat) /\ Rising(taken \o utterance)
        /\ UpTo(taken \o utterance, frame)
        /\ Range(taken \o utterance) = Range(taken) \cup Range(utterance)
    BY <2>1, ConcatParts
  <2>3. Below(utterance, preRoll)
    BY <2>1, EmptyParts DEF VoiceInv
  <2>4. Below(taken \o utterance, preRoll)
    BY <2>1, <2>3, BelowConcat
  <2>5. PICK t \in Seq(Nat) : t = taken \o utterance
    BY <2>2
  <2>6. t \o preRoll \in Seq(Nat) /\ Rising(t \o preRoll)
    BY <2>1, <2>2, <2>4, <2>5, ConcatParts
  <2>7. Increasing(t \o preRoll)
    BY <2>6, RisingIncreases
  <2> QED
    BY <2>1, <2>2, <2>5, <2>7 DEF SpeechInOrderOnce
<1> QED
  BY <1>1, SpeechInvariant, PTL

(* The duration the VAD reports with an utterance is that of the audio sent with  *)
(* it: its count of chunks and the task's pre-roll and buffer never come apart.   *)
THEOREM DurationsAgree == Spec => []DurationIsThatOfTheAudio
<1>1. IInv => DurationIsThatOfTheAudio
  BY DEF IInv, VoiceInv
<1> QED
  BY <1>1, SpeechInvariant, PTL

(* On the wire every speech start is followed by its own end, and an audio task *)
(* that is over has left none open.                                             *)
THEOREM AcousticEventsPair == Spec => []AcousticPaired
<1>1. IInv => AcousticPaired
  BY OpenIsPaired DEF IInv
<1> QED
  BY <1>1, SpeechInvariant, PTL

(* A cue in the session files is never before the speech it transcribes, and later *)
(* by no more than the first frame waited and the frames lost on the way, through  *)
(* lost, late and repeated attempts, unless TrackerCap later utterances have       *)
(* displaced it.                                                                   *)
THEOREM CuesStartAtSpeech == Spec => []CueAtItsSpeech
<1>1. IInv => CueAtItsSpeech
  BY DEF IInv, CueInv, CuesInv, InTime, NotBefore, NotLater, CueAtItsSpeech
<1> QED
  BY <1>1, SpeechInvariant, PTL

(* The numbers in subtitles.vtt increase, over failed and rejected cues and over *)
(* restarts that go on with the file, unless a drain timed out.                  *)
THEOREM CueNumbersIncrease == Spec => []NumbersIncrease
<1>1. IInv => NumbersIncrease
  <2> SUFFICES ASSUME FilesType, NumbersInv, ~overran
               PROVE  Increasing(file["vtt"])
    BY DEF IInv, NumbersIncrease
  <2>1. file["vtt"] \in Seq(Nat) /\ Rising(file["vtt"])
    BY DEF FilesType, NumbersInv, Numbered, Sinks
  <2> QED
    BY <2>1, RisingIncreases
<1> QED
  BY <1>1, SpeechInvariant, PTL

================================================================================
