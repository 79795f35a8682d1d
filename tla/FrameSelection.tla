--------------------------- MODULE FrameSelection ---------------------------
(* Which frames of a video become landmarks, and who checks it: the worker  *)
(* (docker/mediapipe-holistic/worker.py, and worker.amd64.py, the same code *)
(* but for its platform and whole-video mode) probes the clip's frames,     *)
(* selects one for the centre of each eighth of a second, decodes each      *)
(* selected frame once and feeds it to the detector under the centres'      *)
(* timestamps; its receipt is checked by the host (holistic_container.py,   *)
(* and its twin amd64_holistic_container.py) and again before the           *)
(* conversion to a motion artifact (holistic_motion.py), each with code of  *)
(* its own.                                                                 *)
(*                                                                          *)
(* Times of the clip are in microseconds, times of frames in ticks, Tick of *)
(* them a microsecond, so that they fall between two microseconds; a centre *)
(* is a fraction with the denominator 2 * Count.                            *)
EXTENDS Integers, FiniteSets, Sequences, SequencesExt
CONSTANTS
  Videos,      \* [from, to, offset, gap, depth, pts]: see VideosAreVideos
  Tick,        \* ticks in a microsecond
  Second,      \* microseconds in a second
  Milli,       \* microseconds in a millisecond
  TargetRate, MaximumRate,     \* frames a second: selected, of the source
  MinimumFrames, MaximumFrames,
  MinimumClip, MaximumClip,    \* microseconds
  MaximumCandidates

\* A clip [from, to) of a file that says it is so many ticks long, whose stream
\* starts at offset, with a frame every gap microseconds as its nominal rate has
\* it, a B-frame depth, and presentation times of its own.
ASSUME VideosAreVideos ==
  \A v \in Videos : /\ v.from \in Nat /\ v.to \in Nat /\ v.from < v.to
                    /\ v.length \in Nat /\ v.offset \in Nat /\ v.gap \in Nat \ {0} /\ v.depth \in 0..2
                    /\ v.pts \subseteq Nat /\ IsFiniteSet(v.pts)
ASSUME Units == {Tick, Second, Milli, TargetRate} \subseteq Nat \ {0}
ASSUME RateLimits == {MaximumRate, MaximumCandidates, MinimumFrames, MaximumFrames} \subseteq Nat
ASSUME SlowerThanTicks == TargetRate <= Second

VARIABLES
  video, stage,
  cand,     \* the candidate presentation times, in order
  chosen,   \* the index among them for each output
  shown,    \* the frame whose pixels each output's hash and landmarks are of
  calls,    \* the detector's timestamps, in the order of its calls
  approved, \* the host accepted the receipt
  converted \* and the conversion did
selectionVars == <<video, stage, cand, chosen, shown, calls, approved, converted>>

-----------------------------------------------------------------------------
(* The worker *)

\* (faulty) half a microsecond is rounded up
ToMicrosecondsUp(num, den) == (2 * num + den) \div (2 * den)

\* A fraction of a microsecond to the nearest one, halves down.
ToMicroseconds(num, den) ==
  (num \div den) + (IF 2 * (num % den) > den THEN 1 ELSE 0)

Duration(v) == v.to - v.from
CeilDiv(a, b) == -((-a) \div b)
Time(v, p) == p - v.offset
InClip(v, t) == Tick * v.from <= t /\ t < Tick * v.to

\* The file may fall short of the clip's end by one frame.
InSource(v) == Tick * v.from < v.length /\ Tick * v.to <= v.length + Tick * v.gap

\* ffprobe is asked for the frames from one frame before the clip to some
\* after it: what it decodes after a frame may be displayed before it.
ProbeInterval(v) ==
  LET start == v.offset + Tick * (v.from - v.gap)
      end   == v.offset + Tick * (v.to + (v.depth + 1) * v.gap)
  IN  <<IF start < 0 THEN 0 ELSE ToMicroseconds(start, Tick), ToMicroseconds(end, Tick)>>

CandidateLimit(v) ==
  LET n == CeilDiv(Duration(v) * MaximumRate, Second) + 2
  IN  IF n < MaximumCandidates THEN n ELSE MaximumCandidates

Count(v) == CeilDiv(Duration(v) * TargetRate, Second)
Outputs(v) == 1..Count(v)
\* The centre of bin i, times 2 * Count(v).
Centre(v, i) == 2 * Count(v) * v.from + (2 * i - 1) * Duration(v)
Requested(v, i) == ToMicroseconds(Centre(v, i), 2 * Count(v))

\* The order of min(): distance to the centre, presentation time, index.
Distance(v, s, i, j) ==
  LET d == 2 * Count(v) * Time(v, s[j]) - Tick * Centre(v, i) IN IF d < 0 THEN -d ELSE d
Nearest(v, s, i) ==
  CHOOSE j \in DOMAIN s : \A k \in DOMAIN s \ {j} :
    \/ Distance(v, s, i, j) < Distance(v, s, i, k)
    \/ Distance(v, s, i, j) = Distance(v, s, i, k) /\ (s[j] < s[k] \/ (s[j] = s[k] /\ j < k))

Increasing(s) == \A i \in 1..(Len(s) - 1) : s[i] < s[i + 1]
Ordered(s) == \A i \in 1..(Len(s) - 1) : s[i] <= s[i + 1]

\* The elements of a set of numbers in order.
Ascending(S) == CHOOSE s \in SetToSeqs(S) : Increasing(s)

Stay(from, to) == stage = from /\ stage' = to

\* What ffprobe returns is cut to the clip, and counted.
Probe ==
  LET i == ProbeInterval(video)
      found == {p \in video.pts : Tick * i[1] <= p /\ p <= Tick * i[2]}
      s == Ascending({p \in found : InClip(video, Time(video, p))})
  IN /\ stage = "probe" /\ cand' = s
     /\ IF InSource(video) /\ s # <<>> /\ Len(s) <= CandidateLimit(video)
          THEN Stay("probe", "select") ELSE Stay("probe", "refused")
     /\ UNCHANGED <<video, chosen, shown, calls, approved, converted>>

Select ==
  LET s == [i \in Outputs(video) |-> Nearest(video, cand, i)]
      ms == [i \in Outputs(video) |-> Requested(video, i) \div Milli]
  IN /\ stage = "select" /\ chosen' = s
     /\ IF Count(video) \in MinimumFrames..MaximumFrames /\ Ordered(s) /\ Increasing(ms)
          THEN Stay("select", "decode") ELSE Stay("select", "refused")
     /\ UNCHANGED <<video, cand, shown, calls, approved, converted>>

\* (faulty) the frames are taken in the order of the outputs, each once
DetectByIndex ==
  LET frames == Ascending({cand[chosen[i]] : i \in Outputs(video)})
  IN /\ Stay("decode", "receipt")
     /\ shown' = [i \in Outputs(video) |-> frames[IF i < Len(frames) THEN i ELSE Len(frames)]]
     /\ calls' = [i \in Outputs(video) |-> Requested(video, i) \div Milli]
     /\ UNCHANGED <<video, cand, chosen, approved, converted>>

\* The selected frames are decoded in the order of their times; each is shown
\* to the detector for every output that chose it, in their order.
Detect ==
  LET before(i, j) == \/ cand[chosen[i]] < cand[chosen[j]]
                      \/ cand[chosen[i]] = cand[chosen[j]] /\ i < j
      order == CHOOSE s \in SetToSeqs(Outputs(video)) :
                 \A k \in 1..(Count(video) - 1) : before(s[k], s[k + 1])
  IN /\ Stay("decode", "receipt")
     /\ shown' = [i \in Outputs(video) |-> cand[chosen[i]]]
     /\ calls' = [k \in DOMAIN order |-> Requested(video, order[k]) \div Milli]
     /\ UNCHANGED <<video, cand, chosen, approved, converted>>

Receipt == [from |-> video.from, to |-> video.to, pts |-> cand, index |-> chosen,
            source |-> [i \in Outputs(video) |-> cand[chosen[i]]],
            requested |-> [i \in Outputs(video) |-> Requested(video, i)],
            time |-> [i \in Outputs(video) |-> ToMicroseconds(Time(video, cand[chosen[i]]), Tick)],
            probe |-> ProbeInterval(video), limit |-> CandidateLimit(video), hash |-> shown]

-----------------------------------------------------------------------------
(* The host: functions of its own over the receipt and the invocation *)

HostMicroseconds(num, den) ==
  LET q == num \div den  r == num - q * den IN IF r * 2 > den THEN q + 1 ELSE q

HostLimit(duration) ==
  LET scaled == duration * MaximumRate
      n == scaled \div Second + (IF scaled % Second # 0 THEN 1 ELSE 0) + 2
  IN  IF n < MaximumCandidates THEN n ELSE MaximumCandidates

HostProbe(v) ==
  LET guarded == v.offset + Tick * v.from - Tick * v.gap
  IN  <<HostMicroseconds(IF guarded > 0 THEN guarded ELSE 0, Tick),
        HostMicroseconds(v.offset + Tick * v.to + Tick * v.gap * (v.depth + 1), Tick)>>

HostAccepts(v, r) ==
  LET duration == v.to - v.from
      n == (duration * TargetRate + Second - 1) \div Second
      centre(i) == 2 * n * v.from + (2 * i - 1) * duration
      time(p) == p - v.offset
      gap(i, k) == LET d == 2 * n * time(r.pts[k]) - Tick * centre(i) IN IF d >= 0 THEN d ELSE -d
  IN /\ r.from = v.from /\ r.to = v.to
     /\ r.limit = HostLimit(duration) /\ Len(r.pts) \in 1..r.limit
     /\ r.probe = HostProbe(v) /\ r.probe[1] < r.probe[2]
     /\ Increasing(r.pts) /\ \A k \in DOMAIN r.pts : InClip(v, time(r.pts[k]))
     /\ n \in MinimumFrames..MaximumFrames /\ Len(r.requested) = n
     /\ \A i \in 1..n :
          /\ r.requested[i] = HostMicroseconds(centre(i), 2 * n)
          /\ r.index[i] \in DOMAIN r.pts /\ r.source[i] = r.pts[r.index[i]]
          /\ \A k \in DOMAIN r.pts :
               gap(i, r.index[i]) < gap(i, k)
               \/ (gap(i, r.index[i]) = gap(i, k) /\ r.index[i] <= k)
          /\ r.time[i] = HostMicroseconds(time(r.source[i]), Tick)
     /\ Ordered(r.index) /\ Ordered(r.source)
     /\ \A i \in 2..n : r.source[i] = r.source[i - 1] => r.hash[i] = r.hash[i - 1]

HostChecks ==
  /\ stage = "receipt" /\ approved' = HostAccepts(video, Receipt)
  /\ Stay("receipt", IF approved' THEN "published" ELSE "rejected")
  /\ UNCHANGED <<video, cand, chosen, shown, calls, converted>>

-----------------------------------------------------------------------------
(* The conversion looks at the arrays' timestamps alone *)

Convertible(r) ==
  LET n == Len(r.requested) IN
  /\ Increasing(r.requested) /\ Ordered(r.time) /\ Ordered(r.source) /\ Ordered(r.index)
  /\ (r.to - r.from) \in MinimumClip..MaximumClip
  /\ r.from <= r.requested[1] /\ r.requested[n] < r.to
  /\ r.from <= r.time[1] /\ r.time[n] < r.to

Convert ==
  /\ stage = "published" /\ converted' = Convertible(Receipt)
  /\ Stay("published", "done")
  /\ UNCHANGED <<video, cand, chosen, shown, calls, approved>>

SelectionInit ==
  /\ video \in {v \in Videos : Duration(v) \in MinimumClip..MaximumClip}
  /\ stage = "probe"
  /\ cand = <<>> /\ chosen = <<>> /\ shown = <<>> /\ calls = <<>>
  /\ approved = FALSE /\ converted = FALSE

SelectionNext == Probe \/ Select \/ Detect \/ HostChecks \/ Convert

SelectionSpec == SelectionInit /\ [][SelectionNext]_selectionVars

-----------------------------------------------------------------------------
(* Properties *)

(* No frame of the clip is missed: the guards around the probed interval    *)
(* outweigh the rounding of its ends.                                       *)
NoFrameMissed ==
  stage # "probe" => {cand[i] : i \in DOMAIN cand} = {p \in video.pts : InClip(video, Time(video, p))}

(* The detector is run in VIDEO mode, where timestamps must grow from call  *)
(* to call: frames are decoded in the order of their times and not of the   *)
(* outputs, so this needs the selection to be monotone, and millisecond     *)
(* timestamps to stay apart (_extract_landmarks).  Every output is made,    *)
(* from the frame the receipt names for it, and that frame is the nearest   *)
(* of the whole clip.                                                       *)
DetectorOrdered ==
  /\ NoFrameMissed
  /\ stage \in {"receipt", "published", "done"} =>
       /\ Increasing(calls) /\ Len(calls) = Count(video)
       /\ shown = [i \in Outputs(video) |-> cand[chosen[i]]]
       /\ \A i \in Outputs(video), p \in video.pts : InClip(video, Time(video, p)) =>
            Distance(video, shown, i, i) <= Distance(video, [shown EXCEPT ![i] = p], i, i)

(* The three copies of the checks agree.  What the worker publishes the     *)
(* host accepts; and what the host accepts the conversion accepts, except   *)
(* when the last selected frame lies so near the end of the clip that its   *)
(* time rounds to the end itself, which the worker and the host allow and   *)
(* the conversion refuses (holistic_motion.py:521).                         *)
ReceiptAgrees ==
  /\ stage # "rejected"
  /\ stage = "done" => (converted <=> Receipt.time[Count(video)] < video.to)
=============================================================================
