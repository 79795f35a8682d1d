-------------------------- MODULE SelectionEvidence --------------------------
(* The public evidence of a release (src/bitsign_motion/                    *)
(* s1_release_evidence.py): project_selection_ledger turns three private    *)
(* reports, of the decoder, the checkpoints and the guidance, into the      *)
(* ledger that says which model was selected and why;                       *)
(* project_motion_ablation does the same for one report.  Every number a    *)
(* report claims is computed again from its predictions.  A score is the    *)
(* sum over the samples, in units of 1 / Unit of a sample.                  *)
EXTENDS Integers, FiniteSets, Sequences, SequencesExt, FiniteSetsExt, Functions
CONSTANTS
  SampleCount,
  Words,        \* the words of each sample's reference
  Unit,         \* a multiple of every count of words
  Predictions,  \* [edits, text, tokens]: what was generated for a sample
  EpochCount, ScaleCount,
  Baseline,     \* the position of epoch 20 among the checkpoints
  Authorities,  \* inventory of samples, tokenizer and source a report names
  States,       \* states of the model; the checkpoints have the first ones
  Revisions, Evaluated   \* Evaluated: the one the decoder report must name

\* In the order of the sample identifiers.
Samples == 1..SampleCount
Epochs == 1..EpochCount
Scales == 1..ScaleCount

ASSUME SomeSamples == SampleCount \in Nat /\ SampleCount >= 2
ASSUME WordsDivideUnit ==
  Unit \in Nat /\ \A s \in Samples : Words[s] \in Nat \ {0} /\ Unit % Words[s] = 0
ASSUME EditsAreCounted == \A p \in Predictions : p.edits \in Nat
ASSUME SomeModels == EpochCount \in Nat \ {0} /\ ScaleCount \in Nat \ {0} /\ Epochs \subseteq States
ASSUME RevisionKnown == Evaluated \in Revisions

VARIABLES
  task,      \* "selection" or "ablation"
  reports,   \* the private reports taken so far
  public     \* the public report, None before, Refused
evidenceVars == <<task, reports, public>>

None == [stage |-> "none"]
Refused == [stage |-> "refused"]
Rows == [Samples -> Predictions]

EvidenceInit == task \in {"selection", "ablation"} /\ reports = <<>> /\ public = None

-----------------------------------------------------------------------------
(* A row of predictions, and what a private report claims of it: the words, *)
(* the error rate and the score of each prediction, and their aggregates    *)

Errors(s, p) == p.edits * (Unit \div Words[s])
Points(s, p) == IF p.edits >= Words[s] THEN 0 ELSE (Words[s] - p.edits) * (Unit \div Words[s])
Score(row) == SumFunction([s \in Samples |-> Points(s, row[s])])
Wer(row) == SumFunction([s \in Samples |-> Errors(s, row[s])])
Unique(row) == Cardinality({row[s].text : s \in Samples})
Recomputed ==
  [row \in Rows |->
     [each |-> [s \in Samples |-> [words |-> Words[s], wer |-> Errors(s, row[s]),
                                    score |-> Points(s, row[s])]],
      wer |-> Wer(row), score |-> Score(row), unique |-> Unique(row)]]

\* Tokens after the end are refused always, a suppressed token and a repeated
\* trigram only of a beam.
Emissible(p, beam) == p.tokens = "clean" \/ (p.tokens = "repeats" /\ ~beam)

\* _recompute_private_result, _validate_private_motion_prediction_integrity:
\* the counts of words are the inventory's (in the ablation, whose inventory
\* has none, those of the first condition), and all arithmetic is repeated.
Reproduces(row, claim, beam) ==
  claim = Recomputed[row] /\ \A s \in Samples : Emissible(row[s], beam)

\* _aggregate_result: what is published of a row
Summary(claim) == [wer |-> claim.wer, score |-> claim.score, unique |-> claim.unique]
Summaries(claims) == [i \in DOMAIN claims |-> Summary(claims[i])]

\* _paired_score_counts, _paired_counts: of the claimed scores, once they have
\* been recomputed
Paired(left, right) ==
  LET Count(Test(_, _)) ==
        Cardinality({s \in Samples : Test(left.each[s].score, right.each[s].score)})
  IN <<Count(LAMBDA a, b : a > b), Count(LAMBDA a, b : a = b), Count(LAMBDA a, b : a < b)>>

\* max by (score, -position)
Winner(claims) ==
  CHOOSE i \in DOMAIN claims : \A j \in DOMAIN claims :
    claims[i].score > claims[j].score \/ (claims[i].score = claims[j].score /\ i <= j)

-----------------------------------------------------------------------------
(* The selection *)

Decoder == 1
Checkpoint == 2
Guidance == 3
Beam == reports[Decoder].rows[2]
Selected == Winner(reports[Checkpoint].claims)

\* What a report may claim of its rows: the truth, or of one row something
\* else, of a prediction, an aggregate, or both so that they agree.
Truth(rows) == [i \in DOMAIN rows |-> Recomputed[rows[i]]]
Misstated(claim) ==
  {[claim EXCEPT !.wer = @ + 1], [claim EXCEPT !.score = @ + 1], [claim EXCEPT !.unique = @ + 1],
   [claim EXCEPT !.each[1].words = @ + 1], [claim EXCEPT !.each[1].wer = @ + 1],
   [claim EXCEPT !.each[1].score = @ + 1], [claim EXCEPT !.each[1].score = @ + 1, !.score = @ + 1]}
Stated(rows, i) == {Truth(rows)} \cup {[Truth(rows) EXCEPT ![i] = c] : c \in Misstated(Truth(rows)[i])}

Take(report, accepted) ==
  IF accepted THEN reports' = Append(reports, report) /\ UNCHANGED <<task, public>>
  ELSE reports' = <<>> /\ public' = Refused /\ UNCHANGED task

\* The greedy baseline and the beam: the beam must be better, by as much and on
\* as many samples as the report says.
TakeDecoder(rows, claims, counts, delta, authority, state, evaluated) ==
  Take([rows |-> rows, claims |-> claims, counts |-> counts, authority |-> authority,
        state |-> state, evaluated |-> evaluated],
       /\ Reproduces(rows[1], claims[1], FALSE) /\ Reproduces(rows[2], claims[2], TRUE)
       /\ claims[1].score > 0 /\ delta > 0
       /\ delta = claims[2].score - claims[1].score
       /\ counts = Paired(claims[2], claims[1]) /\ evaluated = Evaluated)

\* One row for each epoch: the winner is the beam of the decoder report.
TakeCheckpoint(rows, claims, selected, authority) ==
  Take([rows |-> rows, claims |-> claims, selected |-> selected, authority |-> authority],
       /\ authority = reports[Decoder].authority
       /\ selected = Winner(claims) /\ rows[selected] = Beam
       /\ \A e \in Epochs : Reproduces(rows[e], claims[e], TRUE))

\* (faulty) the results of the scales but the first are taken as claimed
TakeGuidanceTrusting(rows, claims, selected, authority, state) ==
  Take([rows |-> rows, claims |-> claims, selected |-> selected,
        authority |-> authority, state |-> state],
       /\ authority = reports[Decoder].authority
       /\ selected = 1 /\ rows[1] = Beam
       /\ reports[Decoder].state = Selected /\ state = Selected
       /\ selected = Winner(claims) /\ Reproduces(rows[1], claims[1], TRUE))

\* One row for each scale: the first, no guidance, wins and is the beam.
TakeGuidance(rows, claims, selected, authority, state) ==
  Take([rows |-> rows, claims |-> claims, selected |-> selected,
        authority |-> authority, state |-> state],
       /\ authority = reports[Decoder].authority
       /\ selected = 1 /\ rows[1] = Beam
       /\ reports[Decoder].state = Selected /\ state = Selected
       /\ selected = Winner(claims)
       /\ \A g \in Scales : Reproduces(rows[g], claims[g], TRUE))

\* validate_selection_ledger
LedgerValid(l, release) ==
  /\ l.release = release /\ l.epoch = Baseline
  /\ l.basis = IF l.evaluated = l.release THEN "direct" ELSE "rebind"
  /\ l.basis = "rebind" => l.evaluated = Evaluated
  /\ l.decoder[1].score > 0 /\ l.delta = l.decoder[2].score - l.decoder[1].score
  /\ l.delta > 0 /\ FoldSeq(+, 0, l.counts) = SampleCount
  /\ Winner(l.checkpoints) = l.epoch /\ l.checkpoints[l.epoch].score = l.decoder[2].score
  /\ l.scale = Winner(l.guidance) /\ l.scale = 1 /\ l.guidance[1].score = l.decoder[2].score

\* The ledger, and its own validation
EmitLedger(release) ==
  LET d == reports[Decoder]
      ledger == [stage |-> "ledger", release |-> release, evaluated |-> d.evaluated,
                 basis |-> IF d.evaluated = release THEN "direct" ELSE "rebind",
                 decoder |-> Summaries(d.claims), counts |-> d.counts,
                 delta |-> d.claims[2].score - d.claims[1].score,
                 checkpoints |-> Summaries(reports[Checkpoint].claims), epoch |-> Selected,
                 state |-> Selected, guidance |-> Summaries(reports[Guidance].claims),
                 scale |-> reports[Guidance].selected]
  IN /\ public' = IF LedgerValid(ledger, release) THEN ledger ELSE Refused
     /\ UNCHANGED <<task, reports>>

-----------------------------------------------------------------------------
(* The ablation of motion *)

\* The samples in the order of a hash; each gets the motion of the next.
Orders == {o \in [Samples -> Samples] : Range(o) = Samples}
Donors(order) ==
  [s \in Samples |-> LET i == CHOOSE i \in Samples : order[i] = s
                     IN order[(i % SampleCount) + 1]]

\* validate_motion_ablation
AblationValid(a, release) ==
  LET score == [i \in 1..3 |-> a.conditions[i].score]
  IN /\ a.release = release
     /\ a.effects = <<score[1] - score[2], score[1] - score[3]>>
     /\ score[2] > score[1] /\ score[1] > score[3]
     /\ \A counts \in {a.zero, a.deranged} : FoldSeq(+, 0, counts) = SampleCount

\* rows: real, zero and deranged motion; motion: the samples whose motion each
\* prediction of the third was made from; effects: by how much the first is
\* better than the others
EmitAblation(order, rows, claims, motion, effects, release) ==
  LET score == [i \in 1..3 |-> claims[i].score]
      report == [stage |-> "ablation", release |-> release, conditions |-> Summaries(claims),
                 effects |-> effects,
                 zero |-> Paired(claims[1], claims[2]), deranged |-> Paired(claims[1], claims[3])]
  IN /\ reports' = <<[rows |-> rows, motion |-> motion]>>
     /\ public' =
          IF /\ \A i \in 1..3 : Reproduces(rows[i], claims[i], TRUE)
             /\ motion = Donors(order)
             /\ score[2] > score[1] /\ score[1] > score[3]
             /\ effects = <<score[1] - score[2], score[1] - score[3]>>
             /\ AblationValid(report, release)
          THEN report ELSE Refused
     /\ UNCHANGED task

-----------------------------------------------------------------------------
\* Nothing is published and so many reports are taken.
Turn(t, n) == task = t /\ public = None /\ Len(reports) = n

Difference(a, b) == Recomputed[a].score - Recomputed[b].score

EvidenceNext ==
  \/ /\ Turn("selection", 0)
     /\ \E rows \in [1..2 -> Rows] : \E claims \in Stated(rows, 1) \cup Stated(rows, 2) :
          \E counts \in {Paired(claims[2], claims[1]), Paired(claims[1], claims[2])}, wrong \in {0, 1},
             authority \in Authorities, state \in States, evaluated \in Revisions :
            TakeDecoder(rows, claims, counts, Difference(rows[2], rows[1]) + wrong,
                        authority, state, evaluated)
  \/ /\ Turn("selection", 1)
     /\ \E rows \in [Epochs -> Rows] : \E claims \in Stated(rows, 1) :
          \E selected \in Epochs, authority \in Authorities :
            TakeCheckpoint(rows, claims, selected, authority)
  \/ /\ Turn("selection", 2)
     /\ \E rows \in [Scales -> Rows] : \E claims \in Stated(rows, ScaleCount) :
          \E selected \in Scales, authority \in Authorities, state \in States :
            TakeGuidance(rows, claims, selected, authority, state)
  \/ Turn("selection", 3) /\ \E release \in Revisions : EmitLedger(release)
  \/ /\ Turn("ablation", 0)
     /\ \E rows \in [1..3 -> Rows] : \E claims \in Stated(rows, 3) :
          \E order \in Orders, motion \in [Samples -> Samples], wrong \in {0, 1}, release \in Revisions :
            EmitAblation(order, rows, claims, motion,
                         <<Difference(rows[1], rows[2]), Difference(rows[1], rows[3]) + wrong>>, release)

EvidenceSpec == EvidenceInit /\ [][EvidenceNext]_evidenceVars

-----------------------------------------------------------------------------
(* Correctness *)

\* A sample is solved to the extent of the words its edits leave, never less
\* than nothing: over a common denominator.
Solves(s, p) == (Max({0, Words[s] - p.edits}) * Unit) \div Words[s]
Solved(row) == SumFunction([s \in Samples |-> Solves(s, row[s])])

\* What there is to say of rows of predictions: how wrong they are, how much
\* they solve, and how many answers they have; of two of them, on how many
\* samples the first solves more, as much and less; of the best, that it is
\* the first of them.
Facts(rows) ==
  [i \in DOMAIN rows |-> [wer |-> Wer(rows[i]), score |-> Solved(rows[i]), unique |-> Unique(rows[i])]]
SolvesMore(a, b) == Cardinality({s \in Samples : Solves(s, a[s]) > Solves(s, b[s])})
Compared(a, b) ==
  <<SolvesMore(a, b), SampleCount - SolvesMore(a, b) - SolvesMore(b, a), SolvesMore(b, a)>>
FirstOfBest(i, rows) ==
  i \in DOMAIN rows /\ \A j \in DOMAIN rows :
    Solved(rows[j]) <= Solved(rows[i]) /\ (j < i => Solved(rows[j]) < Solved(rows[i]))
Clean(row) == \A s \in Samples : row[s].tokens = "clean"

\* Every number of a published ledger is the truth of the predictions: of the
\* greedy baseline and the beam, of each epoch and of each scale; by how much
\* and on how many samples the beam is better, which it is.  The selected
\* epoch and scale are the first of the best, and both are the beam; the three
\* reports speak of the same samples and of one state of the model, and no
\* beam of theirs repeats itself.
LedgerTrue ==
  public.stage = "ledger" =>
    LET d == reports[Decoder]
        c == reports[Checkpoint]
        g == reports[Guidance]
    IN /\ public.decoder = Facts(d.rows)
       /\ public.checkpoints = Facts(c.rows) /\ public.guidance = Facts(g.rows)
       /\ public.delta = Solved(Beam) - Solved(d.rows[1]) /\ public.delta > 0
       /\ public.counts = Compared(Beam, d.rows[1])
       /\ FirstOfBest(public.epoch, c.rows) /\ c.rows[public.epoch] = Beam
       /\ FirstOfBest(public.scale, g.rows) /\ g.rows[public.scale] = Beam
       /\ {d.state, g.state} = {public.state} /\ public.state = public.epoch /\ public.epoch = Baseline
       /\ {d.authority} = {c.authority, g.authority}
       /\ public.evaluated = Evaluated
       /\ public.basis = "direct" <=> public.release = Evaluated
       /\ Clean(Beam) /\ \A e \in Epochs : Clean(c.rows[e])
       /\ \A i \in Scales : Clean(g.rows[i])

\* A published ablation compares each sample's motion with no motion and with
\* the motion of another sample, each sample's motion used once; and its
\* numbers, its order and its counts are those of the predictions.
AblationTrue ==
  public.stage = "ablation" =>
    LET r == reports[1]
    IN /\ \A s \in Samples : r.motion[s] # s
       /\ Range(r.motion) = Samples
       /\ public.conditions = Facts(r.rows)
       /\ public.effects = <<Solved(r.rows[1]) - Solved(r.rows[2]), Solved(r.rows[1]) - Solved(r.rows[3])>>
       /\ Solved(r.rows[2]) > Solved(r.rows[1]) /\ Solved(r.rows[1]) > Solved(r.rows[3])
       /\ public.zero = Compared(r.rows[1], r.rows[2])
       /\ public.deranged = Compared(r.rows[1], r.rows[3])
       /\ \A i \in 1..3 : Clean(r.rows[i])

\* EvidenceTrue: every number that is published is what the private
\* predictions say (s1_release_evidence.py:1350-1499, 1832-1993).
EvidenceTrue == LedgerTrue /\ AblationTrue
=============================================================================
