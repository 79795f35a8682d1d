------------------------------ MODULE Decoding ------------------------------
(* Decoding of a batch by the portable model (src/bitsign_motion/           *)
(* portable_model.py): the beam search that the runtime uses, and beside it *)
(* the greedy decoding.  One step of the model is one token position of the *)
(* batch.  The network is a constant: the logarithm of a token's            *)
(* probability after the tokens before it, by sample, Impossible for minus  *)
(* infinity.  They are integers, so sums of them are exact.                 *)
EXTENDS Integers, FiniteSets, Sequences, FiniteSetsExt, SequencesExt
CONSTANTS
  Calls,       \* calls of the decoders: [samples, width, ngram]
  VocabularySize, TokenCount,
  Network(_, _, _), Impossible

PAD_TOKEN_ID == 0
BOS_TOKEN_ID == 1
EOS_TOKEN_ID == 2
Tokens == 0..(VocabularySize - 1)

\* What the decoders ask of their arguments; and the logarithms are numbers,
\* none of them below minus infinity.
ASSUME Controls ==
  /\ VocabularySize \in Nat /\ TokenCount \in Nat \ {0}
  /\ \A c \in Calls : c.width \in 1..(VocabularySize - 2) /\ c.ngram \in Nat \ {0, 1}
ASSUME Logarithms ==
  /\ Impossible \in Int
  /\ \A m \in UNION {ToSet(c.samples) : c \in Calls}, n \in 0..(TokenCount - 1), t \in Tokens :
       \A s \in [1..n -> Tokens] : Network(m, s, t) \in Int /\ Network(m, s, t) >= Impossible

VARIABLES
  call,
  at,         \* the position
  beams,      \* for each sample its beams [score, tokens, finished], best first
  previous,   \* the beams before the last position
  running,    \* "search", "done" or "stuck": RuntimeError
  row,        \* what greedy_decode has written for each sample
  ended       \* its finished
searchVars == <<call, at, beams, previous, running, row, ended>>

batch == call.samples
SampleIndices == DOMAIN batch
BeamWidth == call.width
NoRepeat == call.ngram

SearchInit ==
  /\ call \in Calls /\ at = 1 /\ running = "search"
  /\ beams = [i \in SampleIndices |-> <<[score |-> 0, tokens |-> <<>>, finished |-> FALSE]>>]
  /\ previous = beams
  /\ row = [i \in SampleIndices |-> <<>>] /\ ended = [i \in SampleIndices |-> FALSE]

-----------------------------------------------------------------------------
(* Orders, of token strings, beams and tokens *)

Before(s, t) ==
  \E i \in DOMAIN t : /\ i <= Len(s) + 1 /\ \A j \in 1..(i - 1) : s[j] = t[j]
                      /\ i <= Len(s) => s[i] < t[i]
Better(a, b) == a.score > b.score \/ (a.score = b.score /\ Before(a.tokens, b.tokens))
Likelier(m, tokens, t, u) ==
  LET p == Network(m, tokens, t)
      q == Network(m, tokens, u)
  IN  p > q \/ (p = q /\ t < u)

\* The members of S sorted: each has as many before it as its place says.
Sorted(S, order) ==
  [k \in 1..Cardinality(S) |-> CHOOSE x \in S : Cardinality({y \in S : <<y, x>> \in order}) = k - 1]
First(s, n) == SubSeq(s, 1, IF Len(s) < n THEN Len(s) ELSE n)

-----------------------------------------------------------------------------
(* A position *)

\* The tokens that may not come next: padding, the beginning, and whatever
\* would repeat an n-gram of the generated tokens.
Banned(size, tokens) ==
  {PAD_TOKEN_ID, BOS_TOKEN_ID} \cup
  {tokens[j + size - 1] : j \in
     {k \in 1..(Len(tokens) - size + 1) :
        SubSeq(tokens, k, k + size - 2) = SubSeq(tokens, Len(tokens) - size + 2, Len(tokens))}}

\* The rows of the one call of the network: every live beam of every sample.
Live == UNION {{[sample |-> i, beam |-> b] : b \in {c \in ToSet(beams[i]) : ~c.finished}} :
               i \in SampleIndices}

\* The tokens a row gives its sample: the first BeamWidth allowed ones, by
\* probability and then by token.
Allowed(m, size, tokens) ==
  {t \in Tokens \ Banned(size, tokens) : Network(m, tokens, t) # Impossible}
Accepted(m, size, width, tokens) ==
  LET allowed == Allowed(m, size, tokens)
  IN  First(Sorted(allowed, {p \in allowed \X allowed : Likelier(m, tokens, p[1], p[2])}), width)
AcceptedOf(r) == Accepted(batch[r.sample], NoRepeat, BeamWidth, r.beam.tokens)
Extension(m, b, t) == [score |-> b.score + Network(m, b.tokens, t),
                       tokens |-> Append(b.tokens, t), finished |-> t = EOS_TOKEN_ID]

\* (faulty) a finished beam leaves its place to the live ones
CandidatesLive(i) ==
  UNION {{Extension(batch[i], r.beam, t) : t \in ToSet(AcceptedOf(r))} : r \in {l \in Live : l.sample = i}}

Candidates(i) ==
  {b \in ToSet(beams[i]) : b.finished} \cup
  UNION {{Extension(batch[i], r.beam, t) : t \in ToSet(AcceptedOf(r))} : r \in {l \in Live : l.sample = i}}

\* Greedy decoding of one sample: argmax, the lowest token of equals.
Greedy(i) ==
  IF ended[i] THEN PAD_TOKEN_ID
  ELSE CHOOSE t \in Tokens : \A u \in Tokens \ {t} : Likelier(batch[i], row[i], t, u)

\* A position of the beam search, which raises when a live beam has no token.
BeamPosition ==
  /\ running = "search" /\ previous' = beams
  /\ IF Live = {} THEN running' = "done" /\ UNCHANGED beams
     ELSE IF \E r \in Live : AcceptedOf(r) = <<>>
          THEN running' = "stuck" /\ UNCHANGED beams
          ELSE /\ beams' = [i \in SampleIndices |->
                    LET all == Candidates(i)
                    IN  First(Sorted(all, {p \in all \X all : Better(p[1], p[2])}), BeamWidth)]
               /\ running' = IF at = TokenCount THEN "done" ELSE "search"

GreedyPosition ==
  IF \A i \in SampleIndices : ended[i] THEN UNCHANGED <<row, ended>>
  ELSE /\ row' = [i \in SampleIndices |-> Append(row[i], Greedy(i))]
       /\ ended' = [i \in SampleIndices |-> ended[i] \/ Greedy(i) = EOS_TOKEN_ID]

\* A position of both, or of the greedy decoding when the search has ended.
Position ==
  /\ at <= TokenCount /\ at' = at + 1
  /\ BeamPosition \/ (running # "search" /\ UNCHANGED <<beams, previous, running>>)
  /\ GreedyPosition
  /\ UNCHANGED call

SearchNext == Position
SearchSpec == SearchInit /\ [][SearchNext]_searchVars

Result(i) == beams[i][1].tokens

-----------------------------------------------------------------------------
(* Properties *)

\* The reference: tokens are well formed when they hold neither padding nor a
\* beginning, an end only at their end, and no n-gram twice; they are possible
\* when each is after those before it; and they rank by probability, then in
\* the order of strings.
WellFormed(size, x) ==
  /\ \A k \in DOMAIN x : x[k] \notin {PAD_TOKEN_ID, BOS_TOKEN_ID} /\ (x[k] = EOS_TOKEN_ID => k = Len(x))
  /\ \A j, k \in 1..(Len(x) - size + 1) : SubSeq(x, j, j + size - 1) = SubSeq(x, k, k + size - 1) => j = k
Possible(m, x) == \A k \in DOMAIN x : Network(m, SubSeq(x, 1, k - 1), x[k]) # Impossible
Probability(m, x) ==
  LET sum[k \in 0..Len(x)] == IF k = 0 THEN 0 ELSE sum[k - 1] + Network(m, SubSeq(x, 1, k - 1), x[k])
  IN  sum[Len(x)]
Over(m, y, x) ==
  Probability(m, y) > Probability(m, x) \/ (Probability(m, y) = Probability(m, x) /\ Before(y, x))

\* All strings that keep a finished one of the beams bs or continue a live one.
Reachable(m, size, bs) ==
  {x \in {b.tokens : b \in {c \in bs : c.finished}} \cup
         {Append(b.tokens, t) : t \in Tokens, b \in {c \in bs : ~c.finished}} :
     WellFormed(size, x) /\ Possible(m, x)}

\* SearchIsBest: after every position, the beams of a sample are exactly the
\* BeamWidth best well-formed strings among all those that keep a finished
\* beam of the position before or continue a live one by any possible token,
\* whatever the other samples of the batch do.
SearchIsBest ==
  at > 1 /\ running # "stuck" => \A i \in SampleIndices :
    LET all == Reachable(batch[i], NoRepeat, ToSet(previous[i]))
    IN  {b.tokens : b \in ToSet(beams[i])} =
        {x \in all : Cardinality({y \in all : Over(batch[i], y, x)}) < BeamWidth}

\* GreedyIsNarrow: greedy decoding pads a sample from its end on, and where it
\* writes a well-formed text, the search with one beam writes the same.
Text(s) == LET ends == {k \in DOMAIN s : s[k] = EOS_TOKEN_ID}
           IN  IF ends = {} THEN s ELSE First(s, Min(ends))
GreedyIsNarrow ==
  \A i \in SampleIndices :
    /\ \A k \in DOMAIN row[i] : k > Len(Text(row[i])) => row[i][k] = PAD_TOKEN_ID
    /\ BeamWidth = 1 /\ WellFormed(NoRepeat, Text(row[i])) /\ running # "stuck" => Result(i) = Text(row[i])

\* BeamsAreBest: both decoders write the best text that their width allows
\* (portable_model.py:485-651).
BeamsAreBest == SearchIsBest /\ GreedyIsNarrow
=============================================================================
