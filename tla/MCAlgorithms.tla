---------------------------- MODULE MCAlgorithms ----------------------------
(* The components in which one process computes over bounded inputs, for     *)
(* TLC: frame selection and its receipt, the mapping of the landmarks, the   *)
(* decoders, the tokenizer, the selection evidence, and the history of       *)
(* releases that the release tool verifies.  They share no state, so in a    *)
(* behaviour one component moves, as `part` says, and the others stay in one *)
(* of their initial states.                                                  *)
EXTENDS ReleaseHistory, LandmarkMapping, FrameSelection, SelectionEvidence,
        Tokenizer, Decoding

(* Frame selection: units small enough for every rounding to occur, and clip *)
(* bounds, offsets and three presentation times in every relation.           *)
Times == {{a, b, c} : a \in 0..22, b \in {1, 6, 10, 15}, c \in 3..20}
SomeVideos == [length : {13, 18}, from : {0, 1}, to : {3, 4, 5}, offset : {0, 3}, gap : {1},
               depth : {0, 1}, pts : Times]

(* The mapping: distances around the ambiguity and the maximum.              *)
SomeDistances == 0..4

(* Decoding: a network without symmetry or memory, with ties and impossible  *)
(* tokens; ten networks in pairs, that is, batches of two samples.           *)
Nothing == -99
SomeNetwork(m, before, t) ==
  LET last == IF before = <<>> THEN 0 ELSE before[Len(before)]
      x == (m * (t + 1) + 3 * Len(before) + last * (m + 2) + t * t) % 7
  IN  IF x = 6 THEN Nothing ELSE -x
Searches == [samples : [1..2 -> 0..9], width : 1..3, ngram : 2..3]

(* Tokenizer: bytes that begin, continue and break characters of two, three  *)
(* and four bytes, surrogates among them; two words, one with a marker; and  *)
(* vocabularies that are each wrong in one piece.                            *)
Word(w) == [text |-> w, byte |-> FALSE, control |-> FALSE, unknown |-> FALSE, unused |-> FALSE]
SomeBytes == {65, 195, 169, 224, 237, 159, 160, 240, 244, 143, 144}
Good == [i \in (0..3) \cup {4 + b : b \in SomeBytes} \cup {260, 261} |->
           CASE i < 3   -> [Word(SpecialTexts[i + 1]) EXCEPT !.control = TRUE]
             [] i = 3   -> [Word(SpecialTexts[i + 1]) EXCEPT !.unknown = TRUE]
             [] i = 260 -> Word(<<9601, 97>>)
             [] i = 261 -> Word(<<98>>)
             [] OTHER   -> [Word(i - 4) EXCEPT !.byte = TRUE]]
SomeVocabularies == {Good, [Good EXCEPT ![261].text = <<>>], [Good EXCEPT ![261].text = <<9601, 97>>], [Good EXCEPT ![260].control = TRUE], [Good EXCEPT ![261].byte = TRUE],
                 [Good EXCEPT ![0].control = FALSE], [Good EXCEPT ![69].byte = FALSE],
                 [Good EXCEPT ![69].text = 66], [Good EXCEPT ![3].unknown = FALSE]}
SomeTokens == (DOMAIN Good \cup {-1, 262}) \ {1}

(* Evidence: predictions that are right, half right and wrong with a         *)
(* repetition, for two samples of one and two words.                         *)
WordCounts == <<1, 2>>
SomePredictions == {[edits |-> 0, text |-> 1, tokens |-> "clean"],
                    [edits |-> 1, text |-> 2, tokens |-> "clean"],
                    [edits |-> 2, text |-> 1, tokens |-> "repeats"]}

VARIABLE part

OneVideo == [length |-> 13, from |-> 0, to |-> 3, offset |-> 0, gap |-> 1, depth |-> 0, pts |-> {1, 6, 10}]

NoFrames == video = OneVideo /\ SelectionInit
NoHands == MappingInit
NoSearch == call = [samples |-> <<0, 1>>, width |-> 1, ngram |-> 2] /\ SearchInit
NoTokens == vocabulary = Good /\ TextInit
NoReports == task = "selection" /\ EvidenceInit
NoHistory == Init /\ kind = "public"

EitherInit ==
  \/ part = "frames"   /\ SelectionInit /\ NoHands /\ NoSearch /\ NoTokens /\ NoReports /\ NoHistory
  \/ part = "hands"    /\ NoFrames /\ MappingInit /\ NoSearch /\ NoTokens /\ NoReports /\ NoHistory
  \/ part = "search"   /\ NoFrames /\ NoHands /\ SearchInit /\ NoTokens /\ NoReports /\ NoHistory
  \/ part = "tokens"   /\ NoFrames /\ NoHands /\ NoSearch /\ TextInit /\ NoReports /\ NoHistory
  \/ part = "evidence" /\ NoFrames /\ NoHands /\ NoSearch /\ NoTokens /\ EvidenceInit /\ NoHistory
  \/ part = "history"  /\ NoFrames /\ NoHands /\ NoSearch /\ NoTokens /\ NoReports /\ Init

Choose  == part = "frames"   /\ SelectionNext /\ UNCHANGED <<part, mappingVars, searchVars, textVars, evidenceVars, vars>>
Map     == part = "hands"    /\ MappingNext /\ UNCHANGED <<part, selectionVars, searchVars, textVars, evidenceVars, vars>>
Search  == part = "search"   /\ SearchNext /\ UNCHANGED <<part, selectionVars, mappingVars, textVars, evidenceVars, vars>>
Decode  == part = "tokens"   /\ TextNext /\ UNCHANGED <<part, selectionVars, mappingVars, searchVars, evidenceVars, vars>>
Report  == part = "evidence" /\ EvidenceNext /\ UNCHANGED <<part, selectionVars, mappingVars, searchVars, textVars, vars>>
Release == part = "history"  /\ Next /\ UNCHANGED <<part, selectionVars, mappingVars, searchVars, textVars, evidenceVars>>

EitherNext == Choose \/ Map \/ Search \/ Decode \/ Report \/ Release

EitherSpec == EitherInit /\ [][EitherNext]_<<part, selectionVars, mappingVars, searchVars, textVars, evidenceVars, vars>>

=============================================================================
