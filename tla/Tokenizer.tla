------------------------------ MODULE Tokenizer ------------------------------
(* The decode-only tokenizer (src/bitsign_motion/s1_decode_tokenizer.py):   *)
(* from_bytes accepts a vocabulary, decode turns the model's tokens into    *)
(* text, one token at a time.  Text is a sequence of code points.           *)
EXTENDS Integers, FiniteSets, Sequences, SequencesExt
CONSTANTS
  Vocabularies,  \* tokenizer records: functions from identifiers to pieces
                 \* [text, byte, control, unknown, unused]
  Fed,           \* the tokens that may come from the model, any integers
  MaximumTokens, MaximumBytes

PAD == 0
BOS == 1
EOS == 2
UNK == 3
FirstByte == 4
FirstWord == 260
Marker == 9601
Space == 32
UnknownSurface == <<32, 8263, 32>>
Replacement == 65533
SpecialTexts == <<"<pad>", "<bos>", "<eos>", "<unk>">>

ASSUME TokensAreIntegers == Fed \subseteq Int
\* Identifiers are natural numbers, the special ones among them; a word is a
\* sequence of code points.
ASSUME VocabulariesAreRecords ==
  \A v \in Vocabularies :
    /\ DOMAIN v \subseteq Nat /\ PAD..UNK \subseteq DOMAIN v
    /\ \A i \in DOMAIN v : i >= FirstWord => v[i].text \in Seq(Nat)
ASSUME TextLimits == MaximumTokens \in Nat /\ MaximumBytes \in Nat

VARIABLES
  vocabulary, loaded, \* "no", "yes" or "refused"
  tokens,             \* the tokens so far
  output, pending,    \* text, and bytes not yet decoded
  first,              \* dummy_prefix_eligible
  over,               \* the loop has met an end
  text                \* what decode returned, <<-1>> before, <<-2>> for an error
textVars == <<vocabulary, loaded, tokens, output, pending, first, over, text>>

NoText == <<-1>>
TooLong == <<-2>>

TextInit ==
  /\ vocabulary \in Vocabularies /\ loaded = "no" /\ tokens = <<>> /\ output = <<>>
  /\ pending = <<>> /\ first = TRUE /\ over = FALSE /\ text = NoText

-----------------------------------------------------------------------------
(* The vocabulary *)

Flags(p) == <<p.byte, p.control, p.unknown, p.unused>>

\* What the record must say of the piece with an identifier; the text of a
\* byte's piece stands for its name, by the byte.
ValidPiece(i, p) ==
  CASE i < UNK -> p.text = SpecialTexts[i + 1] /\ Flags(p) = <<FALSE, TRUE, FALSE, FALSE>>
    [] i = UNK -> p.text = SpecialTexts[i + 1] /\ Flags(p) = <<FALSE, FALSE, TRUE, FALSE>>
    [] i \in FirstByte..(FirstWord - 1) ->
         p.text = i - FirstByte /\ Flags(p) = <<TRUE, FALSE, FALSE, FALSE>>
    [] OTHER -> p.text # <<>> /\ Flags(p) = <<FALSE, FALSE, FALSE, FALSE>>

\* No two words are the same (words that spell a special or a byte's name are
\* left out, and so are the scores, which decoding does not read).
WordsDiffer(v) ==
  \A i, j \in DOMAIN v : FirstWord <= i /\ i < j => v[i].text # v[j].text

FromBytes ==
  /\ loaded = "no"
  /\ loaded' = IF /\ \A i \in DOMAIN vocabulary : ValidPiece(i, vocabulary[i])
                  /\ WordsDiffer(vocabulary)
               THEN "yes" ELSE "refused"
  /\ UNCHANGED <<vocabulary, tokens, output, pending, first, over, text>>

-----------------------------------------------------------------------------
(* Bytes to text *)

\* (faulty) surrogates are characters
WidthSurrogate(b, i) ==
  LET has(n) == i + n <= Len(b)
      cont(k) == b[i + k] \in 128..191
  IN  CASE b[i] <= 127 -> 1
        [] b[i] \in 194..223 -> IF has(1) /\ cont(1) THEN 2 ELSE 0
        [] b[i] \in 224..239 -> IF /\ has(2) /\ cont(1) /\ cont(2)
                                   /\ (b[i] = 224 => b[i + 1] >= 160) THEN 3 ELSE 0
        [] b[i] \in 240..244 -> IF has(3) /\ cont(1) /\ cont(2) /\ cont(3) THEN 4 ELSE 0
        [] OTHER -> 0

\* The width of the character that starts at i, 0 if none does.
Width(b, i) ==
  LET has(n) == i + n <= Len(b)
      cont(k) == b[i + k] \in 128..191
  IN  CASE b[i] <= 127 -> 1
        [] b[i] \in 194..223 -> IF has(1) /\ cont(1) THEN 2 ELSE 0
        [] b[i] \in 224..239 ->
             IF /\ has(2) /\ cont(1) /\ cont(2)
                /\ (b[i] = 224 => b[i + 1] >= 160) /\ (b[i] = 237 => b[i + 1] <= 159)
             THEN 3 ELSE 0
        [] b[i] \in 240..244 ->
             IF /\ has(3) /\ cont(1) /\ cont(2) /\ cont(3)
                /\ (b[i] = 240 => b[i + 1] >= 144) /\ (b[i] = 244 => b[i + 1] <= 143)
             THEN 4 ELSE 0
        [] OTHER -> 0

Scalar(b, i, w) ==
  CASE w = 1 -> b[i]
    [] w = 2 -> (b[i] % 32) * 64 + (b[i + 1] % 64)
    [] w = 3 -> (b[i] % 16) * 4096 + (b[i + 1] % 64) * 64 + (b[i + 2] % 64)
    [] w = 4 -> (b[i] % 8) * 262144 + (b[i + 1] % 64) * 4096 + (b[i + 2] % 64) * 64 + (b[i + 3] % 64)

\* Bytes read from the left, width[i] of them as a character where it is not 0;
\* a byte that starts none is replaced.
Reading(b, width) ==
  LET from[i \in 1..(Len(b) + 1)] ==
        IF i > Len(b) THEN <<>>
        ELSE IF width[i] = 0 THEN <<Replacement>> \o from[i + 1]
        ELSE <<Scalar(b, i, width[i])>> \o from[i + width[i]]
  IN  from[1]

\* _decode_bytes.
DecodeBytes(b) == Reading(b, [i \in DOMAIN b |-> Width(b, i)])

\* The encoded length of a code point.
Size(c) == IF c < 128 THEN 1 ELSE IF c < 2048 THEN 2 ELSE IF c < 65536 THEN 3 ELSE 4
Bytes(s) == SumFunction([i \in DOMAIN s |-> Size(s[i])])

-----------------------------------------------------------------------------
(* decode *)

Known(t) == IF t \in DOMAIN vocabulary THEN t ELSE UNK
Spaced(s) == [i \in DOMAIN s |-> IF s[i] = Marker THEN Space ELSE s[i]]

\* One token.  Everything that writes text writes the pending bytes first.
Feed(t) ==
  LET id == Known(t)
      piece == vocabulary[id]
      flushed == output \o DecodeBytes(pending)
      prefix == first /\ pending = <<>>
  IN
  /\ loaded = "yes" /\ text = NoText /\ ~over /\ Len(tokens) < MaximumTokens
  /\ tokens' = Append(tokens, t)
  /\ \/ /\ id = EOS
        /\ over' = TRUE /\ UNCHANGED <<output, pending, first>>
     \/ /\ id \in {PAD, BOS} \/ (id # EOS /\ piece.control)
        /\ UNCHANGED <<output, pending, first, over>>
     \/ /\ piece.byte
        /\ pending' = Append(pending, id - FirstByte) /\ UNCHANGED <<output, first, over>>
     \/ /\ id = UNK \/ piece.unknown
        /\ output' = flushed \o UnknownSurface
        /\ pending' = <<>> /\ first' = FALSE /\ UNCHANGED over
     \/ /\ id \notin {PAD, BOS, EOS, UNK} /\ ~piece.control /\ ~piece.byte /\ ~piece.unknown
        /\ output' = flushed \o (IF prefix /\ piece.text[1] = Marker
                                 THEN Tail(Spaced(piece.text)) ELSE Spaced(piece.text))
        /\ pending' = <<>> /\ first' = FALSE /\ UNCHANGED over
  /\ UNCHANGED <<vocabulary, loaded, text>>

\* The loop is over: the last bytes, and the ceiling.
Return ==
  LET s == output \o DecodeBytes(pending)
  IN /\ loaded = "yes" /\ text = NoText
     /\ text' = IF Bytes(s) > MaximumBytes THEN TooLong ELSE s
     /\ UNCHANGED <<vocabulary, loaded, tokens, output, pending, first, over>>

TextNext == FromBytes \/ (\E t \in Fed : Feed(t)) \/ Return
TextSpec == TextInit /\ [][TextNext]_textVars

-----------------------------------------------------------------------------
(* Properties *)

\* The reference for bytes: the UTF-8 encoding of each code point that is not
\* a surrogate, read from the left; a byte that starts none is replaced.
Utf8(c) ==
  CASE Size(c) = 1 -> <<c>>
    [] Size(c) = 2 -> <<192 + c \div 64, 128 + (c % 64)>>
    [] Size(c) = 3 -> <<224 + c \div 4096, 128 + ((c \div 64) % 64), 128 + (c % 64)>>
    [] Size(c) = 4 -> <<240 + c \div 262144, 128 + ((c \div 4096) % 64), 128 + ((c \div 64) % 64),
                        128 + (c % 64)>>
IsCodePoint(c) == (c >= 0 /\ c < 55296) \/ (c >= 57344 /\ c < 1114112)
ReferenceBytes(b) ==
  LET is(i, w) == /\ i + w - 1 <= Len(b) /\ IsCodePoint(Scalar(b, i, w))
                  /\ Utf8(Scalar(b, i, w)) = SubSeq(b, i, i + w - 1)
  IN  Reading(b, [i \in DOMAIN b |-> IF \E w \in 1..4 : is(i, w)
                                    THEN CHOOSE w \in 1..4 : is(i, w) ELSE 0])

\* The reference for tokens: what comes before the end, without padding and
\* beginnings; the bytes of each longest run together; unknown and
\* out-of-range tokens by their surface; words with their markers as spaces,
\* a leading one only where something comes before it.
Visible(s) ==
  FlattenSeq([k \in DOMAIN s |->
    IF s[k] \in {PAD, BOS} \/ \E j \in 1..k : s[j] = EOS THEN <<>> ELSE <<s[k]>>])
IsByte(t) == t \in DOMAIN vocabulary /\ t \in FirstByte..(FirstWord - 1)
Run(v, k) ==
  FlattenSeq([j \in DOMAIN v |->
    IF j >= k /\ \A i \in k..j : IsByte(v[i]) THEN <<v[j] - FirstByte>> ELSE <<>>])
Part(v, k) ==
  CASE IsByte(v[k]) -> IF k > 1 /\ IsByte(v[k - 1]) THEN <<>> ELSE ReferenceBytes(Run(v, k))
    [] v[k] = UNK \/ v[k] \notin DOMAIN vocabulary -> UnknownSurface
    [] OTHER -> LET w == vocabulary[v[k]].text
                IN  IF k = 1 /\ w[1] = Marker THEN Tail(Spaced(w)) ELSE Spaced(w)
ReferenceText(s) == FlattenSeq([k \in DOMAIN Visible(s) |-> Part(Visible(s), k)])

\* TextFaithful: a text that decode returns is the reference's for the tokens,
\* whatever vocabulary from_bytes accepted, and never longer than the ceiling;
\* it refuses a text only for its length.
TextFaithful ==
  text # NoText => LET r == ReferenceText(tokens) IN
    IF text = TooLong THEN Bytes(r) > MaximumBytes ELSE text = r /\ Bytes(text) <= MaximumBytes
=============================================================================
