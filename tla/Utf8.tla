--------------------------------- MODULE Utf8 ---------------------------------
(***************************************************************************)
(* Text handed to an engine.  Both engines decode, and could disagree      *)
(* about bytes that are not UTF-8; value.h 30-103 therefore validates and  *)
(* repairs first, by one decoder, and the backends either refuse what it   *)
(* refuses (String::New) or hand the engine its repair (NewFromUtf8, every *)
(* declared name).                                                         *)
(*                                                                         *)
(* The decoder, step by step as NextUtf8 takes it, against the definition  *)
(* of UTF-8: the bytes of a character are those Encode gives a scalar      *)
(* value.  The ASSUMEs compare the two over every string of up to four     *)
(* boundary bytes; TLC evaluates them with the runs of MCScripts.          *)
(***************************************************************************)
LOCAL INSTANCE Integers
LOCAL INSTANCE Sequences
LOCAL INSTANCE FiniteSets

npos == -1

-----------------------------------------------------------------------------
(* The decoder.                                                            *)

\* What may follow a lead byte: how many bytes, and the range of the first of
\* them - narrowed after E0, ED, F0 and F4.
Trailing(lead) ==
  CASE lead \in 194 .. 223 -> 1
    [] lead \in 224 .. 239 -> 2
    [] lead \in 240 .. 244 -> 3
    [] OTHER -> 0
FirstRange(lead) ==
  (CASE lead = 224 -> 160 [] lead = 240 -> 144 [] OTHER -> 128)
    .. (CASE lead = 237 -> 159 [] lead = 244 -> 143 [] OTHER -> 191)

NextUtf8(bytes, at) ==
  LET lead == bytes[at]
      Follows(i) ==
        /\ at + i <= Len(bytes)
        /\ bytes[at + i] \in IF i = 1 THEN FirstRange(lead) ELSE 128 .. 191
      good == {n \in 0 .. Trailing(lead) : \A i \in 1 .. n : Follows(i)}
      run == CHOOSE n \in good : \A m \in good : m <= n
  IN IF lead < 128 THEN [length |-> 1, valid |-> TRUE]
     ELSE [length |-> 1 + run, valid |-> Trailing(lead) > 0 /\ run = Trailing(lead)]

\* Where each step of the decoder starts.
Starts(bytes, from) ==
  LET next[at \in from .. Len(bytes) + 1] ==
        IF at > Len(bytes) THEN {} ELSE {at} \cup next[at + NextUtf8(bytes, at).length]
  IN next[from]

FirstInvalidUtf8(bytes) ==
  LET bad == {at \in Starts(bytes, 1) : ~NextUtf8(bytes, at).valid}
  IN IF bad = {} THEN npos ELSE CHOOSE at \in bad : \A b \in bad : at <= b

IsUtf8(bytes) == FirstInvalidUtf8(bytes) = npos

Replacement == <<239, 191, 189>>

ReplaceInvalidUtf8(bytes, firstInvalid) ==
  LET rest[at \in firstInvalid .. Len(bytes) + 1] ==
        IF at > Len(bytes) THEN <<>>
        ELSE LET step == NextUtf8(bytes, at)
             IN (IF step.valid THEN SubSeq(bytes, at, at + step.length - 1) ELSE Replacement)
                  \o rest[at + step.length]
  IN SubSeq(bytes, 1, firstInvalid - 1) \o rest[firstInvalid]

-----------------------------------------------------------------------------
(* What a backend hands its engine: bytes, or nothing.                     *)

Refused == <<-1>>

\* String::New, symbols: strict on both backends.
V8NewString(bytes) == IF IsUtf8(bytes) THEN bytes ELSE Refused
SMMakeRawString(bytes) == IF IsUtf8(bytes) THEN bytes ELSE Refused

\* NewFromUtf8 repairs before it asks for a string.
NewFromUtf8(bytes) ==
  IF IsUtf8(bytes) THEN bytes
                   ELSE ReplaceInvalidUtf8(bytes, FirstInvalidUtf8(bytes))

\* Declared text: property and class names, constants, resource names.
V8RawString(bytes) == V8NewString(NewFromUtf8(bytes))
SMMakeTextString(bytes) == SMMakeRawString(NewFromUtf8(bytes))

-----------------------------------------------------------------------------
(* The reference: Unicode 3.9, D92.                                        *)

IsScalar(c) == c \in 0 .. 1114111 /\ c \notin 55296 .. 57343

Encode(c) ==
  CASE c < 128 -> <<c>>
    [] c \in 128 .. 2047 -> <<192 + (c \div 64), 128 + (c % 64)>>
    [] c \in 2048 .. 65535 ->
         <<224 + (c \div 4096), 128 + ((c \div 64) % 64), 128 + (c % 64)>>
    [] OTHER ->
         <<240 + (c \div 262144), 128 + ((c \div 4096) % 64),
           128 + ((c \div 64) % 64), 128 + (c % 64)>>

\* The scalar value bytes would stand for, were they a character's.
Decode(b) ==
  CASE Len(b) = 1 -> b[1]
    [] Len(b) = 2 -> (b[1] - 192) * 64 + (b[2] - 128)
    [] Len(b) = 3 -> (b[1] - 224) * 4096 + (b[2] - 128) * 64 + (b[3] - 128)
    [] OTHER -> (b[1] - 240) * 262144 + (b[2] - 128) * 4096 + (b[3] - 128) * 64 + (b[4] - 128)

IsCharacter(b) ==
  LET c == Decode(b) IN IsScalar(c) /\ Encode(c) = b

\* A byte either side of every boundary NextUtf8 draws.
Edges == {0, 127, 128, 143, 144, 159, 160, 191, 192, 193, 194, 223, 224, 225,
          236, 237, 238, 239, 240, 241, 243, 244, 245, 255}
Tails == {128, 143, 144, 159, 160, 191}

\* Bytes that begin some character: a tail drawn from the boundary completes
\* them, since every range a tail may be in has its ends there.
BeginsCharacter(b) ==
  \E more \in 0 .. 4 - Len(b) : \E tail \in [1 .. more -> Tails] : IsCharacter(b \o tail)

Inputs == (UNION {[1 .. n -> Edges] : n \in 0 .. 2})
            \cup {<<l, x, y>> : l \in {127, 194, 224, 225, 237, 240, 244}, x \in Edges, y \in Tails \cup {127, 192}}
            \cup {<<l, x, y, z>> : l \in {240, 241, 244}, x \in Tails, y \in {127, 128, 191, 224}, z \in {127, 191, 194}}

\* A step that reports a character found one, and a step that does not found
\* none there (NextUtf8's narrowed ranges: overlong forms, surrogates, and
\* anything above U+10FFFF).
ASSUME StepsAreCharacters ==
  \A b \in Inputs \ {<<>>} :
    LET step == NextUtf8(b, 1)
    IN /\ step.valid => IsCharacter(SubSeq(b, 1, step.length))
       /\ ~step.valid => \A n \in 1 .. Len(b) : ~IsCharacter(SubSeq(b, 1, n))

\* What is not a character is replaced by maximal subparts: the longest prefix
\* that could still have begun one, or a single byte.
ASSUME FaultsAreMaximalSubparts ==
  \A b \in Inputs \ {<<>>} :
    LET step == NextUtf8(b, 1)
        begun == {n \in 1 .. Len(b) : n <= 4 /\ BeginsCharacter(SubSeq(b, 1, n))}
    IN ~step.valid =>
         step.length = IF begun = {} THEN 1 ELSE CHOOSE n \in begun : \A m \in begun : m <= n

\* Repaired text is text, repairing it again changes nothing, and text that
\* needed no repair is handed over as it was.
ASSUME RepairedIsUtf8 ==
  \A b \in Inputs :
    /\ V8RawString(b) # Refused
    /\ V8RawString(b) = SMMakeTextString(b)
    /\ V8RawString(V8RawString(b)) = V8RawString(b)
    /\ IsUtf8(b) => V8RawString(b) = b

\* The strict form refuses exactly what the lossy form changes.
ASSUME StrictRefusesWhatLossyRepairs ==
  \A b \in Inputs :
    /\ (V8NewString(b) = Refused) <=> (V8RawString(b) # b)
    /\ SMMakeRawString(b) = V8NewString(b)

=============================================================================
