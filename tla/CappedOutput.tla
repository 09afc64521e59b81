---------------------------- MODULE CappedOutput ----------------------------
(***************************************************************************)
(* How the Bash tool keeps and shows the output of a command               *)
(* (src/tools/bash.go): cappedWriter keeps a bounded number of bytes while *)
(* the command runs, truncateOutput then shows a bounded number of         *)
(* characters.  Both are pure, so this module has no variables.            *)
(*                                                                         *)
(* A character is "a" (one byte) or "z" (three bytes: a lead byte and two  *)
(* continuation bytes); the two- and four-byte forms add nothing the       *)
(* three-byte one does not show.  A byte is "a", "l" (lead) or "c"         *)
(* (continuation), and a rune that is no character reads "?".              *)
(***************************************************************************)
EXTENDS Integers, Sequences, FiniteSets

CONSTANTS
    CapBytes,  \* bashCapOutputBytes: bytes kept while the command runs
    MaxRunes   \* maxBashOutputSize: characters shown

Chars == {"a", "z"}
ByteSet == {"a", "l", "c"}

\* The longest character, in bytes (four in the code).
CharBytes == 3

(* bash.go:26-31 sizes the first cap by the second: 30000 characters of at *)
(* most 4 bytes fit in 128 KB with more than one character to spare.       *)
ASSUME CapAssumption ==
    /\ MaxRunes \in Nat \ {0}
    /\ CapBytes \in Nat
    /\ CapBytes >= CharBytes * MaxRunes + CharBytes

BytesOf(ch) == IF ch = "z" THEN <<"l", "c", "c">> ELSE <<ch>>

\* utf8SeqLen: the length a lead byte announces.
SeqLen(b) == IF b = "l" THEN CharBytes ELSE 1

(* Where cappedWriter.Write stops in a buffer it had to cut: it goes back  *)
(* over the continuation bytes at the end, and over the byte before them   *)
(* when fewer follow than it announces.  When as many follow, the          *)
(* character is whole, and what is kept is its lead byte alone.            *)
CutPoint(s) ==
    LET start == CHOOSE i \in 0..Len(s) :
                     /\ i = 0 \/ s[i] # "c"
                     /\ \A j \in (i + 1)..Len(s) : s[j] = "c"
    IN  IF start > 0 /\ Len(s) - start < SeqLen(s[start]) - 1 THEN start - 1 ELSE start

\* A plausible bug: the last chunk is kept whole.
WriteAll(buf, chunk) == IF Len(buf) >= CapBytes THEN buf ELSE buf \o chunk

\* cappedWriter.Write: what the buffer holds after a chunk arrives.
Write(buf, chunk) ==
    LET room == CapBytes - Len(buf)
        full == buf \o SubSeq(chunk, 1, room)
    IN  IF room <= 0 THEN buf
        ELSE IF room >= Len(chunk) THEN buf \o chunk
        ELSE SubSeq(full, 1, CutPoint(full))

\* The i-th byte belongs to a well-formed character that began before it.
Continues(s, i) ==
    \E lead \in {i - 1, i - 2} \cap DOMAIN s :
        s[lead] = "l" /\ lead + 2 \in DOMAIN s /\ s[lead + 1] = "c" /\ s[lead + 2] = "c"

\* []rune(s): every byte that continues nothing begins a rune, "?" when it is none.
Starts(s) == {i \in DOMAIN s : ~Continues(s, i)}
NthStart(s, n) == CHOOSE i \in Starts(s) : Cardinality({j \in Starts(s) : j <= i}) = n
RuneAt(s, i) == IF s[i] = "a" THEN "a" ELSE IF Continues(s, i + 1) THEN "z" ELSE "?"
Runes(s) == [n \in 1..Cardinality(Starts(s)) |-> RuneAt(s, NthStart(s, n))]

\* A plausible bug: the limit counts bytes.
ShownBytes(s) ==
    [text |-> Runes(SubSeq(s, 1, IF Len(s) <= MaxRunes THEN Len(s) ELSE MaxRunes)),
     truncated |-> Len(s) > MaxRunes]

\* truncateOutput: the runes shown, and whether the result says there are more.
Shown(s) == LET runes == Runes(s) IN
    [text |-> SubSeq(runes, 1, IF Len(runes) <= MaxRunes THEN Len(runes) ELSE MaxRunes),
     truncated |-> Len(runes) > MaxRunes]
=============================================================================
