------------------------------ MODULE Checksum ------------------------------
(***************************************************************************)
(* The checksums of the packets the station makes itself (telex_tcp.c):    *)
(* tcp_csum sums the pseudo header and csum goes on with the packet's      *)
(* 16-bit words, in an unsigned 32-bit variable; at the end the carries    *)
(* are folded in twice and the result is complemented.  The reference is   *)
(* the one's complement sum, which folds every carry in at once.           *)
(*                                                                         *)
(* The word size is a parameter, the sum has two words: Base stands for    *)
(* 2^16.  Packets are made with headers only, of an even length.  (The     *)
(* specification has names of its own: one module proves theorems about it *)
(* and about Stats.)                                                       *)
(***************************************************************************)
EXTENDS Integers

CONSTANTS
  Base,      \* number of values of a word
  MaxWords   \* words summed up, pseudo header included

\* No more words than the 32-bit sum has room for.  An IP packet has at most
\* 32768 of 65536 + 1.
ASSUME BaseAssumption == Base \in Nat /\ Base > 1
ASSUME MaxWordsAssumption == MaxWords \in Nat /\ MaxWords <= Base + 1

Word == 0..(Base - 1)

VARIABLES
  words, \* words summed up
  sum,   \* `sum' of tcp_csum and csum
  ref    \* the one's complement sum of the same words

csum_vars == <<words, sum, ref>>

CsumInit == words = 0 /\ sum = 0 /\ ref = 0

\* Unsigned addition in two words.
Plus(s, w) == (s + w) % (Base * Base)

\* One's complement addition: the carry is added at the low end.
EndAround(r, w) == IF r + w < Base THEN r + w ELSE r + w - (Base - 1)

\* sum += a word of the pseudo header (tcp_csum) or of the packet (csum).
Add(w) ==
  /\ words < MaxWords
  /\ words' = words + 1
  /\ sum' = Plus(sum, w)
  /\ ref' = EndAround(ref, w)

CsumNext == \E w \in Word : Add(w)
CsumSpec == CsumInit /\ [][CsumNext]_csum_vars

\* The end of csum: two folds, the second without a mask, then the complement
\* cut to a word.
Fold_Once(s) == (s \div Base) + (s % Base)
Fold(s) ==
  LET once == (s \div Base) + (s % Base)
  IN once + (once \div Base)
csum(s) == (Base - 1) - (Fold(s) % Base)

-----------------------------------------------------------------------------
(* Properties.                                                             *)

CsumTypeOK == words \in 0..MaxWords /\ sum \in 0..(Base * Base - 1) /\ ref \in Word

\* csum returns the complement of the one's complement sum, however many
\* carries the words have produced: two folds are enough and the second needs
\* no mask.
CsumIsReference == csum(sum) = (Base - 1) - ref

\* What holds after every word: the 32-bit sum has not wrapped, which would
\* lose a carry; it agrees with the reference modulo Base - 1; and the two are
\* zero together only (0 and Base - 1 are equal modulo Base - 1).
CsumInv ==
  /\ CsumTypeOK
  /\ sum <= words * (Base - 1)
  /\ \E k \in 0..sum : sum = k * (Base - 1) + ref
  /\ ref = 0 <=> sum = 0
=============================================================================
