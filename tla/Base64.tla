------------------------------- MODULE Base64 -------------------------------
(***************************************************************************)
(* The conversions of src/vendors/jwt/utils.ts between bytes and base64 or *)
(* base64url, by which every part of a token and every member of a key is  *)
(* read and written.                                                       *)
(*                                                                         *)
(* A character of base64Alphabet is its index there; "=", "-", "_" and any *)
(* other character are the numbers after them.  White space, which         *)
(* base64ToBytes removes first, is not modelled.                           *)
(***************************************************************************)
EXTENDS Integers, Sequences

Bytes  == 0 .. 255
Digits == 0 .. 63
Plus       == 62
Slash      == 63
Pad        == 64
Dash       == 65
Underscore == 66
Foreign    == 67
Chars == 0 .. Foreign

Invalid == <<-1>>    \* the error thrown: no sequence of bytes

(* What a digit counts for at each place of its group. *)
Weight == [p \in 0 .. 3 |-> IF p = 0 THEN 262144 ELSE IF p = 1 THEN 4096
                            ELSE IF p = 2 THEN 64 ELSE 1]
ByteWeight == [p \in 0 .. 2 |-> IF p = 0 THEN 65536 ELSE IF p = 1 THEN 256 ELSE 1]

-----------------------------------------------------------------------------
(* A byte past the end counts for zero. *)
ByteAt(bytes, i) == IF i <= Len(bytes) THEN bytes[i] ELSE 0

Triplet(bytes, g) ==
  65536 * ByteAt(bytes, 3 * g + 1) + 256 * ByteAt(bytes, 3 * g + 2)
    + ByteAt(bytes, 3 * g + 3)

(* Place p of group g needs the first 3g + p bytes. *)
bytesToBase64(bytes) ==
  [j \in 1 .. 4 * ((Len(bytes) + 2) \div 3) |->
     LET g == (j - 1) \div 4
         p == (j - 1) % 4 IN
     IF p < 2 \/ 3 * g + p <= Len(bytes)
     THEN (Triplet(bytes, g) \div Weight[p]) % 64
     ELSE Pad]

(* How many of the last two characters are padding. *)
Padding(text) ==
  IF Len(text) > 0 /\ text[Len(text)] = Pad
  THEN IF Len(text) > 1 /\ text[Len(text) - 1] = Pad THEN 2 ELSE 1
  ELSE 0

(* Only digits, then at most two "=", four characters to a group. *)
WellFormed(text) ==
  /\ Len(text) % 4 = 0
  /\ \A j \in 1 .. Len(text) - Padding(text) : text[j] \in Digits

DigitAt(text, j) == IF text[j] = Pad THEN 0 ELSE text[j]

Word(text, g) ==
  262144 * DigitAt(text, 4 * g + 1) + 4096 * DigitAt(text, 4 * g + 2)
    + 64 * DigitAt(text, 4 * g + 3) + DigitAt(text, 4 * g + 4)

base64ToBytes(text) ==
  IF WellFormed(text)
  THEN [i \in 1 .. 3 * (Len(text) \div 4) - Padding(text) |->
          (Word(text, (i - 1) \div 3) \div ByteWeight[(i - 1) % 3]) % 256]
  ELSE Invalid

-----------------------------------------------------------------------------
ToUrl(ch) == IF ch = Plus THEN Dash ELSE IF ch = Slash THEN Underscore ELSE ch

FromUrl(ch) == IF ch = Dash THEN Plus ELSE IF ch = Underscore THEN Slash ELSE ch

(* The "=" of bytesToBase64 are all at its end. *)
bytesToBase64Url(bytes) ==
  LET text == bytesToBase64(bytes) IN
  [j \in 1 .. Len(text) - Padding(text) |-> ToUrl(text[j])]

(* The padding that was left out is put back. *)
base64UrlToBase64(text) ==
  [j \in 1 .. 4 * ((Len(text) + 3) \div 4) |->
     IF j <= Len(text) THEN FromUrl(text[j]) ELSE Pad]

base64UrlToBytes(text) == base64ToBytes(base64UrlToBase64(text))
=============================================================================
