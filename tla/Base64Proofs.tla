---------------------------- MODULE Base64Proofs ----------------------------
(***************************************************************************)
(* What is encoded is decoded again, whatever its bytes and its length;    *)
(* what is decoded has the length its text says; and nothing but the       *)
(* alphabet is decoded.                                                    *)
(***************************************************************************)
EXTENDS Base64, TLAPS

Groups(bytes) == (Len(bytes) + 2) \div 3

(* The lengths of the three parts of the last group. *)
LEMMA Lengths ==
  ASSUME NEW n \in Nat
  PROVE  /\ (n + 2) \div 3 \in Nat
         /\ 3 * ((n + 2) \div 3) \in n .. n + 2
         /\ n = 0 <=> (n + 2) \div 3 = 0
  OBVIOUS

(* A number below 2^24 is made up of its four digits. *)
LEMMA FourDigits ==
  ASSUME NEW t \in Nat, t < 16777216
  PROVE  t = 262144 * ((t \div 262144) % 64) + 4096 * ((t \div 4096) % 64)
               + 64 * ((t \div 64) % 64) + ((t \div 1) % 64)
<1>1. t \div 262144 < 64 /\ (t \div 262144) % 64 = t \div 262144
  OBVIOUS
<1>2. t \div 4096 = 64 * (t \div 262144) + ((t \div 4096) % 64)
  OBVIOUS
<1>3. t \div 64 = 64 * (t \div 4096) + ((t \div 64) % 64)
  OBVIOUS
<1>4. t = 64 * (t \div 64) + (t % 64) /\ t \div 1 = t
  OBVIOUS
<1>5. QED  BY <1>1, <1>2, <1>3, <1>4

LEMMA DigitRange ==
  ASSUME NEW t \in Nat
  PROVE  /\ (t \div 262144) % 64 \in Digits /\ (t \div 4096) % 64 \in Digits
         /\ (t \div 64) % 64 \in Digits /\ (t \div 1) % 64 \in Digits
<1>1. \A q \in Int : q % 64 \in Digits
  BY DEF Digits
<1>2. QED  BY <1>1

(* Its three bytes are those it was made of. *)
LEMMA ThreeBytes ==
  ASSUME NEW a \in Bytes, NEW b \in Bytes, NEW c \in Bytes,
         NEW t, t = 65536 * a + 256 * b + c
  PROVE  /\ t \in Nat /\ t < 16777216
         /\ (t \div 65536) % 256 = a
         /\ (t \div 256) % 256 = b
         /\ (t \div 1) % 256 = c
<1>1. t \in Nat /\ t < 16777216
  BY DEF Bytes
<1>2. t \div 65536 = a
  BY DEF Bytes
<1>3. t \div 256 = 256 * a + b
  BY DEF Bytes
<1>4. QED  BY <1>1, <1>2, <1>3 DEF Bytes

(* A digit that is left out is zero. *)
LEMMA LeftOut ==
  ASSUME NEW a \in Bytes, NEW b \in Bytes,
         NEW t, t = 65536 * a + 256 * b
  PROVE  /\ (t \div 1) % 64 = 0
         /\ b = 0 => (t \div 64) % 64 = 0
<1>1. t \div 1 = 64 * (1024 * a + 4 * b)
  BY DEF Bytes
<1>2. b = 0 => t \div 64 = 64 * (16 * a)
  BY DEF Bytes
<1>3. QED  BY <1>1, <1>2 DEF Bytes

-----------------------------------------------------------------------------
(* Encoding *)

LEMMA TripletBytes ==
  ASSUME NEW bytes \in Seq(Bytes), NEW g \in Nat
  PROVE  /\ ByteAt(bytes, 3 * g + 1) \in Bytes
         /\ ByteAt(bytes, 3 * g + 2) \in Bytes
         /\ ByteAt(bytes, 3 * g + 3) \in Bytes
<1>1. ASSUME NEW i \in Nat, i >= 1
      PROVE  ByteAt(bytes, i) \in Bytes
  <2>1. i <= Len(bytes) => bytes[i] \in Bytes
    BY <1>1
  <2>2. QED  BY <2>1 DEF ByteAt, Bytes
<1>2. QED  BY <1>1

(* The characters of each group. *)
LEMMA EncodedGroup ==
  ASSUME NEW bytes \in Seq(Bytes), NEW g \in 0 .. Groups(bytes) - 1
  PROVE  LET text == bytesToBase64(bytes)
             t == Triplet(bytes, g) IN
         /\ text[4 * g + 1] = (t \div 262144) % 64
         /\ text[4 * g + 2] = (t \div 4096) % 64
         /\ text[4 * g + 3] = IF 3 * g + 2 <= Len(bytes) THEN (t \div 64) % 64 ELSE Pad
         /\ text[4 * g + 4] = IF 3 * g + 3 <= Len(bytes) THEN (t \div 1) % 64 ELSE Pad
<1> DEFINE text == bytesToBase64(bytes)
           t == Triplet(bytes, g)
<1>1. g \in Nat /\ Len(bytes) \in Nat
  BY DEF Groups
<1>2. \A p \in 0 .. 3 :
        /\ 4 * g + p + 1 \in 1 .. 4 * Groups(bytes)
        /\ (4 * g + p + 1 - 1) \div 4 = g /\ (4 * g + p + 1 - 1) % 4 = p
  BY <1>1 DEF Groups
<1>3. ASSUME NEW p \in 0 .. 3
      PROVE  text[4 * g + p + 1] =
               IF p < 2 \/ 3 * g + p <= Len(bytes) THEN (t \div Weight[p]) % 64 ELSE Pad
  <2> DEFINE j == 4 * g + p + 1
  <2>1. j \in 1 .. 4 * Groups(bytes) /\ (j - 1) \div 4 = g /\ (j - 1) % 4 = p
    BY <1>2
  <2> HIDE DEF j
  <2>2. text[j] =
          IF (j - 1) % 4 < 2 \/ 3 * ((j - 1) \div 4) + ((j - 1) % 4) <= Len(bytes)
          THEN (Triplet(bytes, (j - 1) \div 4) \div Weight[(j - 1) % 4]) % 64 ELSE Pad
    BY <2>1 DEF bytesToBase64, Groups
  <2>3. QED  BY <2>1, <2>2 DEF j
<1>4. /\ 4 * g + 0 + 1 = 4 * g + 1 /\ 4 * g + 1 + 1 = 4 * g + 2
      /\ 4 * g + 2 + 1 = 4 * g + 3 /\ 4 * g + 3 + 1 = 4 * g + 4
  BY <1>1
<1>5. Weight[0] = 262144 /\ Weight[1] = 4096 /\ Weight[2] = 64 /\ Weight[3] = 1
  BY DEF Weight
<1>6. text[4 * g + 1] = (t \div 262144) % 64
  BY <1>3, <1>4, <1>5
<1>7. text[4 * g + 2] = (t \div 4096) % 64
  BY <1>3, <1>4, <1>5
<1>8. text[4 * g + 3] = IF 3 * g + 2 <= Len(bytes) THEN (t \div 64) % 64 ELSE Pad
  BY <1>3, <1>4, <1>5
<1>9. text[4 * g + 4] = IF 3 * g + 3 <= Len(bytes) THEN (t \div 1) % 64 ELSE Pad
  BY <1>3, <1>4, <1>5
<1>10. QED  BY <1>6, <1>7, <1>8, <1>9

LEMMA SequenceMade ==
  ASSUME NEW S, NEW m \in Nat, NEW f, f = [j \in 1 .. m |-> f[j]],
         \A j \in 1 .. m : f[j] \in S
  PROVE  f \in Seq(S) /\ Len(f) = m
  OBVIOUS

(* The text is well formed, and its padding says how many bytes the last   *)
(* group lacks.                                                            *)
LEMMA EncodedShape ==
  ASSUME NEW bytes \in Seq(Bytes)
  PROVE  LET text == bytesToBase64(bytes) IN
         /\ text \in Seq(0 .. 64)
         /\ Len(text) = 4 * Groups(bytes)
         /\ Padding(text) = 3 * Groups(bytes) - Len(bytes)
         /\ WellFormed(text)
         /\ \A j \in 1 .. Len(text) :
              text[j] \in IF j <= Groups(bytes) + Len(bytes) THEN Digits ELSE {Pad}
<1> DEFINE text == bytesToBase64(bytes)
           n == Len(bytes)
           G == Groups(bytes)
<1>1. n \in Nat /\ G \in Nat /\ 3 * G \in n .. n + 2 /\ (n = 0 <=> G = 0)
  BY Lengths DEF Groups
<1>2. ASSUME NEW g \in 0 .. G - 1
      PROVE  /\ Triplet(bytes, g) \in Nat /\ Triplet(bytes, g) < 16777216
             /\ \A w \in {262144, 4096, 64, 1} : (Triplet(bytes, g) \div w) % 64 \in Digits
  <2>1. Triplet(bytes, g) \in Nat /\ Triplet(bytes, g) < 16777216
    <3>1. g \in Nat
      BY <1>1
    <3>2. QED  BY <3>1, TripletBytes, ThreeBytes DEF Triplet
  <2> DEFINE t == Triplet(bytes, g)
  <2>2. /\ (t \div 262144) % 64 \in Digits /\ (t \div 4096) % 64 \in Digits
        /\ (t \div 64) % 64 \in Digits /\ (t \div 1) % 64 \in Digits
    BY <2>1, DigitRange
  <2>3. QED  BY <2>1, <2>2
<1>3. ASSUME NEW j \in 1 .. 4 * G
      PROVE  /\ text[j] \in 0 .. 64
             /\ j <= G + n => text[j] \in Digits
             /\ j > G + n => text[j] = Pad
  <2> DEFINE g == (j - 1) \div 4
             p == (j - 1) % 4
  <2>1. g \in 0 .. G - 1 /\ p \in 0 .. 3 /\ j = 4 * g + p + 1
    BY <1>1
  <2>2. j <= G + n <=> p < 2 \/ 3 * g + p <= n
    BY <1>1, <2>1
  <2>3. Weight[p] \in {262144, 4096, 64, 1}
    BY <2>1 DEF Weight
  <2>4. (Triplet(bytes, g) \div Weight[p]) % 64 \in Digits
    BY <1>2, <2>1, <2>3
  <2>5. text[j] = IF p < 2 \/ 3 * g + p <= n
                  THEN (Triplet(bytes, g) \div Weight[p]) % 64 ELSE Pad
    BY DEF bytesToBase64, Groups
  <2>6. j > G + n <=> ~(j <= G + n)
    BY <1>1
  <2>7. /\ j <= G + n => text[j] \in Digits
        /\ j > G + n => text[j] = Pad
    <3> HIDE DEF text, n, G, g, p
    <3>1. QED  BY <2>2, <2>4, <2>5, <2>6
  <2>8. QED  BY <2>6, <2>7 DEF Digits, Pad
<1>4. text \in Seq(0 .. 64) /\ Len(text) = 4 * G
  <2>1. text = [j \in 1 .. 4 * G |-> text[j]]
    BY DEF bytesToBase64, Groups
  <2>2. 4 * G \in Nat
    BY <1>1
  <2>3. \A j \in 1 .. 4 * G : text[j] \in 0 .. 64
    BY <1>3
  <2> DEFINE S == 0 .. 64
             m == 4 * G
  <2>4. m \in Nat /\ text = [j \in 1 .. m |-> text[j]] /\ \A j \in 1 .. m : text[j] \in S
    BY <2>1, <2>2, <2>3
  <2> HIDE DEF text, m, S
  <2>5. text \in Seq(S) /\ Len(text) = m
    BY <2>4, SequenceMade
  <2>6. QED  BY <2>5 DEF m, S
<1>5. Padding(text) = 3 * G - n
  <2>1. CASE n = 0
    BY <1>1, <1>4, <2>1 DEF Padding
  <2>2. CASE n # 0
    <3>1. G - 1 \in 0 .. G - 1 /\ 4 * (G - 1) + 3 = 4 * G - 1 /\ 4 * (G - 1) + 4 = 4 * G
      BY <1>1, <2>2
    <3>2. text[4 * G - 1] = IF 3 * (G - 1) + 2 <= n
                            THEN (Triplet(bytes, G - 1) \div 64) % 64 ELSE Pad
      BY <3>1, EncodedGroup
    <3>3. text[4 * G] = IF 3 * (G - 1) + 3 <= n
                        THEN (Triplet(bytes, G - 1) \div 1) % 64 ELSE Pad
      BY <3>1, EncodedGroup
    <3> DEFINE u == Triplet(bytes, G - 1)
    <3>7. (u \div 64) % 64 \in Digits /\ (u \div 1) % 64 \in Digits /\ Pad \notin Digits
      BY <1>2, <3>1 DEF Pad, Digits
    <3>8. 3 * (G - 1) + 2 <= n <=> ~(3 * G - 1 > n)
      BY <1>1
    <3>4. text[4 * G - 1] = Pad <=> 3 * G - 1 > n
      <4> HIDE DEF text, u, n, G
      <4>1. QED  BY <3>2, <3>7, <3>8 DEF u
    <3>5. text[4 * G] = Pad <=> 3 * G > n
      <4>1. 3 * (G - 1) + 3 <= n <=> ~(3 * G > n)
        BY <1>1
      <4> HIDE DEF text, u, n, G
      <4>2. QED  BY <3>3, <3>7, <4>1 DEF u
    <3>6. QED  BY <1>1, <1>4, <2>2, <3>4, <3>5 DEF Padding
  <2>3. QED  BY <2>1, <2>2
<1>6. WellFormed(text)
  <2> HIDE DEF text, n, G
  <2>1. Len(text) % 4 = 0
    BY <1>1, <1>4
  <2>2. ASSUME NEW j \in 1 .. Len(text) - Padding(text)
        PROVE  text[j] \in Digits
    <3>1. j \in 1 .. 4 * G /\ j <= G + n
      BY <1>1, <1>4, <1>5
    <3>2. QED  BY <1>3, <3>1
  <2>3. QED  BY <2>1, <2>2 DEF WellFormed
<1>7. \A j \in 1 .. Len(text) : text[j] \in IF j <= G + n THEN Digits ELSE {Pad}
  <2> HIDE DEF text, n, G
  <2>1. QED  BY <1>1, <1>3, <1>4
<1>8. QED  BY <1>4, <1>5, <1>6, <1>7

(* What decoding reads is the triplet that was encoded. *)
LEMMA WordRead ==
  ASSUME NEW bytes \in Seq(Bytes), NEW g \in 0 .. Groups(bytes) - 1
  PROVE  Word(bytesToBase64(bytes), g) = Triplet(bytes, g)
<1> DEFINE text == bytesToBase64(bytes)
           t == Triplet(bytes, g)
           a == ByteAt(bytes, 3 * g + 1)
           b == ByteAt(bytes, 3 * g + 2)
           c == ByteAt(bytes, 3 * g + 3)
<1>1. g \in Nat /\ Len(bytes) \in Nat
  BY DEF Groups
<1>2. a \in Bytes /\ b \in Bytes /\ c \in Bytes /\ t = 65536 * a + 256 * b + c
  BY <1>1, TripletBytes DEF Triplet
<1>3. t \in Nat /\ t < 16777216
  BY <1>2, ThreeBytes
<1>4. /\ 3 * g + 2 > Len(bytes) => b = 0 /\ c = 0
      /\ 3 * g + 3 > Len(bytes) => c = 0
  BY <1>1 DEF ByteAt
<1>5. /\ c = 0 => (t \div 1) % 64 = 0
      /\ b = 0 /\ c = 0 => (t \div 64) % 64 = 0
  <2>1. c = 0 => t = 65536 * a + 256 * b
    <3> HIDE DEF a, b, c, t
    <3>1. QED  BY <1>2 DEF Bytes
  <2> HIDE DEF a, b, c, t
  <2>2. QED  BY <1>2, <2>1, LeftOut
<1>6. /\ DigitAt(text, 4 * g + 1) = (t \div 262144) % 64
      /\ DigitAt(text, 4 * g + 2) = (t \div 4096) % 64
  BY <1>3, EncodedGroup DEF DigitAt, Pad
<1>7. DigitAt(text, 4 * g + 3) = (t \div 64) % 64
  BY <1>1, <1>3, <1>4, <1>5, EncodedGroup DEF DigitAt, Pad
<1>8. DigitAt(text, 4 * g + 4) = (t \div 1) % 64
  BY <1>1, <1>3, <1>4, <1>5, EncodedGroup DEF DigitAt, Pad
<1>9. t = 262144 * ((t \div 262144) % 64) + 4096 * ((t \div 4096) % 64)
            + 64 * ((t \div 64) % 64) + ((t \div 1) % 64)
  <2> HIDE DEF t
  <2>1. QED  BY <1>3, FourDigits
<1> HIDE DEF t, text
<1>10. Word(text, g) = t
  BY <1>6, <1>7, <1>8, <1>9 DEF Word
<1>11. QED  BY <1>10 DEF t, text

(* base64ToBytes undoes bytesToBase64, also where the last group is short. *)
THEOREM Base64RoundTrip ==
  ASSUME NEW bytes \in Seq(Bytes)
  PROVE  base64ToBytes(bytesToBase64(bytes)) = bytes
<1> DEFINE text == bytesToBase64(bytes)
           n == Len(bytes)
           G == Groups(bytes)
<1>1. n \in Nat /\ G \in Nat /\ 3 * G \in n .. n + 2
  BY Lengths DEF Groups
<1>2. 3 * (Len(text) \div 4) - Padding(text) = n /\ WellFormed(text)
  BY <1>1, EncodedShape
<1>3. ASSUME NEW i \in 1 .. n
      PROVE  (Word(text, (i - 1) \div 3) \div ByteWeight[(i - 1) % 3]) % 256 = bytes[i]
  <2> DEFINE g == (i - 1) \div 3
             p == (i - 1) % 3
  <2>1. g \in 0 .. G - 1 /\ p \in 0 .. 2 /\ i = 3 * g + p + 1 /\ g \in Nat
    BY <1>1
  <2>2. Word(text, g) = Triplet(bytes, g)
    BY <2>1, WordRead
  <2>3. bytes[i] = ByteAt(bytes, 3 * g + p + 1)
    BY <2>1 DEF ByteAt
  <2>4. /\ (Triplet(bytes, g) \div 65536) % 256 = ByteAt(bytes, 3 * g + 1)
        /\ (Triplet(bytes, g) \div 256) % 256 = ByteAt(bytes, 3 * g + 2)
        /\ (Triplet(bytes, g) \div 1) % 256 = ByteAt(bytes, 3 * g + 3)
    BY <2>1, TripletBytes, ThreeBytes DEF Triplet
  <2>5. (Triplet(bytes, g) \div ByteWeight[p]) % 256 = ByteAt(bytes, 3 * g + p + 1)
    <3>1. CASE p = 0
      BY <2>1, <2>4, <3>1 DEF ByteWeight
    <3>2. CASE p = 1
      BY <2>1, <2>4, <3>2 DEF ByteWeight
    <3>3. CASE p = 2
      BY <2>1, <2>4, <3>3 DEF ByteWeight
    <3>4. QED  BY <2>1, <3>1, <3>2, <3>3
  <2>6. QED  BY <2>2, <2>3, <2>5
<1>4. base64ToBytes(text) =
        [i \in 1 .. n |-> (Word(text, (i - 1) \div 3) \div ByteWeight[(i - 1) % 3]) % 256]
  BY <1>2 DEF base64ToBytes
<1>5. base64ToBytes(text) = [i \in 1 .. n |-> bytes[i]]
  BY <1>3, <1>4
<1>6. QED  BY <1>5

-----------------------------------------------------------------------------
(* base64url *)

LEMMA PaddingRestored ==
  ASSUME NEW bytes \in Seq(Bytes)
  PROVE  base64UrlToBase64(bytesToBase64Url(bytes)) = bytesToBase64(bytes)
<1> DEFINE text == bytesToBase64(bytes)
           url  == bytesToBase64Url(bytes)
           n == Len(bytes)
           G == Groups(bytes)
<1>1. n \in Nat /\ G \in Nat /\ 3 * G \in n .. n + 2
  BY Lengths DEF Groups
<1>2. /\ text \in Seq(0 .. 64) /\ Len(text) = 4 * G
      /\ Len(text) - Padding(text) = G + n
      /\ \A j \in 1 .. Len(text) : text[j] \in IF j <= G + n THEN Digits ELSE {Pad}
  <2>1. Padding(text) = 3 * G - n /\ Len(text) = 4 * G
    BY EncodedShape
  <2>2. Len(text) - Padding(text) = G + n
    BY <1>1, <2>1
  <2>3. QED  BY <2>1, <2>2, EncodedShape
<1>3. url = [j \in 1 .. G + n |-> ToUrl(text[j])] /\ Len(url) = G + n
  <2>1. url = [j \in 1 .. G + n |-> ToUrl(text[j])]
    BY <1>2 DEF bytesToBase64Url
  <2>2. G + n \in Nat
    BY <1>1
  <2> HIDE DEF url, text, n, G
  <2>3. QED  BY <2>1, <2>2
<1>4. (Len(url) + 3) \div 4 = G
  <2> HIDE DEF url, n, G
  <2>1. (G + n + 3) \div 4 = G
    BY <1>1
  <2>2. QED  BY <1>3, <2>1
<1>5. base64UrlToBase64(url) =
        [j \in 1 .. 4 * G |-> IF j <= G + n THEN FromUrl(url[j]) ELSE Pad]
  BY <1>3, <1>4 DEF base64UrlToBase64
<1>6. ASSUME NEW j \in 1 .. 4 * G
      PROVE  (IF j <= G + n THEN FromUrl(url[j]) ELSE Pad) = text[j]
  <2>1. text[j] \in IF j <= G + n THEN Digits ELSE {Pad}
    BY <1>2
  <2>2. CASE j <= G + n
    <3>1. j \in 1 .. G + n /\ text[j] \in Digits
      BY <1>1, <2>1, <2>2
    <3>2. url[j] = ToUrl(text[j])
      BY <1>3, <3>1
    <3>3. FromUrl(ToUrl(text[j])) = text[j]
      <4> DEFINE d == text[j]
      <4>1. d \in Digits
        BY <3>1
      <4> HIDE DEF d
      <4>2. d # Dash /\ d # Underscore
        BY <4>1 DEF Digits, Dash, Underscore
      <4>3. FromUrl(ToUrl(d)) = d
        BY <4>2 DEF FromUrl, ToUrl, Plus, Slash, Dash, Underscore
      <4>4. QED  BY <4>3 DEF d
    <3>4. QED
      BY <2>2, <3>2, <3>3
  <2>3. QED  BY <2>1, <2>2
<1>7. text = [j \in 1 .. 4 * G |-> text[j]]
  BY DEF bytesToBase64, Groups
<1>8. QED
  <2> HIDE DEF url, text, n, G
  <2>1. base64UrlToBase64(url) = text
    BY <1>5, <1>6, <1>7
  <2>2. QED  BY <2>1 DEF url, text

(* base64UrlToBytes undoes bytesToBase64Url: every part of a token and     *)
(* every member of a key is read as it was written.                        *)
THEOREM Base64UrlRoundTrip ==
  ASSUME NEW bytes \in Seq(Bytes)
  PROVE  base64UrlToBytes(bytesToBase64Url(bytes)) = bytes
  BY PaddingRestored, Base64RoundTrip DEF base64UrlToBytes

(* "Base64url decoding MUST reject characters outside the alphabet instead *)
(* of decoding them as zero bits", and so it does for a text whose length  *)
(* no number of bytes has: the three "=" it is given are not read.         *)
THEOREM OnlyAlphabetDecoded ==
  ASSUME NEW text \in Seq(Chars), base64UrlToBytes(text) # Invalid
  PROVE  /\ \A j \in 1 .. Len(text) : text[j] # Foreign
         /\ Len(text) % 4 # 1
         /\ \A j \in 1 .. Len(text) : text[j] = Pad => j >= Len(text) - 1
<1> DEFINE padded == base64UrlToBase64(text)
           n == Len(text)
           m == 4 * ((n + 3) \div 4)
<1>1. n \in Nat /\ m \in n .. n + 3 /\ m % 4 = 0
  OBVIOUS
<1>2. WellFormed(padded)
  BY DEF base64UrlToBytes, base64ToBytes
<1>3. /\ Len(padded) = m
      /\ \A j \in 1 .. m : padded[j] = IF j <= n THEN FromUrl(text[j]) ELSE Pad
  <2>1. padded = [j \in 1 .. m |-> IF j <= n THEN FromUrl(text[j]) ELSE Pad]
    BY DEF base64UrlToBase64
  <2>2. m \in Nat
    BY <1>1
  <2> HIDE DEF padded, m, n
  <2>3. QED  BY <2>1, <2>2
<1>4. Padding(padded) \in 0 .. 2
  BY DEF Padding
<1>5. \A j \in 1 .. m - 2 : padded[j] \in Digits
  <2>1. \A j \in 1 .. m - Padding(padded) : padded[j] \in Digits
    BY <1>2, <1>3 DEF WellFormed
  <2> HIDE DEF padded, m
  <2>2. m \in Int
    BY <1>1
  <2>3. QED  BY <1>4, <2>1, <2>2
<1>6. n % 4 # 1
  <2> SUFFICES ASSUME n % 4 = 1 PROVE FALSE
    OBVIOUS
  <2>1. n + 1 = m - 2 /\ n + 1 \in 1 .. m
    BY <1>1
  <2>2. padded[n + 1] = Pad
    BY <1>1, <1>3, <2>1
  <2>3. padded[n + 1] \in Digits
    BY <1>1, <1>5, <2>1
  <2>4. QED  BY <2>2, <2>3 DEF Pad, Digits
<1>7. ASSUME NEW j \in 1 .. n
      PROVE  text[j] # Foreign /\ (text[j] = Pad => j >= n - 1)
  <2>1. j \in 1 .. m /\ padded[j] = FromUrl(text[j])
    BY <1>1, <1>3
  <2>2. j \in 1 .. m - Padding(padded) => padded[j] \in Digits
    BY <1>2, <1>3 DEF WellFormed
  <2>3. j >= m - 1 \/ padded[j] \in Digits
    BY <1>1, <1>5, <2>1
  <2>4. j > m - Padding(padded) => padded[j] = Pad
    <3>1. CASE Padding(padded) = 0
      BY <1>1, <2>1, <3>1
    <3>2. CASE Padding(padded) = 1
      <4>1. padded[m] = Pad
        BY <1>3, <3>2 DEF Padding
      <4>2. QED  BY <1>1, <2>1, <3>2, <4>1
    <3>3. CASE Padding(padded) = 2
      <4>1. padded[m] = Pad /\ padded[m - 1] = Pad
        BY <1>3, <3>3 DEF Padding
      <4>2. QED  BY <1>1, <2>1, <3>3, <4>1
    <3>4. QED  BY <1>4, <3>1, <3>2, <3>3
  <2>5. padded[j] \in Digits \cup {Pad}
    BY <1>1, <1>4, <2>1, <2>2, <2>4
  <2>6. text[j] # Foreign
    <3>1. text[j] = Foreign => padded[j] = Foreign
      BY <2>1 DEF FromUrl, Foreign, Dash, Underscore
    <3>2. Foreign \notin Digits \cup {Pad}
      BY DEF Foreign, Digits, Pad
    <3>3. QED  BY <2>5, <3>1, <3>2
  <2>7. text[j] = Pad => padded[j] \notin Digits
    BY <2>1 DEF FromUrl, Dash, Underscore, Pad, Digits
  <2>8. QED  BY <1>1, <2>3, <2>6, <2>7
<1>8. QED  BY <1>6, <1>7
=============================================================================
