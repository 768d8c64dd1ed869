---------------------------------- MODULE Crypto -------------------------------
(***************************************************************************)
(* class Crypto (class_lib/crypto.cpp): the Tiny Encryption Algorithm,     *)
(* chained over blocks of 8 bytes, with padding before and after the text. *)
(*                                                                         *)
(* A byte has 3 bits here, as many as the padding count of the first byte  *)
(* needs, and a word of 4 bytes 12 instead of 32; shifts, rounds, blocks   *)
(* and padding are those of the code.  Line numbers are of crypto.cpp.     *)
(***************************************************************************)
EXTENDS Integers, Sequences, SequencesExt, Bitwise

ByteBits == 3
Base == 2 ^ ByteBits
Width == 2 ^ (4 * ByteBits)

\* The words a, b, c and d of _Tkey: cryptKey of the file transfer programs, the lowest
\* three bits of each byte.
Key == <<1683, 654, 0, 365>>

-------------------------------------------------------------------------------
(* The cipher of one block. *)

delta == 2489   \* 0x9E3779B9 % Width

\* ntohl() of four bytes, and its inverse.
Word(b, i) == ((b[i] * Base + b[i + 1]) * Base + b[i + 2]) * Base + b[i + 3]
Bytes(w) == [i \in 1 .. 4 |-> (w \div Base ^ (4 - i)) % Base]

\* Lines 259, 261, 314 and 316; every operand is truncated to a word.
Mix(v, sum, k1, k2) ==
    (((v * 16 + k1) % Width) ^^ ((v + sum) % Width)) ^^ ((v \div 32 + k2) % Width)

Words(block) == [y |-> Word(block, 1), z |-> Word(block, 5)]
Rounds == [n \in 1 .. 16 |-> n]

\* Lines 255-263: one round.
Encrypted(w, sum) ==
    LET y == (w.y + Mix(w.z, sum, Key[1], Key[2])) % Width
    IN  [y |-> y, z |-> (w.z + Mix(y, sum, Key[3], Key[4])) % Width]

\* Lines 236-268.
encipher(block) ==
    LET w == FoldLeft(LAMBDA v, n : Encrypted(v, (n * delta) % Width), Words(block), Rounds)
    IN  Bytes(w.y) \o Bytes(w.z)

\* Lines 312-320: the inverse round.
Decrypted(w, sum) ==
    LET z == (w.z - Mix(w.y, sum, Key[3], Key[4])) % Width
    IN  [y |-> (w.y - Mix(z, sum, Key[1], Key[2])) % Width, z |-> z]

\* Lines 291-323: sum starts with 0xE3779B90, which is 16 times delta.
decipher(block) ==
    LET w == FoldLeft(LAMBDA v, n : Decrypted(v, (2960 - (n - 1) * delta) % Width),
                      Words(block), Rounds)
    IN  Bytes(w.y) \o Bytes(w.z)

XorBytes(s, t) == [i \in 1 .. 8 |-> s[i] ^^ t[i]]
Zeros(n) == [i \in 1 .. n |-> 0]

-------------------------------------------------------------------------------
(* Encryption. *)

\* Lines 36-38: the bytes of padding after the first one.
Fill(len) == (8 - ((len + 10) % 8)) % 8

\* Lines 49-93: what is enciphered; r stands for what _rand() returns.
Padded(text, r) ==
    <<Fill(Len(text))>> \o [i \in 1 .. Fill(Len(text)) + 2 |-> r] \o text \o Zeros(7)

\* Lines 210-234: before the first block prePlain and the ciphertext are zero.
encrypt8Bytes(s, plain) ==
    LET x == XorBytes(plain, s.crypt)
        c == XorBytes(encipher(x), s.prePlain)
    IN  [prePlain |-> x, crypt |-> c, out |-> s.out \o c]

\* Lines 29-94.
TEncrypt(text, r) ==
    LET in == Padded(text, r)
        block(i) == SubSeq(in, 8 * i - 7, 8 * i)
        start == [prePlain |-> Zeros(8), crypt |-> Zeros(8), out |-> <<>>]
    IN  FoldLeft(LAMBDA s, i : encrypt8Bytes(s, block(i)), start,
                 [i \in 1 .. Len(in) \div 8 |-> i]).out

-------------------------------------------------------------------------------
(* Decryption.  The state: the members pos, preCrypt, curCrypt, contextStart and       *)
(* prePlain; whole, p points to the ciphertext; out, the text so far; rc, the result.  *)

\* Lines 270-289: the next block, if there is one.
decrypt8Bytes(s, in) ==
    IF s.contextStart >= Len(in) THEN [s EXCEPT !.pos = 0]
    ELSE [s EXCEPT !.prePlain =
                       decipher(XorBytes(s.prePlain,
                                         SubSeq(in, s.curCrypt + 1, s.curCrypt + 8))),
                   !.contextStart = @ + 8, !.curCrypt = @ + 8, !.pos = 0]

\* At the end of a block preCrypt is set and the next one deciphered.
Cross(s, in, preCrypt) ==
    IF s.pos < 8 THEN s
    ELSE decrypt8Bytes([s EXCEPT !.whole = TRUE, !.preCrypt = preCrypt], in)

Advance(s, in, preCrypt) == Cross([s EXCEPT !.pos = @ + 1], in, preCrypt)

\* Lines 150-153 and 171-173: the byte at pos.
PlainByte(s, in) ==
    (IF s.whole THEN in[s.preCrypt + s.pos + 1] ELSE 0) ^^ s.prePlain[s.pos + 1]

\* Variant of TakeByte: line 161 is missing, as in the loop before it.
TakeByteStale(s, in) ==
    Advance([s EXCEPT !.out = Append(@, PlainByte(s, in))], in, s.preCrypt)

\* Lines 133-142, 147-164 and 167-186.
SkipByte(s, in) == Advance(s, in, s.preCrypt)
TakeByte(s, in) ==
    Advance([s EXCEPT !.out = Append(@, PlainByte(s, in))], in, s.curCrypt - 8)
CheckByte(s, in) ==
    IF s.rc = 1 \/ PlainByte(s, in) # 0 THEN [s EXCEPT !.rc = 1]
    ELSE Advance(s, in, s.curCrypt)

Times(n, Op(_, _), s, in) == FoldLeft(LAMBDA t, i : Op(t, in), s, [i \in 1 .. n |-> i])

\* Lines 96-188.
TDecrypt(in) ==
    LET prePlain == decipher(in)
        pos == prePlain[1] % 8
        count == Len(in) - pos - 10
        start == [pos |-> pos + 1, preCrypt |-> 0, curCrypt |-> 8, contextStart |-> 8,
                  prePlain |-> prePlain, whole |-> FALSE, out |-> <<>>, rc |-> 0]
        body == Times(2, SkipByte, Cross(start, in, 0), in)
        text == Times(count, TakeByte, body, in)
        end == Times(7, CheckByte, text, in)
    IN  IF Len(in) % 8 # 0 \/ Len(in) < 16 \/ count < 0 THEN [rc |-> 1, out |-> <<>>]
        ELSE [rc |-> end.rc, out |-> end.out]
===============================================================================
