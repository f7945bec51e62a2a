----------------------------- MODULE Encodings ------------------------------
(***************************************************************************)
(* The text and packet encodings: Base64, the hex strings of bin2asc and   *)
(* asc2bin, and the packets of crc_crypt.  Something is taken, encoded,    *)
(* and decoded again.                                                      *)
(*                                                                         *)
(* Base64's characters are their places in its table, and Fill is '='.     *)
(* The block cipher of crc_crypt is external: some change of a block that  *)
(* can be reversed.                                                        *)
(***************************************************************************)
EXTENDS Integers, SequencesExt, FiniteSetsExt, Bitwise

CONSTANTS
  TextBytes,    \* the bytes of what is encoded as text
  BlockSize,    \* AES_SIZE
  PacketBytes,  \* the bytes of the packets that are encrypted
  MaxPacket     \* bound: their length

ASSUME InputsAreBytes ==
  /\ TextBytes \subseteq 0 .. 255 /\ PacketBytes \subseteq 0 .. 255
  /\ BlockSize \in Nat \ {0} /\ MaxPacket \in Nat

VARIABLE coding  \* what is encoded, how, what became of it, and what is decoded from that

\* A character is its number in Base64Table, which DecodeTable gives back; '=' is behind them.
Fill == 64

NoCoding == [as |-> "none", plain |-> <<>>, code |-> <<>>, back |-> <<>>, step |-> "idle"]

CodingInit == coding = NoCoding

-----------------------------------------------------------------------------
Chunks(s, size) ==
  [g \in 1 .. (Len(s) + size - 1) \div size |-> SubSeq(s, (g - 1) * size + 1, Min({g * size, Len(s)}))]

\* One round of Base64::encode, of three bytes or what is left.
EncodedGroup(g) ==
  LET b == [i \in 1 .. 3 |-> IF i <= Len(g) THEN g[i] ELSE 0]
  IN  << b[1] \div 4,
         ((b[1] * 16) % 64) + (b[2] \div 16),
         IF Len(g) >= 2 THEN ((b[2] * 4) % 64) + (b[3] \div 64) ELSE Fill,
         IF Len(g) = 3 THEN b[3] % 64 ELSE Fill >>

\* encode, encodeFromArray
Base64Encode(data) == FlattenSeq([g \in DOMAIN Chunks(data, 3) |-> EncodedGroup(Chunks(data, 3)[g])])

\* Mutant of DecodedGroup: two bits of the second character are lost.
DecodedGroupShort(c) ==
  <<((c[1] * 4) % 256) + ((c[2] \div 16) % 4)>>
  \o IF c[3] = Fill THEN <<>> ELSE <<((c[2] * 16) % 128) + (c[3] \div 4)>>
       \o IF c[4] = Fill THEN <<>> ELSE <<((c[3] * 64) % 256) + c[4]>>

\* One round of Base64::decode; a fill character ends it.
DecodedGroup(c) ==
  <<((c[1] * 4) % 256) + ((c[2] \div 16) % 4)>>
  \o IF c[3] = Fill THEN <<>> ELSE <<((c[2] * 16) % 256) + (c[3] \div 4)>>
       \o IF c[4] = Fill THEN <<>> ELSE <<((c[3] * 64) % 256) + c[4]>>

Base64Decode(text) == FlattenSeq([g \in DOMAIN Chunks(text, 4) |-> DecodedGroup(Chunks(text, 4)[g])])

-----------------------------------------------------------------------------
\* asc_map: the digits of a byte; the table has "0a" for 0xba.
AscMap(byte) == IF byte = 186 THEN <<0, 10>> ELSE <<byte \div 16, byte % 16>>

Bin2Asc(data) == FlattenSeq([i \in DOMAIN data |-> AscMap(data[i])])

\* asc2bin, of digits, into a buffer of some size: nothing for an odd number of digits, and
\* nothing if they do not fit.
Asc2Bin(text, size) ==
  IF Len(text) % 2 # 0 \/ Len(text) \div 2 > size THEN <<>>
  ELSE [i \in 1 .. Len(text) \div 2 |-> text[2 * i - 1] * 16 + text[2 * i]]

-----------------------------------------------------------------------------
\* The exclusive or of the bytes at the places of one parity, counted from 0, with what was
\* there before.
Folded(start, bytes, parity) ==
  FoldLeft(LAMBDA x, i : IF (i - 1) % 2 = parity THEN x ^^ bytes[i] ELSE x, start, [i \in DOMAIN bytes |-> i])

\* aes_encrypt and aes_decrypt of a block, as some change that is its own reverse
Aes(block) == [i \in DOMAIN block |-> Reverse(block)[i] ^^ 1]

\* head_crc
HeadCrc(block) == [first |-> Folded(59, block, 0), second |-> Folded(230, block, 1)]

\* The body is hidden with the plain block as the key.
Hidden(key, body) == [i \in DOMAIN body |-> body[i] ^^ key[((i - 1) % BlockSize) + 1]]

\* encode_xor: the first sum takes the odd places of the body, the second the even ones.
EncodeCrc(crc, body) == [first |-> Folded(crc.first, body, 1), second |-> Folded(crc.second, body, 0)]

\* decode_xor: the first takes the even ones, the second the odd.
DecodeCrc(crc, body) == [first |-> Folded(crc.first, body, 0), second |-> Folded(crc.second, body, 1)]

FirstBlock(s) == SubSeq(s, 1, BlockSize)
Behind(s) == SubSeq(s, BlockSize + 1, Len(s))

\* encrypt: nothing for less than a block.
Encrypted(src) ==
  IF Len(src) < BlockSize THEN <<>>
  ELSE LET crc == EncodeCrc(HeadCrc(FirstBlock(src)), Behind(src))
       IN  Aes(FirstBlock(src)) \o Hidden(FirstBlock(src), Behind(src)) \o <<crc.first, crc.second>>

\* decrypt: nothing if the sums differ.
Decrypted(src) ==
  IF Len(src) < BlockSize + 2 THEN <<>>
  ELSE LET key  == Aes(FirstBlock(src))
           body == Hidden(key, SubSeq(src, BlockSize + 1, Len(src) - 2))
           crc  == DecodeCrc(HeadCrc(key), body)
       IN  IF crc.first = src[Len(src) - 1] /\ crc.second = src[Len(src)] THEN key \o body ELSE <<>>

-----------------------------------------------------------------------------
Taking(as, data) ==
  /\ coding.step = "idle"
  /\ coding' = [NoCoding EXCEPT !.as = as, !.plain = data, !.step = "taken"]

Encode ==
  /\ coding.step = "taken"
  /\ coding' = [coding EXCEPT !.step = "encoded", !.code =
         CASE coding.as = "base64" -> Base64Encode(coding.plain)
           [] coding.as = "hex"    -> Bin2Asc(coding.plain)
           [] coding.as = "crypt"  -> Encrypted(coding.plain)]

Decode ==
  /\ coding.step = "encoded"
  /\ coding' = [coding EXCEPT !.step = "decoded", !.back =
         CASE coding.as = "base64" -> Base64Decode(coding.code)
           [] coding.as = "hex"    -> Asc2Bin(coding.code, Len(coding.plain))
           [] coding.as = "crypt"  -> Decrypted(coding.code)]

Finish == coding.step = "decoded" /\ coding' = NoCoding

TextsOf(n)   == [1 .. n -> TextBytes]
Packets(n) == [1 .. n -> PacketBytes]

CodingNext ==
  \/ \E n \in 0 .. 4 : \E data \in TextsOf(n) : Taking("base64", data)
  \/ \E n \in 0 .. 2 : \E data \in TextsOf(n) : Taking("hex", data)
  \/ \E n \in 0 .. MaxPacket : \E data \in Packets(n) : Taking("crypt", data)
  \/ Encode \/ Decode \/ Finish

CodingSpec == CodingInit /\ [][CodingNext]_coding

-----------------------------------------------------------------------------
CodingTypeOK ==
  /\ coding.as \in {"none", "base64", "hex", "crypt"}
  /\ coding.step \in {"idle", "taken", "encoded", "decoded"}
  /\ \A i \in DOMAIN coding.plain : coding.plain[i] \in 0 .. 255

\* Base64 gives back what it was given, whatever its length.  So do the hex strings of bytes
\* other than 0xba, which asc_map has a wrong entry for.  Of a packet nothing else is given
\* back: it itself or, as PacketsComeBack has it, nothing, and of one block it itself.
NothingElseComesBack ==
  coding.step = "decoded" =>
    CASE coding.as = "base64" -> coding.back = coding.plain
      [] coding.as = "hex"    -> 186 \notin ToSet(coding.plain) => coding.back = coding.plain
      [] coding.as = "crypt"  -> /\ coding.back \in {coding.plain, <<>>}
                                 /\ Len(coding.plain) = BlockSize => coding.back = coding.plain

\* A packet that encrypt took, with the sums it wrote, passes the check of decrypt.  It does not
\* if the sums of EncodeCrc and DecodeCrc differ.
PacketsComeBack ==
  coding.step = "decoded" /\ coding.as = "crypt" /\ Len(coding.plain) >= BlockSize =>
    coding.back = coding.plain
=============================================================================
