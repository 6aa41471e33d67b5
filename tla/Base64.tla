------------------------------- MODULE Base64 -------------------------------
(***************************************************************************)
(* The two base64 encoders of the engine (for the websocket accept key and *)
(* in Utils) and the decoder of Utils.  A character is its index in the    *)
(* alphabet, Pad the "=" sign.                                             *)
(***************************************************************************)
EXTENDS Integers, SequencesExt

Pad == 64

(* HttpWebsocketConnectionIO::base64_encode: a triple of bytes as a number *)
(* of 24 bits and its four digits of 6 bits.                               *)
ByteAt(data, i) == IF i <= Len(data) THEN data[i] ELSE 0

Sextets(triple) == [k \in 1 .. 4 |-> (triple \div 64 ^ (4 - k)) % 64]

base64_encode(data) ==
    LET group(g) ==
            LET i == 3 * g - 2
                four == Sextets(ByteAt(data, i) * 65536 + ByteAt(data, i + 1) * 256
                                + ByteAt(data, i + 2))
            IN  [k \in 1 .. 4 |-> IF i + k - 2 <= Len(data) THEN four[k] ELSE Pad]
    IN  FlattenSeq([g \in 1 .. (Len(data) + 2) \div 3 |-> group(g)])

char_array_4(a, b, c) ==
    << a \div 4,
       (a % 4) * 16 + b \div 16,
       (b % 16) * 4 + c \div 64,
       c % 64 >>

utils_base64_encode(data) ==
    LET group(g) ==
            LET i == 3 * g - 2
                n == IF Len(data) - i >= 2 THEN 3 ELSE Len(data) - i + 1
                four == char_array_4(data[i], ByteAt(data, i + 1), ByteAt(data, i + 2))
            IN  SubSeq(four, 1, n + 1) \o [k \in 1 .. 3 - n |-> Pad]
    IN  FlattenSeq([g \in 1 .. (Len(data) + 2) \div 3 |-> group(g)])

(* Utils::base64_decode: up to the first sign that is no digit.  A missing *)
(* digit of the last group is looked up in the alphabet, not found, and    *)
(* becomes 255; the bytes it spoils are not returned.                      *)
char_array_3(a, b, c, d) ==
    << (a * 4 + ((b \div 16) % 4)) % 256,
       ((b % 16) * 16 + ((c \div 4) % 16)) % 256,
       ((c % 4) * 64 + d) % 256 >>

base64_decode(text) ==
    LET stops == {i \in DOMAIN text : text[i] = Pad}
        used == IF stops = {} THEN text ELSE SubSeq(text, 1, Min(stops) - 1)
        At(i) == IF i <= Len(used) THEN used[i] ELSE 255
        group(g) ==
            LET i == 4 * g - 3
                n == IF Len(used) - i >= 3 THEN 4 ELSE Len(used) - i + 1
            IN  SubSeq(char_array_3(At(i), At(i + 1), At(i + 2), At(i + 3)), 1, n - 1)
    IN  FlattenSeq([g \in 1 .. (Len(used) + 3) \div 4 |-> group(g)])

=============================================================================
