--------------------------- MODULE WebsocketFrame ---------------------------
(***************************************************************************)
(* The wire format of websocket frames: WebSocketFrameBuilder writes them, *)
(* WebSocketFrameParser takes them out of the bytes that a connection      *)
(* happens to deliver together.  The widths of the format are parameters,  *)
(* so that every length class is met by payloads of a few bytes: a byte    *)
(* holds 0 .. Base - 1 (256), lengths up to MaxShort (125) sit in the      *)
(* second header byte, lengths below Base^2 in two bytes and the others in *)
(* WideCells (8).  A header byte is kept as the record of its bit fields;  *)
(* the reserved bits, always 0 here and read by nobody, are left out.      *)
(***************************************************************************)
EXTENDS Integers, SequencesExt, Bitwise

CONSTANTS
    Base,       \* values of a byte
    MaxShort,   \* largest payload length written in the second header byte
    WideCells,  \* bytes of the long form of a length
    CompactAt   \* parsed bytes from which the parser's buffer is shifted

ASSUME WidthAssumption ==
    /\ Base \in Nat \ {0, 1}
    /\ {MaxShort, WideCells, CompactAt} \subseteq Nat

Opcodes == {"Continuation", "Text", "Binary", "Close", "Ping", "Pong"}

is_control_opcode(opcode) == opcode \in {"Close", "Ping", "Pong"}

(* A frame as the builder is asked for it and the parser returns it.  key  *)
(* is the masking key of a masked frame.                                   *)
Frame(opcode, payload, fin, key) ==
    [opcode |-> opcode, payload |-> payload, fin |-> fin, key |-> key]

NoKey == << >>

-----------------------------------------------------------------------------
(* Builder.                                                                *)

Digits(value, width) ==
    [i \in 1 .. width |-> (value \div Base ^ (width - i)) % Base]

append_payload_length(size, mask) ==
    IF size <= MaxShort
    THEN << [mask |-> mask, len |-> size] >>
    ELSE IF size <= Base ^ 2 - 1
    THEN << [mask |-> mask, len |-> MaxShort + 1] >> \o Digits(size, 2)
    ELSE << [mask |-> mask, len |-> MaxShort + 2] >> \o Digits(size, WideCells)

(* Applying a key of four bytes to a payload, for sending and receiving.   *)
Masked(payload, key) ==
    [i \in DOMAIN payload |-> payload[i] ^^ key[((i - 1) % 4) + 1]]

(* build_frame throws when this does not hold.                             *)
Buildable(f) ==
    is_control_opcode(f.opcode) => f.fin /\ Len(f.payload) <= MaxShort

build_frame(f) ==
    << [fin |-> f.fin, opcode |-> f.opcode] >>
        \o append_payload_length(Len(f.payload), f.key # NoKey)
        \o f.key
        \o IF f.key # NoKey THEN Masked(f.payload, f.key) ELSE f.payload

build_text(text, fin, key)      == Frame("Text", text, fin, key)
build_binary(payload, fin, key) == Frame("Binary", payload, fin, key)
build_ping(payload, key)        == Frame("Ping", payload, TRUE, key)
build_pong(payload, key)        == Frame("Pong", payload, TRUE, key)
build_close(code, reason, key)  ==
    Frame("Close", Digits(code, 2) \o reason, TRUE, key)

-----------------------------------------------------------------------------
(* Parser: the buffer of received bytes and the length of the prefix of it *)
(* that has been parsed.                                                   *)

ParserInit == [buffer |-> << >>, offset |-> 0]

ReadNumber(cells) == FoldLeft(LAMBDA n, d : n * Base + d, 0, cells)

feed(p, data) == [p EXCEPT !.buffer = @ \o data]

None == [size |-> 0]

(* The frame that starts after the offset and the bytes it takes, or None  *)
(* while some of it has not been received.                                 *)
try_parse_one_frame(p) ==
    LET b == SubSeq(p.buffer, p.offset + 1, Len(p.buffer))
        ext == IF Len(b) < 2 THEN 0
               ELSE IF b[2].len = MaxShort + 1 THEN 2
               ELSE IF b[2].len = MaxShort + 2 THEN WideCells
               ELSE 0
        keyed == Len(b) >= 2 /\ b[2].mask
        header == 2 + ext + IF keyed THEN 4 ELSE 0
        length == IF ext = 0 THEN b[2].len ELSE ReadNumber(SubSeq(b, 3, 2 + ext))
        key == IF keyed THEN SubSeq(b, 3 + ext, 6 + ext) ELSE NoKey
        raw == SubSeq(b, header + 1, header + length)
    IN  IF Len(b) < header \/ Len(b) < header + length
        THEN None
        ELSE [size  |-> header + length,
              frame |-> Frame(b[1].opcode,
                              IF keyed THEN Masked(raw, key) ELSE raw,
                              b[1].fin, key)]


Compact(p) ==
    IF p.offset = Len(p.buffer)
    THEN ParserInit
    ELSE IF p.offset > 0 /\ (p.offset >= CompactAt \/ p.offset > Len(p.buffer) \div 2)
    THEN [buffer |-> SubSeq(p.buffer, p.offset + 1, Len(p.buffer)), offset |-> 0]
    ELSE p

(* All complete frames.                                                    *)
parse_frames(p) ==
    LET from[o \in 0 .. Len(p.buffer)] ==
            LET one == try_parse_one_frame([p EXCEPT !.offset = o])
            IN  IF one = None
                THEN [frames |-> << >>, offset |-> o]
                ELSE [from[o + one.size] EXCEPT !.frames = << one.frame >> \o @]
        parsed == from[p.offset]
    IN  [frames |-> parsed.frames,
         parser |-> Compact([p EXCEPT !.offset = parsed.offset])]

=============================================================================
