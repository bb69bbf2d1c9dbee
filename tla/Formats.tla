------------------------------- MODULE Formats -------------------------------
(***************************************************************************)
(* The headers of the two file formats (src/src/lzma_header.c,             *)
(* src/src/lzip_header.c), what the decoder makes of them                  *)
(* (src/src/pavlov/LzmaDec.c) and the dictionary size that is proposed for *)
(* an input (src/src/compress.c).                                          *)
(*                                                                         *)
(* A header is a record of its fields.  The properties byte is computed as *)
(* in the code; integers put down byte by byte are themselves.             *)
(***************************************************************************)
EXTENDS Integers

CONSTANTS
    MinLog, MaxLog,   \* 13 and 23: the dictionaries that are proposed
    DicMin,           \* LZMA_DIC_MIN
    DicMax            \* 2^28: lzmadec_header_dictionary accepts no more

ASSUME FormatsAssumption ==
    /\ MinLog \in Nat \ {0} /\ MaxLog \in Nat /\ MinLog < MaxLog /\ MaxLog < 31
    /\ DicMin \in Nat \ {0} /\ DicMax \in Nat /\ DicMin <= DicMax

Properties == [lc : 0 .. 8, lp : 0 .. 4, pb : 0 .. 4]

(* ELZMA_LC_DEFAULT, ELZMA_LP_DEFAULT, ELZMA_PB_DEFAULT: all that the tool  *)
(* uses, and all that the lzip format can express.                          *)
Defaults == [lc |-> 3, lp |-> 0, pb |-> 2]

(* The properties in one Byte, as serializeLzmaHeader composes it ...       *)
PropertiesByte(p) == (p.lc + (p.pb * 45) + (p.lp * 45 * 9)) % 256

(* ... as LzmaProps_Decode takes it apart ...                               *)
PropsSupported(d) == d < 9 * 5 * 5
DecodedProps(d) == [lc |-> d % 9, lp |-> (d \div 9) % 5, pb |-> (d \div 9) \div 5]

(* ... and as lzmadec_header_properties does.                               *)
PropertiesParsed(c) == c <= 9 * 5 * 5
HeaderProperties(c) == [lc |-> c % 9, lp |-> (c % 45) \div 9, pb |-> c \div 45]

(* How often n can be shifted to the right before it is 0.                  *)
Bits(n) == CHOOSE r \in 0 .. 32 : n < 2 ^ r /\ (r > 0 => 2 ^ (r - 1) <= n)

(* serializeLzmaHeader and serializeLzipHeader.                             *)
LzmaHeader(p, dict, size) ==
    [kind |-> "lzma", props |-> PropertiesByte(p), dict |-> dict, size |-> size]

LzipHeader(dict) == [kind |-> "lzip", log |-> (Bits(dict) - 1) % 32]

Header(format, dict, size) ==
    IF format = "lzip" THEN LzipHeader(dict) ELSE LzmaHeader(Defaults, dict, size)

(* parseLzmaHeader and parseLzipHeader: whether they accept, and the        *)
(* dictionary size and the properties they pass on.                         *)
Parsed(h) ==
    h.kind = "lzma" => PropertiesParsed(h.props) /\ h.dict <= DicMax

ParsedDict(h) == IF h.kind = "lzip" THEN 2 ^ h.log ELSE h.dict

ParsedProps(h) == IF h.kind = "lzip" THEN PropertiesByte(Defaults) ELSE h.props

(* The decoder that LzmaDec_Allocate makes for a header: an .lzip header is *)
(* turned into an .lzma one first (elzma_decompress_run).                   *)
Window(h) == IF ParsedDict(h) < DicMin THEN DicMin ELSE ParsedDict(h)

DecoderProps(h) == DecodedProps(ParsedProps(h))

(* elzma_get_dict_size: the power of two closest to size, or 2^MinLog for   *)
(* smaller sizes, up to 2^MaxLog.  The differences are unsigned, so that    *)
(* one below 0 is a large number.                                           *)
GetDictSize(given) ==
    LET size == IF given > 2 ^ MaxLog THEN given \div 2 ELSE given
        i    == IF Bits(size) < MinLog THEN MinLog ELSE Bits(size)
    IN  IF i > MaxLog THEN 2 ^ MaxLog
        ELSE IF 2 ^ (i - 1) <= size /\ 2 ^ i - size > size - 2 ^ (i - 1)
        THEN 2 ^ (i - 1)
        ELSE 2 ^ i
=============================================================================
