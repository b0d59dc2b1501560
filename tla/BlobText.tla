------------------------------ MODULE BlobText ------------------------------
(***************************************************************************)
(* The texts of a binary blob: the hexadecimal copy inside RTON and the    *)
(* $BINARY("HEX", len) of Display and FromStr.  A blob is a sequence of    *)
(* bytes, a text a sequence of characters, where the fixed parts of the    *)
(* $BINARY form and its length are one lexeme each.  A conversion gives a  *)
(* status: "ok" with the bytes, "err", or "panic" for a slice that is out  *)
(* of range or cuts a character in two.                                    *)
(***************************************************************************)
EXTENDS Naturals, SequencesExt

HexDigits == <<"0", "1", "2", "3", "4", "5", "6", "7", "8", "9", "A", "B", "C", "D", "E", "F">>
LowerHex  == [a |-> 10, b |-> 11, c |-> 12, d |-> 13, e |-> 14, f |-> 15]
IsDigit(c)  == c \in Range(HexDigits) \cup DOMAIN LowerHex
DigitOf(c)  == IF c \in DOMAIN LowerHex THEN LowerHex[c]
               ELSE CHOOSE n \in 0 .. 15 : HexDigits[n + 1] = c

(* "{:02X}" for every byte.                                                *)
HexStr(b) ==
  [i \in 1 .. 2 * Len(b) |->
     HexDigits[1 + IF i % 2 = 1 THEN b[(i + 1) \div 2] \div 16 ELSE b[i \div 2] % 16]]

Decoded(b) == [status |-> "ok", bytes |-> b]
Err        == [status |-> "err"]
Panic      == [status |-> "panic"]

(* A str is sliced by bytes: a Latin-1 character past 0x7f, of which there *)
(* is one here, takes two.                                                 *)
Bytes(s) == FlattenSeq([i \in DOMAIN s |-> IF s[i] = "<E9>" THEN <<"<C3", "A9>">> ELSE <<s[i]>>])

(* u8::from_str_radix takes a digit with a plus sign in front as well.     *)
PairStatus(x, y) == CASE y = "<C3"-> "panic"
                      [] IsDigit(y) /\ (IsDigit(x) \/ x = "+") -> "ok"
                      [] OTHER -> "err"
PairByte(x, y)   == (IF x = "+" THEN 0 ELSE 16 * DigitOf(x)) + DigitOf(y)

(* The first pair that is no number decides.                               *)
decode_hex_bytes(s) ==
  LET c      == Bytes(s)
      status == [k \in 1 .. Len(c) \div 2 |-> PairStatus(c[2 * k - 1], c[2 * k])]
      bad    == {k \in DOMAIN status : status[k] # "ok"}
  IN  CASE Len(c) % 2 = 1 -> Err
        [] Len(c) % 2 = 0 /\ bad # {} -> [status |-> status[Min(bad)]]
        [] OTHER -> Decoded([k \in DOMAIN status |-> PairByte(c[2 * k - 1], c[2 * k])])

(* Mutant of BlobDisplay: the number of digits for that of bytes.          *)
BlobDisplay_digits(b) ==
  <<"$BINARY(">> \o HexStr(b) \o <<", ", ToString(2 * Len(b)), ")">>

(* impl Display for BinaryBlob                                             *)
BlobDisplay(b) == <<"$BINARY(">> \o HexStr(b) \o <<", ", ToString(Len(b)), ")">>

(* The regex of FromStr: digits, any space after the comma, a numeral; one *)
(* past the length of the text is refused like no numeral at all.          *)
IsNumeral(l, max) == l \in {ToString(n) : n \in 0 .. max} \cup {"18446744073709551616"}
Matches(s)   == /\ Len(s) >= 4
                /\ s[1] = "$BINARY(" /\ s[Len(s)] = ")" /\ s[Len(s) - 2] \in {",", ", "}
                /\ IsNumeral(s[Len(s) - 1], Len(s))
                /\ \A i \in 2 .. Len(s) - 3 : IsDigit(s[i])

(* impl FromStr for BinaryBlob: the declared length (past u64: an error)   *)
(* against half the number of digits, rounded down; then the slices.       *)
blob_from_str(s) ==
  LET hex == SubSeq(s, 2, Len(s) - 3)
  IN  CASE ~Matches(s) -> Err
        [] Matches(s) /\ s[Len(s) - 1] # ToString(Len(hex) \div 2) -> Err
        [] Matches(s) /\ s[Len(s) - 1] = ToString(Len(hex) \div 2) ->
             IF Len(hex) % 2 = 1 THEN Panic
             ELSE Decoded([k \in 1 .. Len(hex) \div 2 |-> PairByte(hex[2 * k - 1], hex[2 * k])])
=============================================================================
