------------------------------- MODULE Codecs -------------------------------
(***************************************************************************)
(* The formats of records and numbers.                                     *)
(*                                                                         *)
(* How the unspent outputs of a transaction and the undo data of a block   *)
(* are written to disk (serialize.h: compact sizes and VARINT; main.h:     *)
(* CCoins, CTxInUndo, CTxOutCompressor; script.cpp: CScriptCompressor).    *)
(*                                                                         *)
(* A stream is a sequence of bytes; reading gives [val, rest].  Hashes     *)
(* have HashLen bytes (20) and a coordinate of a public key KeyLen (32).   *)
(* Coins are [fCoinBase, nHeight, nVersion, vout], an output [nValue,      *)
(* script] or Null.  Arithmetic on amounts does not overflow within        *)
(* MAX_MONEY, so numbers are exact.                                        *)
(***************************************************************************)
EXTENDS Integers, Sequences, FiniteSets, SequencesExt, Bitwise

CONSTANTS HashLen, KeyLen

Drop(s, n) == SubSeq(s, n + 1, Len(s))

-----------------------------------------------------------------------------
(* Numbers.                                                                *)

\* A little-endian word of n bytes.
RECURSIVE Little(_, _)
Little(v, n) == IF n = 0 THEN <<>> ELSE <<v % 256>> \o Little(v \div 256, n - 1)

RECURSIVE FromLittle(_)
FromLittle(s) == IF s = <<>> THEN 0 ELSE Head(s) + 256 * FromLittle(Tail(s))

WriteCompactSize(n) ==
    IF n < 253 THEN <<n>> ELSE IF n <= 65535 THEN <<253>> \o Little(n, 2) ELSE <<254>> \o Little(n, 4)

ReadCompactSize(s) ==
    LET n == IF Head(s) < 253 THEN 0 ELSE IF Head(s) = 253 THEN 2 ELSE 4
    IN  [val |-> IF n = 0 THEN Head(s) ELSE FromLittle(SubSeq(s, 2, n + 1)), rest |-> Drop(s, n + 1)]

GetSizeOfCompactSize(n) == IF n < 253 THEN 1 ELSE IF n <= 65535 THEN 3 ELSE 5

\* One is subtracted from all but the last digit; the bytes are made in reverse.
RECURSIVE VarDigits(_, _)
VarDigits(n, more) ==
    LET digit == <<(n % 128) + more>>
    IN  IF n <= 127 THEN digit ELSE VarDigits((n \div 128) - 1, 128) \o digit

WriteVarInt(n) == VarDigits(n, 0)

RECURSIVE VarFrom(_, _)
VarFrom(s, n) ==
    LET m == n * 128 + (Head(s) % 128)
    IN  IF Head(s) >= 128 THEN VarFrom(Tail(s), m + 1) ELSE [val |-> m, rest |-> Tail(s)]

ReadVarInt(s) == VarFrom(s, 0)

RECURSIVE GetSizeOfVarInt(_)
GetSizeOfVarInt(n) == IF n <= 127 THEN 1 ELSE 1 + GetSizeOfVarInt((n \div 128) - 1)

\* The trailing zeros of an amount, at most nine.
RECURSIVE TrailingZeros(_, _)
TrailingZeros(n, e) == IF n % 10 = 0 /\ e < 9 THEN TrailingZeros(n \div 10, e + 1) ELSE e

CompressAmount(n) ==
    IF n = 0 THEN 0
    ELSE LET e == TrailingZeros(n, 0)
             m == n \div 10 ^ e
         IN  IF e < 9 THEN 1 + ((m \div 10) * 9 + (m % 10) - 1) * 10 + e ELSE 1 + (m - 1) * 10 + 9

DecompressAmount(x) ==
    IF x = 0 THEN 0
    ELSE LET e == (x - 1) % 10
             y == (x - 1) \div 10
         IN  (IF e < 9 THEN (y \div 9) * 10 + (y % 9) + 1 ELSE y + 1) * 10 ^ e

-----------------------------------------------------------------------------
(* Scripts.  The curve (key.cpp) is a stand-in: x is on it if its first    *)
(* byte is even, and then has two y, one odd and one even.                 *)

CurveY(x, odd) == [i \in 1 .. KeyLen |-> IF i < KeyLen THEN 7 ELSE 4 + odd]

OnCurve(x) == x[1] % 2 = 0

IsToKeyID(s) ==
    /\ Len(s) = HashLen + 5
    /\ SubSeq(s, 1, 3) = <<118, 169, HashLen>> /\ Drop(s, HashLen + 3) = <<136, 172>>

IsToScriptID(s) ==
    Len(s) = HashLen + 3 /\ SubSeq(s, 1, 2) = <<169, HashLen>> /\ Drop(s, HashLen + 2) = <<135>>

\* The key of a pay-to-pubkey script, or <<>>.
IsToPubKey(s) ==
    LET x == SubSeq(s, 3, KeyLen + 2) IN
    IF /\ Len(s) = KeyLen + 3 /\ s[1] = KeyLen + 1 /\ Last(s) = 172 /\ s[2] \in {2, 3}
    THEN SubSeq(s, 2, KeyLen + 2)
    ELSE IF /\ Len(s) = 2 * KeyLen + 3 /\ s[1] = 2 * KeyLen + 1 /\ Last(s) = 172 /\ s[2] = 4
            /\ OnCurve(x) /\ SubSeq(s, KeyLen + 3, 2 * KeyLen + 2) \in {CurveY(x, 0), CurveY(x, 1)}
    THEN SubSeq(s, 2, 2 * KeyLen + 2)
    ELSE <<>>

Compress(s) ==
    IF IsToKeyID(s) THEN <<0>> \o SubSeq(s, 4, HashLen + 3)
    ELSE IF IsToScriptID(s) THEN <<1>> \o SubSeq(s, 3, HashLen + 2)
    ELSE LET key == IsToPubKey(s) IN
         IF key = <<>> THEN <<>>
         ELSE <<IF key[1] = 4 THEN 4 + (Last(key) % 2) ELSE key[1]>> \o SubSeq(key, 2, KeyLen + 1)

GetSpecialSize(n) == IF n <= 1 THEN HashLen ELSE KeyLen

Decompress(n, in) ==
    CASE n = 0 -> <<118, 169, HashLen>> \o in \o <<136, 172>>
      [] n = 1 -> <<169, HashLen>> \o in \o <<135>>
      [] n \in {2, 3} -> <<KeyLen + 1, n>> \o in \o <<172>>
      [] OTHER -> <<2 * KeyLen + 1, 4>> \o in \o CurveY(in, n - 4) \o <<172>>

WriteScript(s) == IF Compress(s) # <<>> THEN Compress(s) ELSE WriteVarInt(Len(s) + 6) \o s

ReadScript(s) ==
    LET n == ReadVarInt(s)
        size == IF n.val < 6 THEN GetSpecialSize(n.val) ELSE n.val - 6
        in == SubSeq(n.rest, 1, size)
    IN  [val |-> IF n.val < 6 THEN Decompress(n.val, in) ELSE in, rest |-> Drop(n.rest, size)]

CompressedSize(s) ==
    IF Compress(s) # <<>> THEN Len(Compress(s)) ELSE Len(s) + GetSizeOfVarInt(Len(s) + 6)

WriteTxOut(out) == WriteVarInt(CompressAmount(out.nValue)) \o WriteScript(out.script)

ReadTxOut(s) ==
    LET v == ReadVarInt(s)
        t == ReadScript(v.rest)
    IN  [val |-> [nValue |-> DecompressAmount(v.val), script |-> t.val], rest |-> t.rest]

TxOutSize(out) == GetSizeOfVarInt(CompressAmount(out.nValue)) + CompressedSize(out.script)

-----------------------------------------------------------------------------
(* Coins: the availability of the first two outputs is in the code, that   *)
(* of the others in a mask of bytes up to the last that is not zero.       *)

Null == [nValue |-> -1, script |-> <<>>]

Flag(b, n) == IF b THEN n ELSE 0

Available(c, i) == i < Len(c.vout) /\ c.vout[i + 1] # Null

MaskByte(c, b) ==
    FoldLeft(+, 0, [i \in 1 .. 8 |-> Flag(Available(c, 2 + b * 8 + i - 1), 2 ^ (i - 1))])

\* CalcMaskSize: how many bytes the mask has, and how many of them are not zero.
CalcMaskSize(c) ==
    LET used == {b \in 0 .. Len(c.vout) \div 8 : MaskByte(c, b) # 0}
    IN  [nBytes |-> IF used = {} THEN 0 ELSE 1 + CHOOSE b \in used : \A a \in used : a <= b,
         nNonzero |-> Cardinality(used)]

HeaderCode(c) ==
    LET first == Available(c, 0)
        second == Available(c, 1)
    IN  8 * (CalcMaskSize(c).nNonzero - Flag(~(first \/ second), 1))
            + Flag(c.fCoinBase, 1) + Flag(first, 2) + Flag(second, 4)

Outputs(c) == SelectSeq(c.vout, LAMBDA o : o # Null)

SerializeCoins(c) ==
    WriteVarInt(c.nVersion) \o WriteVarInt(HeaderCode(c))
        \o [b \in 1 .. CalcMaskSize(c).nBytes |-> MaskByte(c, b - 1)]
        \o FoldLeft(LAMBDA s, o : s \o WriteTxOut(o), <<>>, Outputs(c))
        \o WriteVarInt(c.nHeight)

CoinsSize(c) ==
    GetSizeOfVarInt(c.nVersion) + GetSizeOfVarInt(HeaderCode(c)) + CalcMaskSize(c).nBytes
        + FoldLeft(LAMBDA n, o : n + TxOutSize(o), 0, Outputs(c)) + GetSizeOfVarInt(c.nHeight)

RECURSIVE ReadMask(_, _, _)
ReadMask(s, n, vAvail) ==
    IF n = 0 THEN [val |-> vAvail, rest |-> s]
    ELSE ReadMask(Tail(s), IF Head(s) # 0 THEN n - 1 ELSE n,
                  vAvail \o [p \in 1 .. 8 |-> (Head(s) \div 2 ^ (p - 1)) % 2 = 1])

ReadOutputs(s, vAvail) ==
    FoldLeft(LAMBDA a, f :
        IF ~f THEN [a EXCEPT !.val = Append(@, Null)]
        ELSE LET r == ReadTxOut(a.rest) IN [val |-> Append(a.val, r.val), rest |-> r.rest],
        [val |-> <<>>, rest |-> s], vAvail)

\* Cleanup: no outputs that are spent at the end.
RECURSIVE Cleanup(_)
Cleanup(vout) == IF vout # <<>> /\ Last(vout) = Null THEN Cleanup(Front(vout)) ELSE vout

UnserializeCoins(s) ==
    LET version == ReadVarInt(s)
        code == ReadVarInt(version.rest)
        bit(n) == (code.val \div n) % 2 = 1
        mask == ReadMask(code.rest, (code.val \div 8) + Flag(~bit(2) /\ ~bit(4), 1), <<bit(2), bit(4)>>)
        outs == ReadOutputs(mask.rest, mask.val)
        height == ReadVarInt(outs.rest)
    IN  [val |-> [fCoinBase |-> bit(1), nHeight |-> height.val, nVersion |-> version.val,
                  vout |-> Cleanup(outs.val)],
         rest |-> height.rest]

\* CTxInUndo: the metadata only if the output was the last.
SerializeUndo(u) ==
    WriteVarInt(u.nHeight * 2 + Flag(u.fCoinBase, 1))
        \o (IF u.nHeight > 0 THEN WriteVarInt(u.nVersion) ELSE <<>>) \o WriteTxOut(u.txout)

UnserializeUndo(s) ==
    LET code == ReadVarInt(s)
        last == code.val \div 2 > 0
        version == IF last THEN ReadVarInt(code.rest) ELSE [val |-> 0, rest |-> code.rest]
        out == ReadTxOut(version.rest)
    IN  [val |-> [nHeight |-> code.val \div 2, fCoinBase |-> code.val % 2 = 1,
                  nVersion |-> version.val, txout |-> out.val],
         rest |-> out.rest]

\* CTxUndo: as many as there are inputs, with their number in front.
SerializeTxUndo(us) == WriteCompactSize(Len(us)) \o FoldLeft(LAMBDA s, u : s \o SerializeUndo(u), <<>>, us)

UnserializeTxUndo(s) ==
    LET n == ReadCompactSize(s)
    IN  FoldLeft(LAMBDA a, i : LET r == UnserializeUndo(a.rest)
                               IN  [val |-> Append(a.val, r.val), rest |-> r.rest],
                 [val |-> <<>>, rest |-> n.rest], [i \in 1 .. n.val |-> i])

-----------------------------------------------------------------------------

\* What is written is read back: coins that are not all spent come back as they were,
\* whatever outputs are spent and whatever forms their scripts and amounts take, the
\* reader stops exactly where the writer did, and the size computed beforehand, by
\* which the database batches are bounded, is the size written.
CoinsReadBack(c, tail) ==
    /\ UnserializeCoins(SerializeCoins(c) \o tail) = [val |-> [c EXCEPT !.vout = Cleanup(@)], rest |-> tail]
    /\ CoinsSize(c) = Len(SerializeCoins(c))

\* A block is disconnected from what was written when it was connected: the undo data
\* of its transactions is read back, with the metadata where it was the last output.
UndoReadsBack(us, tail) == UnserializeTxUndo(SerializeTxUndo(us) \o tail) = [val |-> us, rest |-> tail]

\* Every number has one encoding, of the size given for it, and no encoding is the
\* beginning of another ("Every integer has exactly one encoding").
NumbersReadBack(n, tail) ==
    /\ ReadVarInt(WriteVarInt(n) \o tail) = [val |-> n, rest |-> tail]
    /\ ReadCompactSize(WriteCompactSize(n) \o tail) = [val |-> n, rest |-> tail]
    /\ GetSizeOfVarInt(n) = Len(WriteVarInt(n)) /\ GetSizeOfCompactSize(n) = Len(WriteCompactSize(n))
    /\ DecompressAmount(CompressAmount(n)) = n

-----------------------------------------------------------------------------
(* Numbers of many words (uint256.h: base_uint) and their conversion to and  *)
(* from the library's big numbers (bignum.h: CBigNum).  A byte has ByteBits  *)
(* bits and a word WordBytes bytes, so that every number of WIDTH words can  *)
(* be tried; the code has 8, 4 and 8.                                       *)

CONSTANTS ByteBits, WordBytes, WIDTH

Byte == 2^ByteBits
WordBits == ByteBits * WordBytes
Base == 2^WordBits
Modulus == 2^(WordBits * WIDTH)
Index == 0..(WIDTH - 1)

\* The number pn stands for, and the words of a number.
ValueOf(pn) == FoldLeft(LAMBDA n, i : n * Base + pn[WIDTH - i], 0, [i \in 1..WIDTH |-> i])
WordsOf(n) == [i \in Index |-> (n \div 2^(WordBits * i)) % Base]

-----------------------------------------------------------------------------
(* base_uint.                                                              *)

Complement(a) == [i \in Index |-> Base - 1 - a[i]]

\* operator++: a word that wraps to zero carries into the next.
Increment(a) ==
    LET last == IF \A i \in Index : a[i] = Base - 1 THEN WIDTH - 1
                ELSE CHOOSE i \in Index : a[i] # Base - 1 /\ \A j \in 0..(i - 1) : a[j] = Base - 1
    IN  [i \in Index |-> IF i <= last THEN (a[i] + 1) % Base ELSE a[i]]

\* operator--: a word that wraps to all ones borrows from the next.
Decrement(a) ==
    LET last == IF \A i \in Index : a[i] = 0 THEN WIDTH - 1
                ELSE CHOOSE i \in Index : a[i] # 0 /\ \A j \in 0..(i - 1) : a[j] = 0
    IN  [i \in Index |-> IF i <= last THEN (a[i] + Base - 1) % Base ELSE a[i]]

Negate(a) == Increment(Complement(a))

\* operator+=: the carry into word i, and the words.
AddWords(a, b) ==
    LET carry[i \in 0..WIDTH] == IF i = 0 THEN 0 ELSE (carry[i - 1] + a[i - 1] + b[i - 1]) \div Base
    IN  [i \in Index |-> (carry[i] + a[i] + b[i]) % Base]
SubtractWords(a, b) == AddWords(a, Negate(b))

\* operator<<= and operator>>=: each word falls into two neighbouring ones.
ShiftLeft(a, bits) ==
    LET k == bits \div WordBits
        shift == bits % WordBits
    IN  [i \in Index |->
            (IF i - k \in Index THEN (a[i - k] * 2^shift) % Base ELSE 0)
            | (IF i - k - 1 \in Index /\ shift # 0 THEN a[i - k - 1] \div 2^(WordBits - shift) ELSE 0)]
ShiftRight(a, bits) ==
    LET k == bits \div WordBits
        shift == bits % WordBits
    IN  [i \in Index |->
            (IF i + k \in Index THEN a[i + k] \div 2^shift ELSE 0)
            | (IF i + k + 1 \in Index /\ shift # 0
               THEN (a[i + k + 1] * 2^(WordBits - shift)) % Base ELSE 0)]

XorWords(a, b) == [i \in Index |-> a[i] ^^ b[i]]
AndWords(a, b) == [i \in Index |-> a[i] & b[i]]
OrWords(a, b) == [i \in Index |-> a[i] | b[i]]

\* operator<: the highest word that differs decides.
LessWords(a, b) ==
    \E i \in Index : a[i] < b[i] /\ \A j \in (i + 1)..(WIDTH - 1) : a[j] = b[j]

\* The bytes in memory, lowest first, and GetHex, which prints the highest first.
BytesOf(a) == [i \in 1..(WIDTH * WordBytes) |->
                  (a[(i - 1) \div WordBytes] \div Byte^((i - 1) % WordBytes)) % Byte]
HexBase == 2^(ByteBits \div 2)
GetHex(a) == LET bytes == Reverse(BytesOf(a))
             IN  FlattenSeq([i \in DOMAIN bytes |-> <<bytes[i] \div HexBase, bytes[i] % HexBase>>])

\* SetHex: the digits from the last, two to a byte, until the number is full.
SetHex(digits) ==
    LET d(i) == IF i < Len(digits) THEN digits[Len(digits) - i] ELSE 0
        byte(i) == d(2 * i) | (d(2 * i + 1) * HexBase)
    IN  [w \in Index |-> FoldLeft(LAMBDA n, j : n + byte(w * WordBytes + j - 1) * Byte^(j - 1), 0,
                                  [j \in 1..WordBytes |-> j])]

(* Every operation on words is the one on numbers modulo 2^BITS, whatever
   carries, borrows and crosses from word to word; the order of words is the
   order of numbers; and SetHex reads what GetHex prints, and of any digits
   the lowest that fit. *)
WordsAreNumbers(m, n, bits, digits) ==
    LET a == WordsOf(m)
        b == WordsOf(n)
    IN  /\ ValueOf(AddWords(a, b)) = (m + n) % Modulus
        /\ ValueOf(SubtractWords(a, b)) = ((m - n) + Modulus) % Modulus
        /\ ValueOf(Increment(a)) = (m + 1) % Modulus
        /\ ValueOf(Decrement(a)) = (m + Modulus - 1) % Modulus
        /\ ValueOf(ShiftLeft(a, bits)) = (m * 2^bits) % Modulus
        /\ ValueOf(ShiftRight(a, bits)) = m \div 2^bits
        /\ LessWords(a, b) = (m < n)
        /\ AddWords(XorWords(a, b), ShiftLeft(AndWords(a, b), 1)) = AddWords(a, b)
        /\ AddWords(OrWords(a, b), AndWords(a, b)) = AddWords(a, b)
        /\ SetHex(GetHex(a)) = a
        /\ ValueOf(SetHex(digits)) = FoldLeft(LAMBDA v, d : v * HexBase + d, 0, digits) % Modulus

-----------------------------------------------------------------------------
(* CBigNum.  The library's format has the highest byte first and the sign in *)
(* its highest bit (external: BN_mpi2bn, BN_bn2mpi).                        *)

SignBit == Byte \div 2
Mpi2bn(bytes) ==
    IF bytes = <<>> THEN 0
    ELSE LET low == FoldLeft(LAMBDA n, b : n * Byte + b, bytes[1] % SignBit, Tail(bytes))
         IN  IF bytes[1] >= SignBit THEN -low ELSE low
Magnitude(n) == IF n < 0 THEN -n ELSE n
NumBytes(n) == CHOOSE k \in 0..20 : Magnitude(n) < Byte^k /\ (k > 0 => Magnitude(n) >= Byte^(k - 1))
BigEndian(n) == [i \in 1..NumBytes(n) |-> (Magnitude(n) \div Byte^(NumBytes(n) - i)) % Byte]
Bn2mpi(n) ==
    LET bytes == BigEndian(n)
        sign == IF n < 0 THEN SignBit ELSE 0
    IN  IF n = 0 THEN <<>>
        ELSE IF bytes[1] >= SignBit THEN <<sign>> \o bytes
        ELSE <<bytes[1] + sign>> \o Tail(bytes)

(* The variant leaves that byte out. *)
SetUintPlain(n) == Mpi2bn(BigEndian(n))

\* setuint64: the bytes from the first that is not zero, with a byte before
\* one that has the sign bit.
SetUint(n) ==
    LET bytes == BigEndian(n)
    IN  Mpi2bn(IF n > 0 /\ bytes[1] >= SignBit THEN <<0>> \o bytes ELSE bytes)

\* setint64: the same, with the sign.
SetInt(sn) ==
    LET n == IF sn < 0 THEN (-(sn + 1)) + 1 ELSE sn
        fNegative == sn < 0
        bytes == BigEndian(n)
    IN  IF n = 0 THEN 0
        ELSE IF bytes[1] >= SignBit THEN Mpi2bn(<<IF fNegative THEN SignBit ELSE 0>> \o bytes)
        ELSE Mpi2bn(<<IF fNegative THEN bytes[1] + SignBit ELSE bytes[1]>> \o Tail(bytes))

\* setuint256 from the words, highest byte first.
SetUint256(a) ==
    LET bytes == Reverse(BytesOf(a))
        from == IF \A i \in DOMAIN bytes : bytes[i] = 0 THEN Len(bytes) + 1
                ELSE CHOOSE i \in DOMAIN bytes : bytes[i] # 0 /\ \A j \in 1..(i - 1) : bytes[j] = 0
        rest == SubSeq(bytes, from, Len(bytes))
    IN  Mpi2bn(IF rest # <<>> /\ rest[1] >= SignBit THEN <<0>> \o rest ELSE rest)

\* getuint256: the sign is dropped, and the bytes that do not fit.
GetUint256(n) ==
    LET vch == Bn2mpi(n)
        plain == IF vch = <<>> THEN vch ELSE <<vch[1] % SignBit>> \o Tail(vch)
        low(i) == IF i < Len(plain) THEN plain[Len(plain) - i] ELSE 0
    IN  [w \in Index |-> FoldLeft(LAMBDA v, j : v + low(w * WordBytes + j - 1) * Byte^(j - 1), 0,
                                  [j \in 1..WordBytes |-> j])]

SetVch(vch) == Mpi2bn(Reverse(vch))
GetVch(n) == Reverse(Bn2mpi(n))

\* The compact form: the number of bytes, the sign and the three highest bytes
\* without the sign bit.
Mantissa == Byte^2 * SignBit
SetCompact(c) ==
    LET n == IF c.nSize <= 3 THEN c.nWord \div Byte^(3 - c.nSize) ELSE c.nWord * Byte^(c.nSize - 3)
    IN  IF c.fNegative THEN -n ELSE n
GetCompact(n) ==
    LET nSize == NumBytes(n)
        nCompact == IF nSize <= 3 THEN Magnitude(n) * Byte^(3 - nSize)
                    ELSE Magnitude(n) \div Byte^(nSize - 3)
    IN  IF nCompact >= Mantissa
        THEN [nSize |-> nSize + 1, nWord |-> nCompact \div Byte, fNegative |-> n < 0]
        ELSE [nSize |-> nSize, nWord |-> nCompact, fNegative |-> n < 0]

\* ToString in any base, and SetHex; <<sign>> \o digits.
RECURSIVE Digits(_, _)
Digits(n, nBase) == IF n < nBase THEN <<n>> ELSE Digits(n \div nBase, nBase) \o <<n % nBase>>
ToStringBn(n, nBase) == [negative |-> n < 0, digits |-> Digits(Magnitude(n), nBase)]
SetHexBn(s, nBase) ==
    LET n == FoldLeft(LAMBDA v, d : v * nBase + d, 0, s.digits)
    IN  IF s.negative THEN 0 - n ELSE n

(* The conversions keep the number: setint64 for every signed number, its
   least one included, setuint256 and getuint256 for every number of BITS
   bits, setvch and getvch for every number, in the fewest bytes; the compact
   form keeps the highest bits of the magnitude and is kept itself. *)
NumbersConvert(n) ==
    /\ SetInt(n) = n /\ SetUint(Magnitude(n)) = Magnitude(n)
    /\ n >= 0 => SetUint256(WordsOf(n % Modulus)) = n % Modulus
    /\ n \in 0..(Modulus - 1) => GetUint256(n) = WordsOf(n)
    /\ SetVch(GetVch(n)) = n
    /\ \A k \in 0..(Len(GetVch(n)) - 1) : SetVch(SubSeq(GetVch(n), 1, k)) # n
    /\ SetHexBn(ToStringBn(n, 3), 3) = n
    /\ LET c == GetCompact(n)
           m == SetCompact(c)
       IN  /\ c.nWord < Mantissa
           /\ Magnitude(m) <= Magnitude(n) /\ (m < 0) = (n < 0)
           /\ Magnitude(n) - Magnitude(m) < Byte^(IF c.nSize > 3 THEN c.nSize - 3 ELSE 0)
           /\ GetCompact(m) = c
=============================================================================
