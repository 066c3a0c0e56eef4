------------------------------ MODULE BitStream ------------------------------
(***************************************************************************)
(* geco_bit_stream_t (geco-bit-stream.cpp, geco-bit-stream.h): fields are  *)
(* packed bit by bit into a buffer that grows, and read back in the order  *)
(* they were written.  A partial byte is extended with |=, so every write  *)
(* relies on the unwritten bits of the last byte being 0, although neither *)
(* new heap memory nor a reset stream is cleared.                          *)
(*                                                                         *)
(* Build modelled: little endian host, assertions off, integers swapped to *)
(* network order by Write and Read only (the swap is undone by the reader).*)
(* A byte has ByteBits bits; the code has 8.                               *)
(***************************************************************************)
EXTENDS Integers, Sequences, FiniteSets, SequencesExt

CONSTANTS
    ByteBits,      \* bits of a byte, a power of two
    StackBytes,    \* GECO_STREAM_STACK_ALLOC_BYTES
    GrowthLimit,   \* 1048576: above it the buffer grows by it, below it doubles
    Fields,        \* the fields a user writes
    PadSizes,      \* the arguments of pad_zeros_up_to
    MaxWrites      \* bound: number of fields written

ASSUME BitStreamAssumption ==
    /\ ByteBits \in {2, 4, 8}
    /\ {StackBytes, GrowthLimit, MaxWrites} \subseteq Nat \ {0}
    /\ PadSizes \subseteq Nat

VARIABLES
    data,                  \* uchar_data_, bit by bit: all the memory there is
    allocated_bits_size_,
    writable_bit_pos_,
    readable_bit_pos_,
    fields,                \* the fields written since the last reset
    ends,                  \* where the writing of each of them ended
    nread,                 \* how many of them have been read
    writes                 \* fields written, those before a reset too

vars == <<data, allocated_bits_size_, writable_bit_pos_, readable_bit_pos_,
          fields, ends, nread, writes>>

Bit == {0, 1}

BITS_TO_BYTES(n) == (n + ByteBits - 1) \div ByteBits
BYTES_TO_BITS(n) == n * ByteBits

-----------------------------------------------------------------------------
(* Conversions between a number and the bits of the stream: low byte first, *)
(* each byte from its highest bit; the last byte may be partial and is      *)
(* right aligned in the user's memory.                                      *)

\* The weight of bit k (from 0) of a field of n bits.
Weight(k, n) ==
    LET byte  == k \div ByteBits
        width == IF BYTES_TO_BITS(byte + 1) <= n THEN ByteBits ELSE n % ByteBits
    IN  2 ^ (BYTES_TO_BITS(byte) + width - 1 - (k % ByteBits))

Encoded(v, n) == [k \in 1..n |-> (v \div Weight(k - 1, n)) % 2]

\* ReadBits, right aligned: the number of the n bits from position pos.
Decoded(pos, n) ==
    FoldLeft(LAMBDA sum, k : sum + data[pos + k] * Weight(k - 1, n),
             0, [k \in 1..n |-> k])

ByteOf(v, i) == (v \div 2 ^ BYTES_TO_BITS(i)) % 2 ^ ByteBits

-----------------------------------------------------------------------------
(* Writing.  A stream is a record so that a field made of several calls can *)
(* be threaded through them.                                                *)

Stream == [data  |-> data,
           alloc |-> allocated_bits_size_,
           pos   |-> writable_bit_pos_]

\* BITS_TO_BYTES rounded down: the last byte of an odd size is not allocated.
AppendRoundedDown(s, n, garbage) ==
    LET need  == n + s.pos
        new   == IF need > GrowthLimit THEN need + GrowthLimit ELSE 2 * need
        bytes == new \div ByteBits
        kept  == IF s.alloc = BYTES_TO_BITS(StackBytes) /\ s.pos = 0
                 THEN 0
                 ELSE BYTES_TO_BITS(BITS_TO_BYTES(s.alloc))
    IN  IF s.alloc >= need
        THEN s
        ELSE [s EXCEPT
                !.data  = [x \in 1..BYTES_TO_BITS(bytes) |->
                             IF x <= kept THEN s.data[x] ELSE garbage],
                !.alloc = new]

\* Grows the buffer.  New memory holds anything; the stack buffer is copied
\* only if something was written to it.
AppendBitsCouldRealloc(s, n, garbage) ==
    LET need  == n + s.pos
        new   == IF need > GrowthLimit THEN need + GrowthLimit ELSE 2 * need
        bytes == BITS_TO_BYTES(new)
        kept  == IF s.alloc = BYTES_TO_BITS(StackBytes) /\ s.pos = 0
                 THEN 0
                 ELSE BYTES_TO_BITS(BITS_TO_BYTES(s.alloc))
    IN  IF s.alloc >= need
        THEN s
        ELSE [s EXCEPT
                !.data  = [x \in 1..BYTES_TO_BITS(bytes) |->
                             IF x <= kept THEN s.data[x] ELSE garbage],
                !.alloc = new]

\* The bytes from position pos after bits were stored there: the byte that was
\* begun is extended with |=, the others are set, their unused bits to what the
\* source's last byte has there.
Put(d, pos, bits, rest) ==
    LET n         == Len(bits)
        source    == bits \o rest
        end       == BYTES_TO_BITS(BITS_TO_BYTES(pos + n))
        begun(x)  == pos % ByteBits # 0 /\ (x - 1) \div ByteBits = pos \div ByteBits
        bit(x)    == IF x <= pos + Len(source) THEN source[x - pos] ELSE 0
    IN  [x \in 1..Len(d) |->
           IF x <= pos \/ x > end \/ n = 0 THEN d[x]
           ELSE IF begun(x) /\ d[x] = 1 THEN 1
           ELSE bit(x)]

\* WriteBits, and WriteBitZero and WriteBitOne for one bit.  A partial last byte
\* that is right aligned is shifted to the left, which leaves 0 behind it: rest is
\* empty.  One that is left aligned is stored as it is, with the rest of its bits.
WriteBits(s, bits, rest, garbage) ==
    LET t == AppendBitsCouldRealloc(s, Len(bits), garbage)
    IN  [t EXCEPT !.data = Put(t.data, t.pos, bits, rest),
                  !.pos  = t.pos + Len(bits)]

\* align_writable_bit_pos and align_readable_bit_pos.
Aligned(pos) == pos + ByteBits - (((pos - 1) % ByteBits) + 1)

-----------------------------------------------------------------------------
(* The calls of WriteBits that write a field.                               *)

AllOnes == 2 ^ ByteBits - 1
Half == 2 ^ (ByteBits \div 2)

\* The number of high bytes equal to match, the lowest byte left aside.
Matched(v, bytes, match) ==
    CHOOSE m \in 0..bytes - 1 :
        /\ \A i \in bytes - m..bytes - 1 : ByteOf(v, i) = match
        /\ m < bytes - 1 => ByteOf(v, bytes - 1 - m) # match

\* WriteMini: a 1 for each high byte that is the sign's, then 0 and the rest; or
\* the half of the lowest byte if its other half is all 0 or all 1.
WriteMini(v, bytes, isUnsigned) ==
    LET match == IF isUnsigned THEN 0 ELSE AllOnes
        m     == Matched(v, bytes, match)
        low   == ByteOf(v, 0)
    IN  [i \in 1..m |-> <<1>>] \o
        (IF m < bytes - 1
           THEN << <<0>>, Encoded(v, BYTES_TO_BITS(bytes - m)) >>
           ELSE IF low \div Half \in {0, Half - 1}
                  THEN << <<1>>, Encoded(low % Half, ByteBits \div 2) >>
                  ELSE << <<0>>, Encoded(low, ByteBits) >>)

\* get_leading_zeros_size: bisection by shifts of half the width down to 2.
LeadingZeros(x, width) ==
    LET shifts == SetToSortSeq({ w \in {2, 4, 8, 16, 32} : 2 * w <= width }, >)
        Step(r, shift) ==
            IF r.x \div 2 ^ shift # 0
            THEN [x |-> r.x \div 2 ^ shift, n |-> r.n - shift]
            ELSE r
        last == FoldLeft(Step, [x |-> x, n |-> width], shifts)
    IN  IF last.x \div 2 # 0 THEN last.n - 2 ELSE last.n - last.x

\* One bit too few when the difference is a power of two.
RequiredBitsOfDiff(f) ==
    IF f.max = f.min THEN 0
    ELSE BYTES_TO_BITS(f.bytes)
            - LeadingZeros(f.max - f.min - 1, BYTES_TO_BITS(f.bytes))

RequiredBits(f) ==
    BYTES_TO_BITS(f.bytes) - LeadingZeros(f.max - f.min, BYTES_TO_BITS(f.bytes))

OutsideRange(f) == f.v < f.min \/ f.v > f.max

\* The low bits of the last byte of a source given as left aligned.
LeftOver(f) ==
    IF f.op = "left"
    THEN Encoded(f.rest, BYTES_TO_BITS(BITS_TO_BYTES(f.n)) - f.n)
    ELSE << >>

\* A left-aligned source whose last byte goes on after the bits to write.  The
\* program passes whole bytes only (geco-bit-stream.h 1491 and 1496); WriteBits
\* does not ask for it.
LeavesRest(f) == f.op = "left" /\ f.rest # 0

Pieces(f) ==
    CASE f.op = "bits"    -> << Encoded(f.v, f.n) >>
      [] f.op = "left"    -> << Encoded(f.v, f.n) >>
      [] f.op = "aligned" -> << Encoded(f.v, BYTES_TO_BITS(f.bytes)) >>
      [] f.op = "mini"    -> WriteMini(f.v, f.bytes, f.isUnsigned)
      [] f.op = "changed" -> IF f.v = f.last
                             THEN << <<0>> >>
                             ELSE << <<1>> >> \o WriteMini(f.v, f.bytes, TRUE)
      [] f.op = "ranged"  ->
            IF f.allowOutside /\ OutsideRange(f)
            THEN << <<1>> >> \o WriteMini(f.v, f.bytes, TRUE)
            ELSE (IF f.allowOutside THEN << <<0>> >> ELSE << >>)
                   \o << Encoded(f.v - f.min, RequiredBits(f)) >>

Written(f, garbage) ==
    FoldLeft(LAMBDA s, bits : WriteBits(s, bits, LeftOver(f), garbage),
             IF f.op = "aligned" THEN [Stream EXCEPT !.pos = Aligned(@)] ELSE Stream,
             Pieces(f))

-----------------------------------------------------------------------------
(* Reading: the value and the position after it.                            *)

\* ReadMini.
ReadMini(pos, bytes, isUnsigned) ==
    LET match == IF isUnsigned THEN 0 ELSE AllOnes
        m     == CHOOSE k \in 0..bytes - 1 :
                    /\ \A i \in 1..k : data[pos + i] = 1
                    /\ k < bytes - 1 => data[pos + k + 1] = 0
        rest  == BYTES_TO_BITS(bytes - m)
        high  == FoldLeft(LAMBDA sum, i : sum + match * 2 ^ BYTES_TO_BITS(i),
                          0, [i \in 1..m |-> bytes - i])
        after == pos + m + 1
    IN  IF m < bytes - 1
        THEN [v |-> high + Decoded(after, rest), pos |-> after + rest]
        ELSE IF data[after] = 1
             THEN [v   |-> high + (IF isUnsigned THEN 0 ELSE (Half - 1) * Half)
                             + Decoded(after, ByteBits \div 2),
                   pos |-> after + ByteBits \div 2]
             ELSE [v |-> high + Decoded(after, ByteBits), pos |-> after + ByteBits]

ReadBits(pos, n) == [v |-> Decoded(pos, n), pos |-> pos + n]

\* What the reader that matches the writer of f gets at position pos.
Read(f, pos) ==
    CASE f.op = "bits"    -> ReadBits(pos, f.n)
      [] f.op = "left"    -> ReadBits(pos, f.n)
      [] f.op = "aligned" -> ReadBits(Aligned(pos), BYTES_TO_BITS(f.bytes))
      [] f.op = "mini"    -> ReadMini(pos, f.bytes, f.isUnsigned)
      [] f.op = "changed" -> IF data[pos + 1] = 0
                             THEN [v |-> f.last, pos |-> pos + 1]
                             ELSE ReadMini(pos + 1, f.bytes, TRUE)
      [] f.op = "ranged"  ->
            IF f.allowOutside /\ data[pos + 1] = 1
            THEN ReadMini(pos + 1, f.bytes, TRUE)
            ELSE LET r == ReadBits(IF f.allowOutside THEN pos + 1 ELSE pos,
                                   RequiredBits(f))
                 IN  [r EXCEPT !.v = @ + f.min]

-----------------------------------------------------------------------------
(* Operations.                                                              *)

Init ==
    /\ data = [x \in 1..BYTES_TO_BITS(StackBytes) |-> 0]
    /\ allocated_bits_size_ = BYTES_TO_BITS(StackBytes)
    /\ writable_bit_pos_ = 0
    /\ readable_bit_pos_ = 0
    /\ fields = << >>
    /\ ends = << >>
    /\ nread = 0
    /\ writes = 0

WriteField(f) ==
    /\ writes < MaxWrites
    /\ writes' = writes + 1
    /\ \E garbage \in Bit :
        LET s == Written(f, garbage)
        IN  /\ data' = s.data
            /\ allocated_bits_size_' = s.alloc
            /\ writable_bit_pos_' = s.pos
            /\ fields' = Append(fields, f)
            /\ ends' = Append(ends, s.pos)
            /\ UNCHANGED <<readable_bit_pos_, nread>>

\* pad_zeros_up_to: zero bytes that the reader takes as aligned bytes.
PadZeros(bytes) ==
    LET numWrite == bytes - BITS_TO_BYTES(writable_bit_pos_)
    IN  /\ numWrite > 0
        /\ WriteField([op |-> "aligned", bytes |-> numWrite, v |-> 0])

\* What a reader gets after a source's rest was left in the stream is not followed.
Readable == nread < Len(fields) /\ \A i \in 1..nread : ~LeavesRest(fields[i])

ReadField ==
    /\ Readable
    /\ readable_bit_pos_' = Read(fields[nread + 1], readable_bit_pos_).pos
    /\ nread' = nread + 1
    /\ UNCHANGED <<data, allocated_bits_size_, writable_bit_pos_, fields, ends,
                   writes>>

\* reset: the memory keeps what it has.
Reset ==
    /\ writable_bit_pos_ > 0
    /\ writable_bit_pos_' = 0
    /\ readable_bit_pos_' = 0
    /\ fields' = << >>
    /\ ends' = << >>
    /\ nread' = 0
    /\ UNCHANGED <<data, allocated_bits_size_, writes>>

\* reset_readable_bit_pos: the fields are read once more.
ResetReadable ==
    /\ readable_bit_pos_ > 0
    /\ readable_bit_pos_' = 0
    /\ nread' = 0
    /\ UNCHANGED <<data, allocated_bits_size_, writable_bit_pos_, fields, ends,
                   writes>>

Next ==
    \/ \E f \in Fields : WriteField(f)
    \/ \E bytes \in PadSizes : PadZeros(bytes)
    \/ ReadField
    \/ Reset
    \/ ResetReadable

Spec == Init /\ [][Next]_vars

-----------------------------------------------------------------------------
(* Properties.                                                              *)

\* The positions are in order and inside the memory that the growth in
\* AppendBitsCouldRealloc asked for: no write passes the end of the buffer.
TypeOK ==
    /\ data \in [1..Len(data) -> Bit]
    /\ Len(data) % ByteBits = 0
    /\ allocated_bits_size_ \in 1..Len(data)
    /\ writable_bit_pos_ \in 0..Len(data)
    /\ readable_bit_pos_ \in 0..writable_bit_pos_
    /\ nread \in 0..Len(fields)
    /\ Len(ends) = Len(fields)

\* The buffer is fit for the next write, through growth into uncleared memory,
\* padding and reset: the bits after the writing position in its byte are 0, as
\* WriteBits extends that byte with |=, unless a left-aligned source left its own
\* low bits there.
BufferSound ==
    /\ TypeOK
    /\ \A x \in writable_bit_pos_ + 1..
                BYTES_TO_BITS(BITS_TO_BYTES(writable_bit_pos_)) :
          data[x] = 0 \/ \E i \in DOMAIN fields : LeavesRest(fields[i])

\* A value that WriteMini shortens to half of its lowest byte although the other
\* half is not the one that ReadMini will fill in: unsigned 0xF0 to 0xFF.
HalfLost(f) ==
    LET mini       == \/ f.op = "mini"
                      \/ f.op = "changed" /\ f.v # f.last
                      \/ f.op = "ranged" /\ f.allowOutside /\ OutsideRange(f)
        isUnsigned == f.op = "mini" => f.isUnsigned
        match      == IF isUnsigned THEN 0 ELSE AllOnes
        filled     == IF isUnsigned THEN 0 ELSE Half - 1
        half       == ByteOf(f.v, 0) \div Half
    IN  /\ mini
        /\ \A i \in 1..f.bytes - 1 : ByteOf(f.v, i) = match
        /\ half \in {0, Half - 1}
        /\ half # filled

\* Every field ends for the reader where its writing ended and is read back as it
\* was written (geco-bit-stream.h 828 and 1698: "lossless"), across byte
\* boundaries, growth of the buffer and reuse after reset.  Nothing is said of the
\* value of a field that loses half a byte between WriteMini and ReadMini
\* (geco-bit-stream.cpp 593 and 173), nor of what follows a left-aligned source
\* that left its low bits in the stream.
ReadsBack ==
    Readable =>
        LET f == fields[nread + 1]
            r == Read(f, readable_bit_pos_)
        IN  /\ r.pos = ends[nread + 1]
            /\ ~HalfLost(f) => r.v = f.v
=============================================================================
