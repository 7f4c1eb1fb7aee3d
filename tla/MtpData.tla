-------------------------------- MODULE MtpData --------------------------------
(***************************************************************************)
(* The datasets of MTP: how MtpDataPacket and MtpStringBuffer put values   *)
(* into a data container and take them out again, and the datasets the     *)
(* responder describes itself with, written as MtpServer and MtpProperty   *)
(* write them and read as the readers beside them (MtpDeviceInfo::read,    *)
(* MtpStorageInfo::read, MtpObjectInfo::read, MtpProperty::read) do.       *)
(*                                                                         *)
(* A payload is a sequence of fields <<w, v>>: a little-endian number v of *)
(* w bytes.  A dataset is a sequence of items <<t, v>>: a value of type t. *)
(* A number of eight or sixteen bytes is as many fields of four.  A signed *)
(* number is the same bytes as the unsigned one of its width.              *)
(*                                                                         *)
(* A text is the bytes of a C string: <<c, k>> is byte k of the UTF-8 of   *)
(* character c.  A date, and each constant text, is one character.         *)
(***************************************************************************)
EXTENDS Integers, SequencesExt

CONSTANTS Long,  \* stands for 2^32
          Byte   \* stands for 256: with it the longest text shrinks to Byte - 1 characters

ASSUME WidthsAssumption == Long \in Nat /\ Long > 65536 /\ Byte \in Nat /\ Byte > 2

UINT8   == 2
UINT16  == 4
UINT32  == 6
UINT64  == 8
UINT128 == 10
AUINT16 == 16388
AUINT32 == 16390
STR     == 65535

-----------------------------------------------------------------------------
(* Numbers and arrays.                                                     *)

Modulus(w) == CASE w = 1 -> Byte [] w = 2 -> 65536 [] w = 4 -> Long

\* Mutant: a number too large for its field is put as it is.
FieldWhole(w, v) == <<w, v>>

Field(w, v) == <<w, v % Modulus(w)>>

\* The fields a number of a type consists of, by width, low end first.
Parts ==
  [t \in {UINT8, UINT16, UINT32, UINT64, UINT128} |->
     CASE t = UINT8 -> <<1>> [] t = UINT16 -> <<2>> [] t = UINT32 -> <<4>>
       [] t = UINT64 -> <<4, 4>> [] t = UINT128 -> <<4, 4, 4, 4>>]

Element == [t \in {AUINT16, AUINT32} |-> IF t = AUINT16 THEN UINT16 ELSE UINT32]

\* putUInt8 to putUInt128; no number here needs more than two fields of four bytes.
PutNumber(t, v) ==
  [i \in DOMAIN Parts[t] |-> Field(Parts[t][i], CASE i = 1 -> v [] i = 2 -> v \div Long [] OTHER -> 0)]

PutArray(t, values) ==
  PutNumber(UINT32, Len(values))
  \o [i \in DOMAIN values |-> Field(Parts[Element[t]][1], values[i])]

-----------------------------------------------------------------------------
(* Texts.                                                                  *)

NUL     == <<0, 1>>
Garbage == -1

Utf8Len(c) == IF c < 128 THEN 1 ELSE IF c < 2048 THEN 2 ELSE IF c < 65536 THEN 3 ELSE 4
Char(c)    == [k \in 1..Utf8Len(c) |-> <<c, k>>]
Text(cs)   == FlattenSeq([i \in DOMAIN cs |-> Char(cs[i])])

\* MtpStringBuffer::set(const char *): room for Byte - 1 characters of three bytes; what counts
\* as a character, in the whole of the source, is a leading byte, and every byte of four.
BufferOf(text) ==
  [bytes |-> IF Len(text) < 3 * Byte - 2 THEN text ELSE SubSeq(text, 1, 3 * (Byte - 1)),
   count |-> Cardinality({i \in DOMAIN text : text[i][2] = 1 \/ Utf8Len(text[i][1]) = 4})]

\* Mutant: the count of the terminated text is not raised by one.
PutTextUnterminated(text) ==
  LET b == BufferOf(text)
  IN  <<Field(1, b.count)>> \o [i \in 1..b.count |-> Field(2, b.bytes[i][1])]

\* The byte a pointer behind the text meets: its end, then whatever the memory holds.
ByteAt(bytes, p) ==
  IF p <= Len(bytes) THEN bytes[p] ELSE IF p = Len(bytes) + 1 THEN NUL ELSE <<Garbage, 0>>

\* The leading byte says how many are taken for one unit; what is no lead of one or two takes three.
Taken(b) == IF b[2] = 1 /\ b[1] < 128 THEN 1 ELSE IF b[2] = 1 /\ b[1] < 2048 THEN 2 ELSE 3

UnitAt(bytes, p) ==
  LET c == ByteAt(bytes, p)[1] IN
  IF c < 65536 /\ \A k \in 1..Taken(ByteAt(bytes, p)) : ByteAt(bytes, p + k - 1) = <<c, k>>
  THEN c ELSE Garbage

\* MtpStringBuffer::writeToPacket: where the pointer is for each unit, and what is put there.
PutText(text) ==
  LET b == BufferOf(text)
      at[i \in 1..b.count] == IF i = 1 THEN 1 ELSE at[i - 1] + Taken(ByteAt(b.bytes, at[i - 1]))
  IN  IF b.count = 0 THEN <<Field(1, 0)>>
      ELSE <<Field(1, b.count + 1)>> \o [i \in 1..b.count |-> Field(2, UnitAt(b.bytes, at[i]))]
           \o <<Field(2, 0)>>

-----------------------------------------------------------------------------
(* Datasets.                                                               *)

Put(t, v) ==
  CASE t = STR -> PutText(v) [] t \in DOMAIN Element -> PutArray(t, v) [] OTHER -> PutNumber(t, v)

Write(items) == FlattenSeq([i \in DOMAIN items |-> Put(items[i][1], items[i][2])])

\* Reading: in is what is left of the payload; a field of another width, or none, spoils the rest.
Reader(payload) == [in |-> payload, out |-> <<>>, ok |-> TRUE]

\* The reader r, if it had read out.
Having(r, out) == [in |-> r.in, out |-> out, ok |-> r.ok]

\* The fields of widths ws, as one value.
GetFields(r, ws) ==
  LET n == Len(ws) IN
  IF r.ok /\ n <= Len(r.in) /\ \A i \in 1..n : r.in[i][1] = ws[i]
  THEN [in |-> SubSeq(r.in, n + 1, Len(r.in)), out |-> Append(r.out, [i \in 1..n |-> r.in[i][2]]),
        ok |-> TRUE]
  ELSE [in |-> r.in, out |-> Append(r.out, [i \in 1..n |-> Garbage]), ok |-> FALSE]

NumberOf(vs) == IF Len(vs) = 1 THEN vs[1] ELSE vs[1] + Long * vs[2]
AsNumber(r) == Having(r, Append(Front(r.out), NumberOf(Last(r.out))))

GetNumber(r, t) == AsNumber(GetFields(r, Parts[t]))

\* The count in a field of width w, then as many numbers.
GetCounted(r, w, each) ==
  LET counted == GetFields(r, <<w>>)
      count == IF counted.ok THEN Last(counted.out)[1] ELSE 0
  IN  GetFields(Having(counted, r.out), [i \in 1..count |-> each])

\* MtpStringBuffer::readFromPacket, and the C string that its buffer is then used as: each unit
\* becomes bytes by itself, half of a surrogate pair too.
CString(units) ==
  LET end == CHOOSE n \in 0..Len(units) :
               (\A i \in 1..n : units[i] # 0) /\ (n = Len(units) \/ units[n + 1] = 0)
  IN  Text(SubSeq(units, 1, end))
AsText(r) == Having(r, Append(Front(r.out), CString(Last(r.out))))

Get(r, t) ==
  CASE t = STR -> AsText(GetCounted(r, 1, 2))
    [] t \in DOMAIN Element -> GetCounted(r, 4, Parts[Element[t]][1])
    [] OTHER -> GetNumber(r, t)

\* The values of the types of a layout, in order.
Read(layout, payload) ==
  LET r[i \in 0..Len(layout)] == IF i = 0 THEN Reader(payload) ELSE Get(r[i - 1], layout[i])
  IN  r[Len(layout)]

-----------------------------------------------------------------------------
(* MtpProperty, without forms and arrays, which nothing here has.          *)

IsDeviceProperty(code) == code \div 4096 = 5 \/ code \div 2048 = 26

DefaultValue(t) == IF t = STR THEN <<>> ELSE 0

PropertyItems(code, t, writeable) ==
  <<<<UINT16, code>>, <<UINT16, t>>, <<UINT8, IF writeable THEN 1 ELSE 0>>, <<t, DefaultValue(t)>>>>
  \o (IF IsDeviceProperty(code) THEN <<<<t, DefaultValue(t)>>>> ELSE <<>>)
  \o <<<<UINT32, 0>>>>
  \o (IF IsDeviceProperty(code) THEN <<>> ELSE <<<<UINT8, 0>>>>)

ReadProperty(payload) ==
  LET code == Read(<<UINT16, UINT16>>, payload).out
      values == IF IsDeviceProperty(code[1]) THEN <<code[2], code[2]>> ELSE <<code[2], UINT32>>
  IN  Read(<<UINT16, UINT16, UINT8>> \o values \o <<UINT8>>, payload)

-----------------------------------------------------------------------------
(* The datasets of the device, of a storage and of an object.              *)

\* What each item of a dataset is, as its reader takes it.
DeviceLayout ==
  <<UINT16, UINT32, UINT16, STR, UINT16, AUINT16, AUINT16, AUINT16, AUINT16, AUINT16,
    STR, STR, STR, STR>>
StorageLayout == <<UINT16, UINT16, UINT16, UINT64, UINT64, UINT32, STR, STR>>
ObjectLayout ==
  <<UINT32, UINT16, UINT16, UINT32, UINT16, UINT32, UINT32, UINT32, UINT32, UINT32, UINT32, UINT32,
    UINT16, UINT32, UINT32, STR, STR, STR, STR>>

\* formatDateTime and parseDateTime; an empty text is no date.
Date(time) == Char(48 + time)
TimeOf(text, otherwise) == IF text = <<>> THEN otherwise ELSE Head(text)[1] - 48

=============================================================================
