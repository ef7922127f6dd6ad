------------------------------ MODULE AISCodec ------------------------------
(***************************************************************************)
(* The binary encoding of AIS batches (simulator/proto/ais.go).  A byte is *)
(* a digit to the base ByteBase, a number its little-endian digits; the    *)
(* bits of a float are a number like any other.  The widths of the fields  *)
(* are constants, 4 or 8 in the code.                                      *)
(***************************************************************************)
EXTENDS Integers, SequencesExt

CONSTANTS ByteBase,      \* 256
          IntWidth,      \* 4: batch_seq, record_count
          FloatWidth,    \* 4: speed and course
          DoubleWidth    \* 8: lat, lon, timestamp

ASSUME CodecAssumption == /\ ByteBase \in Nat \ {0, 1}
                          /\ IntWidth \in Nat \ {0}
                          /\ FloatWidth \in Nat \ {0}
                          /\ DoubleWidth \in Nat \ {0}

Byte == 0 .. ByteBase - 1

AISRecord == [VesselID : Seq(Byte), MMSI : Seq(Byte), Lat : Nat, Lon : Nat,
              SOGKnots : Nat, COGDegrees : Nat, TSUnixMs : Nat,
              IsScriptedViolator : BOOLEAN]

AISBatch == [Records : Seq(AISRecord), BatchSeq : Nat]

(* A number shifted right by no byte, by one, up to width bytes.           *)
Shifted(n, width) ==
    LET rest[k \in 0..width] == IF k = 0 THEN n ELSE rest[k - 1] \div ByteBase
    IN rest

(* Faults: the high digits stay in the low byte; the digits are read from  *)
(* the high end.                                                           *)
LittleEndianUncut(n, width) == [k \in 1..width |-> Shifted(n, width)[k - 1]]
NumberBigEndian(digits) ==
    LET value[k \in 0..Len(digits)] ==
          IF k = 0 THEN 0 ELSE value[k - 1] * ByteBase + digits[k]
    IN value[Len(digits)]

(* PutUint32 and PutUint64, and back, from the last byte to the first.     *)
LittleEndian(n, width) == [k \in 1..width |-> Shifted(n, width)[k - 1] % ByteBase]
Number(digits) ==
    LET value[k \in 0..Len(digits)] ==
          IF k = 0 THEN 0 ELSE value[k - 1] * ByteBase + digits[Len(digits) - k + 1]
    IN value[Len(digits)]

(* A number that is not cut by its field.                                  *)
Fits(n, width) == Shifted(n, width)[width] = 0

(* The length of a string is one byte, whatever its value.                 *)
MarshalString(s) == << Len(s) % ByteBase >> \o s

MarshalRecord(r) ==
    MarshalString(r.VesselID) \o MarshalString(r.MMSI)
    \o LittleEndian(r.Lat, DoubleWidth) \o LittleEndian(r.Lon, DoubleWidth)
    \o LittleEndian(r.SOGKnots, FloatWidth) \o LittleEndian(r.COGDegrees, FloatWidth)
    \o LittleEndian(r.TSUnixMs, DoubleWidth)
    \o << IF r.IsScriptedViolator THEN 1 ELSE 0 >>

(* A record whose fields hold their values, and what one takes at most.    *)
RecordFits(r) ==
    /\ Len(r.VesselID) < ByteBase /\ Len(r.MMSI) < ByteBase
    /\ Fits(r.Lat, DoubleWidth) /\ Fits(r.Lon, DoubleWidth) /\ Fits(r.TSUnixMs, DoubleWidth)
    /\ Fits(r.SOGKnots, FloatWidth) /\ Fits(r.COGDegrees, FloatWidth)

RecordLimit == 2 * ByteBase + 3 * DoubleWidth + 2 * FloatWidth + 1

MarshalBinary(b) ==
    LittleEndian(b.BatchSeq, IntWidth) \o LittleEndian(Len(b.Records), IntWidth)
    \o FlattenSeq([i \in DOMAIN b.Records |-> MarshalRecord(b.Records[i])])

(* The width bytes of data after the first offset ones.                    *)
Bytes(data, offset, width) == SubSeq(data, offset + 1, offset + width)
NumberAt(data, offset, width) == Number(Bytes(data, offset, width))

(* The record that starts at offset, with the offset of the next one; the  *)
(* empty set if data is too short.  Offsets only grow, so the last of the  *)
(* checks on the fixed fields covers those before it.                      *)
UnmarshalRecord(data, offset) ==
    LET idLen == data[offset + 1]
        mmsiAt == offset + 1 + idLen
        mmsiLen == data[mmsiAt + 1]
        latAt == mmsiAt + 1 + mmsiLen
        lonAt == latAt + DoubleWidth
        sogAt == lonAt + DoubleWidth
        cogAt == sogAt + FloatWidth
        tsAt == cogAt + FloatWidth
        violatorAt == tsAt + DoubleWidth IN
    IF offset >= Len(data) \/ mmsiAt >= Len(data) \/ violatorAt >= Len(data) THEN {}
    ELSE {[next |-> violatorAt + 1,
           record |-> [VesselID |-> Bytes(data, offset + 1, idLen),
                       MMSI |-> Bytes(data, mmsiAt + 1, mmsiLen),
                       Lat |-> NumberAt(data, latAt, DoubleWidth),
                       Lon |-> NumberAt(data, lonAt, DoubleWidth),
                       SOGKnots |-> NumberAt(data, sogAt, FloatWidth),
                       COGDegrees |-> NumberAt(data, cogAt, FloatWidth),
                       TSUnixMs |-> NumberAt(data, tsAt, DoubleWidth),
                       IsScriptedViolator |-> data[violatorAt + 1] = 1]]}

(* The loop over the records, which any missing byte ends with an error.   *)
(* The slice for count records is made before the first is read (ais.go    *)
(* 127); the memory that takes is left out.                                *)
UnmarshalRecords(data, count) ==
    LET read[i \in 0..count] ==
          IF i = 0 THEN {[offset |-> 2 * IntWidth, records |-> << >>]}
          ELSE UNION { {[offset |-> u.next, records |-> Append(done.records, u.record)] :
                          u \in UnmarshalRecord(data, done.offset)} : done \in read[i - 1] }
    IN {done.records : done \in read[count]}

(* The batch in data, or the empty set for ErrTooShort.  Bytes after the   *)
(* last record are ignored.                                                *)
UnmarshalBinary(data) ==
    IF Len(data) < 2 * IntWidth THEN {}
    ELSE {[BatchSeq |-> NumberAt(data, 0, IntWidth), Records |-> records] :
            records \in UnmarshalRecords(data, NumberAt(data, IntWidth, IntWidth))}
=============================================================================
