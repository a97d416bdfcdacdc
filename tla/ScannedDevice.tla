---------------------------- MODULE ScannedDevice ----------------------------
(***************************************************************************)
(* How a discovery result becomes a ScannedDevice: the loop over the       *)
(* result's properties in the DISC_RES arm of bt_app_gap_cb, add_property, *)
(* parse_eir, and what Display logs of the class of device.                *)
(*                                                                         *)
(* One action is one property, or one round of parse_eir's loop, which     *)
(* reads one record of the extended inquiry response (EIR): a byte with    *)
(* the length of the rest, a byte with its type, and the data.  Indices    *)
(* count from 0 as in the code.  An index out of bounds is a panic.        *)
(*                                                                         *)
(* An Option is a sequence of at most one value.                           *)
(***************************************************************************)
EXTENDS Integers, Sequences, FiniteSets

CONSTANTS Reports,    \* the results reported: sequences of properties
          Utf8        \* the bytes that String::from_utf8 takes

Byte == 0..255

\* What the stack reports of a device, in any order.
Properties == [type : {"bdname", "eir"}, data : Seq(Byte)]
                 \cup [type : {"cod"}, value : Nat]
                 \cup [type : {"rssi"}, value : -128..127]

ASSUME ReportsAssumption == Reports \subseteq Seq(Properties)

VARIABLES report,          \* the properties of the result
          i,               \* how many of them were added
          scanned_device,  \* what is known of the device
          index,           \* where parse_eir is
          shown,           \* what Display shows of the class
          pc               \* where the callback, and then the search, is

vars == <<report, i, scanned_device, index, shown, pc>>

None == <<>>
Some(x) == <<x>>

\* "adding": the loop over the properties.  "parsing": in parse_eir.
\* "reported": broadcast to the search.  "logged": shown by it.  "panic":
\* parse_eir indexed out of bounds.  "unprintable": Display panicked.
States == {"adding", "parsing", "reported", "logged", "panic", "unprintable"}
-----------------------------------------------------------------------------
(* ClassOfDevice.                                                          *)

Bit(value, b) == (value \div 2 ^ b) % 2

\* (value & 0xf6) as u8 >> 2: bits 7 to 4 and bit 2 pass the mask.
MinorDeviceClass(value) == 4 * ((value % 256) \div 16) + ((value \div 4) % 2)

MajorDeviceClass(value) == ((value \div 256) % 256) % 32

\* The values that stand for a MajorClass.
MajorClasses == 0..9 \cup {31}

ServiceClasses(value) == ((value \div 8192) % 65536) % 2048

\* The majors whose minor class is written.
WithMinor == {2, 4}

\* The bits that service_classes_to_string has a name for.
BITS == {0} \cup 3..10

\* What the log shows of a class that has a MajorClass.
Display(value) ==
    LET major == MajorDeviceClass(value) IN
    [major |-> major,
     minor |-> IF major \in WithMinor THEN Some(MinorDeviceClass(value)) ELSE None,
     services |-> {b \in BITS : Bit(ServiceClasses(value), b) = 1}]
-----------------------------------------------------------------------------
(* Conversions.                                                            *)

\* format!("{byte:02x}"): two hexadecimal digits, as their characters.
HexDigit(n) == IF n < 10 THEN 48 + n ELSE 87 + n
Hex(bytes) == [k \in 1..(2 * Len(bytes)) |->
                 HexDigit(IF k % 2 = 1 THEN bytes[(k + 1) \div 2] \div 16
                                       ELSE bytes[k \div 2] % 16)]

\* The unsigned integer in the `width` bytes from position p, low byte first.
LittleEndian(bytes, p, width) ==
    bytes[p + 1] + 256 * bytes[p + 2]
       + IF width = 2 THEN 0 ELSE 65536 * bytes[p + 3] + 16777216 * bytes[p + 4]

\* As many of them as begin in the n bytes from position p.
Uuids(bytes, p, n, width) ==
    [k \in 1..((n + width - 1) \div width) |->
        LittleEndian(bytes, p + (k - 1) * width, width)]
-----------------------------------------------------------------------------
Init == /\ report \in Reports
        /\ i = 0
        /\ scanned_device = [name |-> None, class |-> None, rssi |-> None,
                             uuids16 |-> None, uuids32 |-> None]
        /\ index = 0
        /\ shown = None
        /\ pc = "adding"

\* DeviceProperty::from and add_property, for all but an EIR.
AddProperty ==
    /\ pc = "adding"
    /\ i < Len(report)
    /\ LET property == report[i + 1] IN
       /\ property.type # "eir"
       /\ scanned_device' =
             CASE property.type = "bdname" ->
                    [scanned_device EXCEPT !.name = Some(Hex(property.data))]
               [] property.type = "cod" ->
                    [scanned_device EXCEPT !.class = Some(property.value)]
               [] property.type = "rssi" ->
                    [scanned_device EXCEPT !.rssi = Some(property.value)]
    /\ i' = i + 1
    /\ UNCHANGED <<report, index, shown, pc>>

\* add_property calls parse_eir.
BeginEir == /\ pc = "adding"
            /\ i < Len(report)
            /\ report[i + 1].type = "eir"
            /\ index' = 0
            /\ pc' = "parsing"
            /\ UNCHANGED <<report, i, scanned_device, shown>>
-----------------------------------------------------------------------------
(* parse_eir.                                                              *)

eir == report[i + 1].data
len == eir[index + 1]
record_start == index + 1
typ == eir[record_start + 1]

\* The position behind a list of UUIDs, whose last one may end beyond the
\* record; and a mutant, the loop with <= for <.
AfterUuidsInclusive(width) ==
    record_start + 1 + ((len - 1) \div width + 1) * width
AfterUuids(width) ==
    record_start + 1 + ((len - 1 + width - 1) \div width) * width

\* The position behind any other record, and a mutant that forgets its type.
AfterData == record_start + len - 1
AfterRecord == record_start + len

AtRecord == pc = "parsing" /\ index < Len(eir) /\ len # 0

\* The data are used up, or a length of 0 says that the rest is padding.
EndEir == /\ pc = "parsing"
          /\ ~AtRecord
          /\ pc' = "adding"
          /\ i' = i + 1
          /\ UNCHANGED <<report, scanned_device, index, shown>>

\* There is no byte for the type.
NoType == /\ AtRecord
          /\ record_start >= Len(eir)
          /\ pc' = "panic"
          /\ UNCHANGED <<report, i, scanned_device, index, shown>>

AtType(t) == AtRecord /\ record_start < Len(eir) /\ typ = t

\* Complete16bitServiceClassUUIDs, read UUID by UUID while the index is in
\* the record; one that begins in the record may end beyond it.
Uuids16 ==
    /\ AtType(3)
    /\ IF AfterUuids(2) <= Len(eir)
       THEN /\ scanned_device' = [scanned_device EXCEPT
                  !.uuids16 = Some(Uuids(eir, record_start + 1, len - 1, 2))]
            /\ index' = AfterUuids(2)
            /\ UNCHANGED pc
       ELSE pc' = "panic" /\ UNCHANGED <<scanned_device, index>>
    /\ UNCHANGED <<report, i, shown>>

\* Complete32bitServiceClassUUIDs, likewise.
Uuids32 ==
    /\ AtType(5)
    /\ IF AfterUuids(4) <= Len(eir)
       THEN /\ scanned_device' = [scanned_device EXCEPT
                  !.uuids32 = Some(Uuids(eir, record_start + 1, len - 1, 4))]
            /\ index' = AfterUuids(4)
            /\ UNCHANGED pc
       ELSE pc' = "panic" /\ UNCHANGED <<scanned_device, index>>
    /\ UNCHANGED <<report, i, shown>>

\* CompleteLocalName: a name that is not UTF-8 is logged and ignored.
CompleteLocalName ==
    /\ AtType(9)
    /\ IF AfterRecord <= Len(eir)
       THEN /\ LET s == SubSeq(eir, record_start + 2, AfterRecord) IN
               scanned_device' = IF s \in Utf8
                                 THEN [scanned_device EXCEPT !.name = Some(s)]
                                 ELSE scanned_device
            /\ index' = AfterRecord
            /\ UNCHANGED pc
       ELSE pc' = "panic" /\ UNCHANGED <<scanned_device, index>>
    /\ UNCHANGED <<report, i, shown>>

\* Any other type, known or not, is passed over unread.
OtherRecord == /\ AtRecord
               /\ record_start < Len(eir)
               /\ typ \notin {3, 5, 9}
               /\ index' = AfterRecord
               /\ UNCHANGED <<report, i, scanned_device, shown, pc>>
-----------------------------------------------------------------------------
\* All properties were added: the device is broadcast.
Report == /\ pc = "adding"
          /\ i = Len(report)
          /\ pc' = "reported"
          /\ UNCHANGED <<report, i, scanned_device, index, shown>>

\* The search logs the device, its class with it; the unwrap of a major
\* class that stands for nothing panics.
Log == /\ pc = "reported"
       /\ IF scanned_device.class = None
          THEN pc' = "logged" /\ UNCHANGED shown
          ELSE LET value == scanned_device.class[1] IN
               IF MajorDeviceClass(value) \in MajorClasses
               THEN pc' = "logged" /\ shown' = Some(Display(value))
               ELSE pc' = "unprintable" /\ UNCHANGED shown
       /\ UNCHANGED <<report, i, scanned_device, index>>

Next == \/ AddProperty
        \/ BeginEir
        \/ EndEir
        \/ NoType
        \/ Uuids16
        \/ Uuids32
        \/ CompleteLocalName
        \/ OtherRecord
        \/ Report
        \/ Log

Spec == Init /\ [][Next]_vars

-----------------------------------------------------------------------------
Fields == {"name", "class", "rssi", "uuids16", "uuids32"}

DeviceOK == /\ DOMAIN scanned_device = Fields
            /\ \A f \in Fields : Len(scanned_device[f]) \in {0, 1}
            /\ scanned_device.class = None \/ scanned_device.class[1] \in Nat

PositionOK ==
    /\ report \in Seq(Properties)
    /\ i \in 0..Len(report)
    /\ index \in Nat
    /\ pc \in States
    /\ pc \in {"parsing", "panic"} => i < Len(report) /\ report[i + 1].type = "eir"

\* Everything keeps its type: a device of five Options, a place in the result.
TypeOK == DeviceOK /\ PositionOK

\* The data are used up at p, or padding begins there.
Ends(data, p) == p = Len(data) \/ data[p + 1] = 0

\* The type of the record that begins at p, and the position behind it.
TypeAt(data, p) == data[p + 2]
Behind(data, p) == p + 1 + data[p + 1]

\* The record that begins at p lies within the data, and a list of UUIDs
\* fills it.
Fits(data, p) ==
    /\ Behind(data, p) <= Len(data)
    /\ TypeAt(data, p) = 3 => (data[p + 1] - 1) % 2 = 0
    /\ TypeAt(data, p) = 5 => (data[p + 1] - 1) % 4 = 0

\* S cuts the data into records by their lengths: from each position a record
\* leads to the next, with none in between, until the data end, padding
\* begins or a record reaches beyond them.
Cut(data, S) ==
    /\ 0 \in S
    /\ \A p \in S :
          IF ~Ends(data, p) /\ Behind(data, p) <= Len(data)
          THEN /\ Behind(data, p) \in S
               /\ \A q \in S : q <= p \/ q >= Behind(data, p)
          ELSE \A q \in S : q <= p

\* The records of a cut that do not fit: one that reaches beyond the data, and
\* a list whose last UUID is not whole.
Misfits(data, S) == {p \in S : ~Ends(data, p) /\ ~Fits(data, p)}

Chain(data, S) == Cut(data, S) /\ Misfits(data, S) = {}

WellFormed(data) == \E S \in SUBSET (0..Len(data)) : Chain(data, S)

\* Whatever the data, parse_eir is at the beginning of a record as long as it
\* has come past none that does not fit.  Past one it may be anywhere, for a
\* list is read to the end of its last UUID, which may be in the next record.
AtBoundary ==
    pc = "parsing" =>
        \A S \in SUBSET (0..Len(eir)) :
            Cut(eir, S) => index \in S \/ \E q \in Misfits(eir, S) : q < index

\* Whatever the data, the indexing of parse_eir panics only at or behind a record
\* that does not fit, and so for no EIR that is made of records.
PanicsOnlyOnMisfit ==
    pc = "panic" =>
        \A S \in SUBSET (0..Len(eir)) :
            Cut(eir, S) => \E q \in Misfits(eir, S) : q <= index

-----------------------------------------------------------------------------
(* What a result announces, and the device that announcement describes.    *)

\* The positions of a well-formed EIR, and those where a record begins.
Positions(data) == CHOOSE S \in SUBSET (0..Len(data)) : Chain(data, S)
Records(data) == {p \in Positions(data) : ~Ends(data, p)}

Ofs(r, t) == {k \in 1..Len(r) : r[k].type = t}

\* An announcement of the result r is the number of a property, and the
\* position of a record in it or 0: the records of type t in the EIRs, and the
\* properties of type t.
RecordsOf(r, t) ==
    UNION {{k} \X {p \in Records(r[k].data) : TypeAt(r[k].data, p) = t} : k \in Ofs(r, "eir")}
PropertiesOf(r, t) == Ofs(r, t) \X {0}

\* Those in the first n properties, and before position p of the next.
Past(A, n, p) == {a \in A : a[1] <= n \/ (a[1] = n + 1 /\ a[2] < p)}

Before(a, b) == a[1] < b[1] \/ (a[1] = b[1] /\ a[2] <= b[2])
LastOf(A) == CHOOSE a \in A : \A b \in A : Before(b, a)

\* The data of the record announced at a.
Content(r, a) == LET data == r[a[1]].data IN
                 SubSeq(data, a[2] + 3, Behind(data, a[2]))

\* list holds the bytes of content, `width` to a UUID and low byte first.
IsListOf(list, content, width) ==
    /\ Len(list) * width = Len(content)
    /\ \A k \in 1..Len(content) :
          (list[(k + width - 1) \div width] \div 256 ^ ((k - 1) % width)) % 256 = content[k]

\* name writes the bytes as hexadecimal digits.
HexValue(c) == IF c < 58 THEN c - 48 ELSE c - 87
IsHexOf(name, bytes) ==
    /\ Len(name) = 2 * Len(bytes)
    /\ \A k \in 1..Len(bytes) : 16 * HexValue(name[2 * k - 1]) + HexValue(name[2 * k]) = bytes[k]

\* A field is None when there are no announcements A of it, and otherwise says
\* what the last of them does.
ListAsAnnounced(r, field, A, width) ==
    IF A = {} THEN field = None
    ELSE field # None /\ IsListOf(field[1], Content(r, LastOf(A)), width)

ValueAsAnnounced(r, field, A) ==
    field = IF A = {} THEN None ELSE Some(r[LastOf(A)[1]].value)

NameAsAnnounced(r, field, A) ==
    IF A = {} THEN field = None
    ELSE LET a == LastOf(A) IN
         IF r[a[1]].type = "eir" THEN field = Some(Content(r, a))
         ELSE field # None /\ IsHexOf(field[1], r[a[1]].data)

\* The names that can be read.
NamesOf(r) == {a \in RecordsOf(r, 9) : Content(r, a) \in Utf8} \cup PropertiesOf(r, "bdname")

\* The device is the one that the first n properties of r, and what is before
\* position p of the next, announce: a later property or record of the same
\* kind replaces an earlier one, a name in the EIR the name property too, and
\* nothing is taken from where no record begins.
Describes(device, r, n, p) ==
    /\ ListAsAnnounced(r, device.uuids16, Past(RecordsOf(r, 3), n, p), 2)
    /\ ListAsAnnounced(r, device.uuids32, Past(RecordsOf(r, 5), n, p), 4)
    /\ NameAsAnnounced(r, device.name, Past(NamesOf(r), n, p))
    /\ ValueAsAnnounced(r, device.class, Past(PropertiesOf(r, "cod"), n, p))
    /\ ValueAsAnnounced(r, device.rssi, Past(PropertiesOf(r, "rssi"), n, p))

\* The minor class that is shown is that of bits 2 to 7, as the assigned numbers
\* have it, but without bit 3, which the mask takes away.
MinorLacksBit3 ==
    shown # None /\ shown[1].minor # None =>
        LET value == scanned_device.class[1] IN
        shown[1].minor[1] + 2 * Bit(value, 3) = (value \div 4) % 64

\* The major class is shown by bits 8 to 12, the services by the named ones of
\* 13 to 23.
ShownAsAnnounced ==
    shown # None =>
        LET value == scanned_device.class[1] IN
        /\ shown[1].major = Bit(value, 8) + 2 * Bit(value, 9) + 4 * Bit(value, 10)
                              + 8 * Bit(value, 11) + 16 * Bit(value, 12)
        /\ \A b \in 0..10 :
              b \in shown[1].services <=> Bit(value, b + 13) = 1 /\ b \in BITS

AllWellFormed(r) == \A k \in Ofs(r, "eir") : WellFormed(r[k].data)

\* The device that is broadcast and logged is the one that the whole result
\* announces, as long as every EIR is made of records, and what is shown of
\* its class are the bits of it, but for bit 3.
AsAnnounced ==
    pc \in {"reported", "logged"} /\ AllWellFormed(report) =>
        /\ Describes(scanned_device, report, Len(report), 0)
        /\ ShownAsAnnounced
        /\ MinorLacksBit3

\* The strengthening that makes these inductive.

\* At any time the device is the one announced so far.
AsRead ==
    AllWellFormed(report) =>
        Describes(scanned_device, report, i, IF pc \in {"parsing", "panic"} THEN index ELSE 0)

\* The result is reported when all of it was read, and shown thereafter.
ReportedAtEnd == /\ pc \in {"reported", "logged", "unprintable"} => i = Len(report)
                 /\ pc \in {"adding", "parsing", "panic", "reported"} => shown = None

\* These hold together in every state and after every step.
IInv == /\ TypeOK
        /\ AtBoundary
        /\ PanicsOnlyOnMisfit
        /\ AsRead
        /\ ShownAsAnnounced
        /\ MinorLacksBit3
        /\ ReportedAtEnd
=============================================================================
