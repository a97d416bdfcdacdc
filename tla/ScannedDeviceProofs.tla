-------------------------- MODULE ScannedDeviceProofs --------------------------
(***************************************************************************)
(* For every result and whatever is taken for UTF-8: parse_eir keeps to    *)
(* the beginnings of records, and does not panic, until it comes to one    *)
(* that does not fit; and when all fit the device is the one that the      *)
(* properties and the records read so far announce, so that the one        *)
(* reported is the one the whole result announces.  The invariant follows  *)
(* every cut of the data at once: a step of parse_eir at a record that     *)
(* fits is the step that each cut takes, and each announcement is passed   *)
(* exactly once.                                                           *)
(***************************************************************************)
EXTENDS ScannedDeviceLemmas, TLAPS

\* What the invariant says of parse_eir alone.
Parses == /\ TypeOK
          /\ AtBoundary
          /\ PanicsOnlyOnMisfit

\* While parse_eir runs, eir is a sequence of bytes.
LEMMA EirBytes ==
    ASSUME TypeOK, pc \in {"parsing", "panic"} PROVE eir \in Seq(Byte)
<1>1. report[i + 1] \in Properties /\ report[i + 1].type = "eir"
    BY DEF TypeOK, PositionOK
<1> QED
    BY <1>1 DEF Properties, eir

\* What there is to say of the record that is read.
LEMMA RecordBytes ==
    ASSUME TypeOK, AtRecord
    PROVE  /\ eir \in Seq(Byte)
           /\ index \in 0..(Len(eir) - 1)
           /\ len \in 1..255
           /\ record_start = index + 1
<1>1. eir \in Seq(Byte)
    BY EirBytes DEF AtRecord
<1>2. index \in 0..(Len(eir) - 1)
    BY <1>1 DEF AtRecord, TypeOK, PositionOK
<1>3. eir[index + 1] \in Byte
    BY <1>1, <1>2
<1> QED
    BY <1>1, <1>2, <1>3 DEF AtRecord, len, Byte, record_start

\* A record is neither the end nor padding.
LEMMA RecordNotEnd ==
    ASSUME TypeOK, AtRecord PROVE ~Ends(eir, index)
<1>1. eir[index + 1] # 0
    BY DEF AtRecord, len
<1>2. index # Len(eir)
    BY RecordBytes
<1> QED
    BY <1>1, <1>2 DEF Ends

\* Reading the UUIDs of a record goes to the end of the last one.
LEMMA WholeUuids ==
    ASSUME NEW n \in Nat
    PROVE  /\ n % 2 = 0 => ((n + 2 - 1) \div 2) * 2 = n
           /\ n % 4 = 0 => ((n + 4 - 1) \div 4) * 4 = n
OBVIOUS

-----------------------------------------------------------------------------
\* A record that fits ends within the data, so do its lists, and a cut that
\* holds its beginning holds that of the next.
LEMMA FittingRecord ==
    ASSUME TypeOK, AtRecord, Fits(eir, index)
    PROVE  /\ record_start < Len(eir)
           /\ AfterRecord <= Len(eir)
           /\ typ = 3 => AfterUuids(2) = AfterRecord
           /\ typ = 5 => AfterUuids(4) = AfterRecord
           /\ \A S \in SUBSET (0..Len(eir)) :
                 Cut(eir, S) /\ index \in S => AfterRecord \in S
<1>1. /\ eir \in Seq(Byte)
      /\ index \in 0..(Len(eir) - 1)
      /\ len \in 1..255
      /\ record_start = index + 1
    BY RecordBytes
<1>4. /\ index + 1 + len <= Len(eir)
      /\ typ = 3 => (len - 1) % 2 = 0
      /\ typ = 5 => (len - 1) % 4 = 0
    BY <1>1 DEF Fits, Behind, TypeAt, len, typ, record_start
<1>5. AfterRecord = index + 1 + len
    BY <1>1 DEF AfterRecord
<1>6. typ = 3 => AfterUuids(2) = AfterRecord
    <2>1. SUFFICES ASSUME typ = 3 PROVE AfterUuids(2) = AfterRecord
        OBVIOUS
    <2> DEFINE n == len - 1
    <2>2. n \in Nat /\ n % 2 = 0
        BY <1>1, <1>4, <2>1
    <2>3. AfterUuids(2) = record_start + 1 + ((n + 2 - 1) \div 2) * 2
        BY DEF AfterUuids
    <2>4. AfterRecord = record_start + 1 + n
        BY <1>1 DEF AfterRecord
    <2> HIDE DEF n
    <2>5. ((n + 2 - 1) \div 2) * 2 = n
        BY <2>2, WholeUuids
    <2> QED
        BY <2>3, <2>4, <2>5
<1>7. typ = 5 => AfterUuids(4) = AfterRecord
    <2>1. SUFFICES ASSUME typ = 5 PROVE AfterUuids(4) = AfterRecord
        OBVIOUS
    <2> DEFINE n == len - 1
    <2>2. n \in Nat /\ n % 4 = 0
        BY <1>1, <1>4, <2>1
    <2>3. AfterUuids(4) = record_start + 1 + ((n + 4 - 1) \div 4) * 4
        BY DEF AfterUuids
    <2>4. AfterRecord = record_start + 1 + n
        BY <1>1 DEF AfterRecord
    <2> HIDE DEF n
    <2>5. ((n + 4 - 1) \div 4) * 4 = n
        BY <2>2, WholeUuids
    <2> QED
        BY <2>3, <2>4, <2>5
<1>8. ASSUME NEW S \in SUBSET (0..Len(eir)), Cut(eir, S), index \in S
      PROVE  AfterRecord \in S
    <2>1. ~Ends(eir, index) /\ Behind(eir, index) = index + 1 + len
        BY RecordNotEnd DEF Behind, len
    <2>2. Behind(eir, index) <= Len(eir)
        BY <1>1, <1>4, <2>1
    <2>3. Behind(eir, index) \in S
        BY <1>8, <2>1, <2>2, Zenon DEF Cut
    <2> QED
        BY <1>5, <2>1, <2>3
<1> QED
    BY <1>1, <1>4, <1>5, <1>6, <1>7, <1>8

\* A step of parse_eir onwards, to the end of the record if it fits, or a panic
\* at one that does not, keeps the invariant but for the device.
LEMMA NextRecord ==
    ASSUME Parses, AtRecord, UNCHANGED <<report, i>>,
           index' \in Nat,
           pc' \in {"parsing", "panic"},
           pc' = "parsing" => index' > index /\ (Fits(eir, index) => index' = AfterRecord),
           pc' = "panic" => index' = index /\ ~Fits(eir, index)
    PROVE  PositionOK' /\ AtBoundary' /\ PanicsOnlyOnMisfit'
<1>1. eir' = eir /\ index \in Nat
    BY DEF eir, Parses, TypeOK, PositionOK
<1>2. ASSUME NEW S \in SUBSET (0..Len(eir)), Cut(eir, S)
      PROVE  /\ index \in S \/ \E q \in Misfits(eir, S) : q < index
             /\ index \in S /\ ~Fits(eir, index) => index \in Misfits(eir, S)
             /\ \A q \in Misfits(eir, S) : q \in Nat
             /\ index \in S /\ Fits(eir, index) => AfterRecord \in S
    <2>1. index \in S \/ \E q \in Misfits(eir, S) : q < index
        BY <1>2 DEF Parses, AtBoundary, AtRecord
    <2>2. index \in S /\ ~Fits(eir, index) => index \in Misfits(eir, S)
        BY RecordNotEnd, Zenon DEF Misfits, Parses
    <2>3. \A q \in Misfits(eir, S) : q \in Nat
        BY DEF Misfits
    <2>4. index \in S /\ Fits(eir, index) => AfterRecord \in S
        BY <1>2, FittingRecord DEF Parses
    <2> QED
        BY <2>1, <2>2, <2>3, <2>4
<1>3. AtBoundary'
    <2> SUFFICES ASSUME pc' = "parsing", NEW S \in SUBSET (0..Len(eir)), Cut(eir, S)
                 PROVE  index' \in S \/ \E q \in Misfits(eir, S) : q < index'
        BY <1>1, Zenon DEF AtBoundary
    <2> QED
        BY <1>1, <1>2
<1>4. PanicsOnlyOnMisfit'
    <2> SUFFICES ASSUME pc' = "panic", NEW S \in SUBSET (0..Len(eir)), Cut(eir, S)
                 PROVE  \E q \in Misfits(eir, S) : q <= index'
        BY <1>1, Zenon DEF PanicsOnlyOnMisfit
    <2> QED
        BY <1>1, <1>2
<1>5. PositionOK'
    BY DEF Parses, TypeOK, PositionOK, AtRecord, States
<1> QED
    BY <1>3, <1>4, <1>5

\* A position behind a record is one, and further on.
LEMMA NextPositions ==
    ASSUME TypeOK, AtRecord
    PROVE  /\ AfterRecord \in Nat /\ AfterRecord > index
           /\ AfterUuids(2) \in Nat /\ AfterUuids(2) > index
           /\ AfterUuids(4) \in Nat /\ AfterUuids(4) > index
<1>1. index \in Nat /\ len \in 1..255 /\ record_start = index + 1
    BY RecordBytes
<1> DEFINE n == len - 1
<1>2. n \in Nat
    BY <1>1
<1>3. /\ AfterRecord = index + 2 + n
      /\ AfterUuids(2) = index + 2 + ((n + 2 - 1) \div 2) * 2
      /\ AfterUuids(4) = index + 2 + ((n + 4 - 1) \div 4) * 4
    BY <1>1 DEF AfterRecord, AfterUuids
<1> HIDE DEF n
<1> QED
    BY <1>1, <1>2, <1>3

\* The device keeps its fields, each of which is an Option.
LEMMA DeviceStep ==
    ASSUME TypeOK, AddProperty \/ Uuids16 \/ Uuids32 \/ CompleteLocalName
    PROVE  DeviceOK'
<1> SUFFICES ASSUME NEW f \in Fields, NEW x, f = "class" => x \in Nat,
                    scanned_device' = [scanned_device EXCEPT ![f] = Some(x)]
             PROVE  DeviceOK'
    <2>1. CASE scanned_device' = scanned_device
        BY <2>1 DEF TypeOK, DeviceOK
    <2>2. \/ scanned_device' = scanned_device
          \/ \E f \in Fields : \E x : /\ f = "class" => x \in Nat
                                      /\ scanned_device' = [scanned_device EXCEPT ![f] = Some(x)]
        <3>1. CASE AddProperty
            <4>1. /\ report[i + 1].type \in {"bdname", "cod", "rssi"}
                  /\ report[i + 1].type = "cod" => report[i + 1].value \in Nat
                <5>1. report[i + 1] \in Properties
                    BY <3>1 DEF AddProperty, TypeOK, PositionOK
                <5> QED
                    BY <3>1, <5>1 DEF AddProperty, Properties
            <4> QED
                BY <3>1, <4>1 DEF AddProperty, Fields
        <3>2. CASE Uuids16
            BY <3>2 DEF Uuids16, Fields
        <3>3. CASE Uuids32
            BY <3>3 DEF Uuids32, Fields
        <3>4. CASE CompleteLocalName
            BY <3>4 DEF CompleteLocalName, Fields
        <3> QED
            BY <3>1, <3>2, <3>3, <3>4
    <2> QED
        BY <2>1, <2>2
<1>1. DOMAIN scanned_device' = Fields /\ \A g \in Fields : Len(scanned_device'[g]) \in {0, 1}
    BY DEF TypeOK, DeviceOK, Some
<1>2. scanned_device'.class = None \/ scanned_device'.class[1] \in Nat
    BY DEF TypeOK, DeviceOK, Some, Fields
<1> QED
    BY <1>1, <1>2 DEF DeviceOK
-----------------------------------------------------------------------------
\* parse_eir is at the beginning of a record, and does not panic, before it has
\* come to one that does not fit: initially and after each step.
LEMMA InitParses == Init => Parses
<1> SUFFICES ASSUME Init PROVE Parses
    OBVIOUS
<1>1. PositionOK
    BY ReportsAssumption DEF Init, PositionOK, States
<1>2. DeviceOK
    BY DEF Init, DeviceOK, Fields, None
<1>3. AtBoundary /\ PanicsOnlyOnMisfit
    BY DEF Init, AtBoundary, PanicsOnlyOnMisfit
<1> QED
    BY <1>1, <1>2, <1>3 DEF Parses, TypeOK

LEMMA NextParses == Parses /\ [Next]_vars => Parses'
<1> SUFFICES ASSUME Parses, [Next]_vars PROVE Parses'
    OBVIOUS
<1> USE DEF Parses, TypeOK
<1>1. CASE AddProperty
    <2>1. PositionOK'
        BY <1>1 DEF AddProperty, PositionOK
    <2>2. DeviceOK'
        BY <1>1, DeviceStep
    <2> QED
        BY <1>1, <2>1, <2>2 DEF AddProperty, AtBoundary, PanicsOnlyOnMisfit
<1>2. CASE BeginEir
    <2>1. PositionOK' /\ DeviceOK'
        BY <1>2 DEF BeginEir, PositionOK, DeviceOK, States
    <2>2. AtBoundary'
        BY <1>2 DEF BeginEir, AtBoundary, Cut
    <2> QED
        BY <1>2, <2>1, <2>2 DEF BeginEir, PanicsOnlyOnMisfit
<1>3. CASE EndEir
    <2>1. PositionOK' /\ DeviceOK'
        BY <1>3 DEF EndEir, PositionOK, DeviceOK, States
    <2> QED
        BY <1>3, <2>1 DEF EndEir, AtBoundary, PanicsOnlyOnMisfit
<1>4. CASE NoType
    <2>1. index \in Nat
        BY DEF PositionOK
    <2>2. ~Fits(eir, index)
        <3>1. record_start >= Len(eir) /\ eir \in Seq(Byte) /\ record_start \in Int
            BY <1>4, RecordBytes DEF NoType
        <3> QED
            BY <1>4, <3>1, FittingRecord DEF NoType
    <2>3. PositionOK' /\ AtBoundary' /\ PanicsOnlyOnMisfit'
        BY <1>4, <2>1, <2>2, NextRecord DEF NoType
    <2> QED
        BY <1>4, <2>3 DEF NoType, DeviceOK
<1>5. CASE Uuids16
    <2>1. AtRecord /\ typ = 3
        BY <1>5 DEF Uuids16, AtType
    <2>2. index' \in Nat
        BY <1>5, <2>1, NextPositions DEF Uuids16, PositionOK
    <2>3. PositionOK' /\ AtBoundary' /\ PanicsOnlyOnMisfit'
        <3>1. CASE AfterUuids(2) <= Len(eir)
            <4>1. pc' = "parsing" /\ index' = AfterUuids(2) /\ UNCHANGED <<report, i>>
                BY <1>5, <3>1, <2>1 DEF Uuids16, AtRecord
            <4>2. index' > index /\ (Fits(eir, index) => index' = AfterRecord)
                BY <2>1, <4>1, FittingRecord, NextPositions
            <4> QED
                BY <2>1, <2>2, <4>1, <4>2, NextRecord
        <3>2. CASE ~(AfterUuids(2) <= Len(eir))
            <4>1. pc' = "panic" /\ UNCHANGED <<report, i, index>>
                BY <1>5, <3>2 DEF Uuids16
            <4>2. ~Fits(eir, index)
                BY <2>1, <3>2, FittingRecord
            <4> QED
                BY <2>1, <2>2, <4>1, <4>2, NextRecord
        <3> QED
            BY <3>1, <3>2
    <2> QED
        BY <1>5, <2>3, DeviceStep
<1>6. CASE Uuids32
    <2>1. AtRecord /\ typ = 5
        BY <1>6 DEF Uuids32, AtType
    <2>2. index' \in Nat
        BY <1>6, <2>1, NextPositions DEF Uuids32, PositionOK
    <2>3. PositionOK' /\ AtBoundary' /\ PanicsOnlyOnMisfit'
        <3>1. CASE AfterUuids(4) <= Len(eir)
            <4>1. pc' = "parsing" /\ index' = AfterUuids(4) /\ UNCHANGED <<report, i>>
                BY <1>6, <3>1, <2>1 DEF Uuids32, AtRecord
            <4>2. index' > index /\ (Fits(eir, index) => index' = AfterRecord)
                BY <2>1, <4>1, FittingRecord, NextPositions
            <4> QED
                BY <2>1, <2>2, <4>1, <4>2, NextRecord
        <3>2. CASE ~(AfterUuids(4) <= Len(eir))
            <4>1. pc' = "panic" /\ UNCHANGED <<report, i, index>>
                BY <1>6, <3>2 DEF Uuids32
            <4>2. ~Fits(eir, index)
                BY <2>1, <3>2, FittingRecord
            <4> QED
                BY <2>1, <2>2, <4>1, <4>2, NextRecord
        <3> QED
            BY <3>1, <3>2
    <2> QED
        BY <1>6, <2>3, DeviceStep
<1>7. CASE CompleteLocalName
    <2>1. AtRecord
        BY <1>7 DEF CompleteLocalName, AtType
    <2>2. index' \in Nat
        BY <1>7, <2>1, NextPositions DEF CompleteLocalName, PositionOK
    <2>3. PositionOK' /\ AtBoundary' /\ PanicsOnlyOnMisfit'
        <3>1. CASE AfterRecord <= Len(eir)
            <4>1. pc' = "parsing" /\ index' = AfterRecord /\ UNCHANGED <<report, i>>
                BY <1>7, <3>1, <2>1 DEF CompleteLocalName, AtRecord
            <4>2. index' > index /\ (Fits(eir, index) => index' = AfterRecord)
                BY <2>1, <4>1, FittingRecord, NextPositions
            <4> QED
                BY <2>1, <2>2, <4>1, <4>2, NextRecord
        <3>2. CASE ~(AfterRecord <= Len(eir))
            <4>1. pc' = "panic" /\ UNCHANGED <<report, i, index>>
                BY <1>7, <3>2 DEF CompleteLocalName
            <4>2. ~Fits(eir, index)
                BY <2>1, <3>2, FittingRecord
            <4> QED
                BY <2>1, <2>2, <4>1, <4>2, NextRecord
        <3> QED
            BY <3>1, <3>2
    <2> QED
        BY <1>7, <2>3, DeviceStep
<1>8. CASE OtherRecord
    <2>1. PositionOK' /\ AtBoundary' /\ PanicsOnlyOnMisfit'
        BY <1>8, NextPositions, NextRecord DEF OtherRecord, AtRecord
    <2> QED
        BY <1>8, <2>1 DEF OtherRecord, DeviceOK
<1>9. CASE Report \/ Log
    <2>1. pc' \in {"reported", "logged", "unprintable"}
        BY <1>9 DEF Report, Log
    <2>2. PositionOK' /\ DeviceOK'
        BY <1>9, <2>1 DEF Report, Log, PositionOK, DeviceOK, States
    <2> QED
        BY <2>1, <2>2 DEF AtBoundary, PanicsOnlyOnMisfit
<1>10. CASE UNCHANGED vars
    BY <1>10 DEF vars, PositionOK, DeviceOK, AtBoundary, PanicsOnlyOnMisfit, eir
<1> QED
    BY <1>1, <1>2, <1>3, <1>4, <1>5, <1>6, <1>7, <1>8, <1>9, <1>10 DEF Next

-----------------------------------------------------------------------------
\* Where parse_eir is when every EIR is made of records.
LEMMA AtPosition ==
    ASSUME Parses, AllWellFormed(report), pc = "parsing"
    PROVE  /\ report \in Seq(Properties)
           /\ i \in Nat
           /\ i < Len(report)
           /\ report[i + 1].type = "eir"
           /\ WellFormed(eir)
           /\ index \in Positions(eir)
           /\ AtRecord <=> ~Ends(eir, index)
<1>1. /\ report \in Seq(Properties)
      /\ i \in Nat
      /\ i < Len(report)
      /\ report[i + 1].type = "eir"
      /\ index \in Nat
    BY DEF Parses, TypeOK, PositionOK
<1>2. WellFormed(eir)
    BY <1>1 DEF AllWellFormed, Ofs, eir
<1>3. /\ Positions(eir) \in SUBSET (0..Len(eir))
      /\ Chain(eir, Positions(eir))
    BY <1>2, PositionsChain
<1>4. index \in Positions(eir)
    BY <1>3 DEF Parses, AtBoundary, Chain
<1>5. eir \in Seq(Byte)
    BY EirBytes DEF Parses
<1>6. AtRecord <=> ~Ends(eir, index)
    BY <1>3, <1>4, <1>5 DEF AtRecord, Ends, len
<1> QED
    BY <1>1, <1>2, <1>4, <1>6

\* Reading a record goes to its end, and what it stores describes the record.
LEMMA ReadRecord ==
    ASSUME Parses, AsRead, AllWellFormed(report), AtRecord,
           Uuids16 \/ Uuids32 \/ CompleteLocalName \/ OtherRecord
    PROVE  /\ UNCHANGED <<report, i, pc>>
           /\ Describes(scanned_device', report, i, index')
<1> DEFINE content == SubSeq(eir, index + 3, Behind(eir, index))
           next == Behind(eir, index)
           t == TypeAt(eir, index)
           list(width) == Uuids(eir, index + 2, eir[index + 1] - 1, width)
           d == scanned_device
<1>1. /\ report \in Seq(Properties)
      /\ i \in Nat
      /\ i < Len(report)
      /\ report[i + 1].type = "eir"
      /\ WellFormed(eir)
      /\ index \in Positions(eir)
      /\ ~Ends(eir, index)
    BY AtPosition DEF AtRecord
<1>2. /\ eir \in Seq(Byte)
      /\ index \in 0..(Len(eir) - 1)
      /\ eir[index + 1] \in 1..255
      /\ record_start + 1 = index + 2
      /\ record_start + 2 = index + 3
      /\ typ = t
      /\ AfterRecord = next
    BY RecordBytes DEF Parses, len, typ, AfterRecord, Behind, TypeAt
<1>3. /\ record_start < Len(eir)
      /\ next <= Len(eir)
      /\ t = 3 => AfterUuids(2) = next
      /\ t = 5 => AfterUuids(4) = next
    <2>1. Fits(eir, index)
        BY <1>1, RecordsAround
    <2> QED
        BY <1>2, <2>1, FittingRecord DEF Parses
<1>4. Describes(d, report, i, index)
    BY DEF AsRead, AtRecord
<1>5. DOMAIN d = Fields
    BY DEF Parses, TypeOK, DeviceOK
<1>6. index \in Nat /\ eir[index + 1] \in Nat /\ next \in Nat /\ next > index
    <2>1. index \in Nat
        BY DEF Parses, TypeOK, PositionOK
    <2>2. PICK b \in 1..255 : b = eir[index + 1]
        BY <1>2
    <2> QED
        BY <2>1, <2>2 DEF Behind
<1>7. /\ t = 3 => IsListOf(list(2), content, 2)
      /\ t = 5 => IsListOf(list(4), content, 4)
    <2> DEFINE n == eir[index + 1] - 1
    <2>1. /\ t = 3 => n % 2 = 0
          /\ t = 5 => n % 4 = 0
        BY <1>1, RecordsAround DEF Fits
    <2>2. n \in Nat /\ index \in Nat /\ index + 2 + n = next
        <3>1. PICK b \in 1..255 : b = eir[index + 1]
            BY <1>2
        <3> QED
            BY <1>6, <3>1 DEF Behind
    <2>3. 2 \in {2, 4} /\ 4 \in {2, 4}
        OBVIOUS
    <2> HIDE DEF n, next, t
    <2>4. t = 3 => IsListOf(Uuids(eir, index + 2, n, 2), SubSeq(eir, index + 3, index + 2 + n), 2)
        BY <1>2, <1>3, <2>1, <2>2, <2>3, UuidsReadBack
    <2>5. t = 5 => IsListOf(Uuids(eir, index + 2, n, 4), SubSeq(eir, index + 3, index + 2 + n), 4)
        BY <1>2, <1>3, <2>1, <2>2, <2>3, UuidsReadBack
    <2> QED
        BY <2>2, <2>4, <2>5 DEF n, next
<1>8. /\ UNCHANGED <<report, i, pc>>
      /\ index' = next
      /\ t = 3 => scanned_device' = [d EXCEPT !.uuids16 = Some(list(2))]
      /\ t = 5 => scanned_device' = [d EXCEPT !.uuids32 = Some(list(4))]
      /\ t = 9 => scanned_device' =
                     IF content \in Utf8 THEN [d EXCEPT !.name = Some(content)] ELSE d
      /\ t \notin {3, 5, 9} => scanned_device' = d
    <2> HIDE DEF next, t, list, content, d
    <2>1. CASE Uuids16
        <3>1. t = 3
            BY <1>2, <2>1 DEF Uuids16, AtType
        <3>2. AfterUuids(2) <= Len(eir)
            BY <1>3, <3>1
        <3>3. /\ UNCHANGED <<report, i, pc>>
              /\ index' = AfterUuids(2)
              /\ scanned_device' = [d EXCEPT !.uuids16 = Some(list(2))]
            BY <1>2, <2>1, <3>2 DEF Uuids16, list, d, len
        <3> QED
            BY <1>3, <3>1, <3>3
    <2>2. CASE Uuids32
        <3>1. t = 5
            BY <1>2, <2>2 DEF Uuids32, AtType
        <3>2. AfterUuids(4) <= Len(eir)
            BY <1>3, <3>1
        <3>3. /\ UNCHANGED <<report, i, pc>>
              /\ index' = AfterUuids(4)
              /\ scanned_device' = [d EXCEPT !.uuids32 = Some(list(4))]
            BY <1>2, <2>2, <3>2 DEF Uuids32, list, d, len
        <3> QED
            BY <1>3, <3>1, <3>3
    <2>3. CASE CompleteLocalName
        <3>1. t = 9
            BY <1>2, <2>3 DEF CompleteLocalName, AtType
        <3>2. AfterRecord <= Len(eir)
            BY <1>2, <1>3
        <3>3. /\ UNCHANGED <<report, i, pc>>
              /\ index' = AfterRecord
              /\ scanned_device' =
                    IF content \in Utf8 THEN [d EXCEPT !.name = Some(content)] ELSE d
            BY <1>2, <2>3, <3>2 DEF CompleteLocalName, content, d, next
        <3> QED
            BY <1>2, <3>1, <3>3
    <2>4. CASE OtherRecord
        BY <1>2, <2>4 DEF OtherRecord, d
    <2> QED
        BY <2>1, <2>2, <2>3, <2>4
<1> DEFINE x == IF t = 3 THEN list(2) ELSE list(4)
<1>9. Stores(scanned_device', d, x, t, content)
    <2>1. /\ t = 3 => /\ IsListOf(x, content, 2)
                      /\ scanned_device' = [d EXCEPT !.uuids16 = Some(x)]
          /\ t = 5 => /\ IsListOf(x, content, 4)
                      /\ scanned_device' = [d EXCEPT !.uuids32 = Some(x)]
        BY <1>7, <1>8
    <2> HIDE DEF t, content, x, d
    <2>2. ASSUME NEW e, NEW f \in Fields, NEW v, e = [d EXCEPT ![f] = v]
          PROVE  With(e, d, f, v)
        BY <1>5, <2>2 DEF With
    <2>3. {"uuids16", "uuids32", "name"} \subseteq Fields
        BY DEF Fields
    <2>4. /\ t = 3 => With(scanned_device', d, "uuids16", Some(x))
          /\ t = 5 => With(scanned_device', d, "uuids32", Some(x))
          /\ t = 9 => IF content \in Utf8 THEN With(scanned_device', d, "name", Some(content))
                                          ELSE scanned_device' = d
        BY <1>8, <2>1, <2>2, <2>3
    <2> QED
        BY <1>8, <2>1, <2>4 DEF Stores
<1>10. Describes(scanned_device', report, i, next)
    <2>1. content = Content(report, <<i + 1, index>>)
        BY DEF Content, eir
    <2>2. \A e, y : Stores(e, d, y, t, Content(report, <<i + 1, index>>))
                       => Describes(e, report, i, next)
        <3>1. eir = report[i + 1].data
            BY DEF eir
        <3> HIDE DEF d, next, t
        <3>2. next = Behind(eir, index) /\ t = TypeAt(eir, index)
            BY DEF next, t
        <3>3. \A c, e, y : /\ Describes(c, report, i, index)
                           /\ Stores(e, c, y, TypeAt(eir, index), Content(report, <<i + 1, index>>))
                           => Describes(e, report, i, next)
            BY <1>1, <1>6, <3>1, <3>2, DescribesRecord
        <3> QED
            BY <1>4, <3>2, <3>3
    <2> HIDE DEF d, x, next, content, t
    <2> QED
        BY <1>9, <2>1, <2>2
<1> QED
    BY <1>8, <1>10

\* With every step the device is described by what the step came past.
LEMMA NextAsRead ==
    ASSUME Parses, AsRead, [Next]_vars, Parses'
    PROVE  AsRead'
<1>1. report' = report
    BY DEF Next, vars, AddProperty, BeginEir, EndEir, NoType, Uuids16, Uuids32,
           CompleteLocalName, OtherRecord, Report, Log
<1> SUFFICES ASSUME AllWellFormed(report)
             PROVE  Describes(scanned_device', report, i',
                              IF pc' \in {"parsing", "panic"} THEN index' ELSE 0)
    BY <1>1 DEF AsRead
<1>2. Describes(scanned_device, report, i, IF pc \in {"parsing", "panic"} THEN index ELSE 0)
    BY DEF AsRead
<1>3. CASE AddProperty
    <2>1. /\ report \in Seq(Properties)
          /\ i \in Nat
          /\ i < Len(report)
          /\ report[i + 1].type # "eir"
          /\ DOMAIN scanned_device = Fields
        BY <1>3 DEF AddProperty, Parses, TypeOK, PositionOK, DeviceOK
    <2>2. Describes(scanned_device, report, i, 0)
        BY <1>2, <1>3 DEF AddProperty
    <2> DEFINE d == scanned_device
               e == scanned_device'
               type == report[i + 1].type
    <2>3. /\ type = "bdname" => With(e, d, "name", Some(Hex(report[i + 1].data)))
          /\ type = "cod" => With(e, d, "class", Some(report[i + 1].value))
          /\ type = "rssi" => With(e, d, "rssi", Some(report[i + 1].value))
        <3>1. /\ type = "bdname" => e = [d EXCEPT !.name = Some(Hex(report[i + 1].data))]
              /\ type = "cod" => e = [d EXCEPT !.class = Some(report[i + 1].value)]
              /\ type = "rssi" => e = [d EXCEPT !.rssi = Some(report[i + 1].value)]
            BY <1>3 DEF AddProperty
        <3> HIDE DEF e, type
        <3>2. ASSUME NEW f \in Fields, NEW v, e = [d EXCEPT ![f] = v]
              PROVE  With(e, d, f, v)
            BY <2>1, <3>2 DEF With
        <3>3. {"name", "class", "rssi"} \subseteq Fields
            BY DEF Fields
        <3> QED
            BY <3>1, <3>2, <3>3
    <2>4. Describes(e, report, i + 1, 0)
        <3> HIDE DEF d, e
        <3>1. Describes(d, report, i, 0)
            BY <2>2 DEF d
        <3> QED
            BY <2>1, <2>3, <3>1, DescribesProperty
    <2> QED
        BY <1>3, <2>4 DEF AddProperty
<1>4. CASE BeginEir
    BY <1>2, <1>4 DEF BeginEir
<1>5. CASE EndEir
    <2>1. /\ report \in Seq(Properties)
          /\ i \in Nat
          /\ i < Len(report)
          /\ report[i + 1].type = "eir"
          /\ index \in Positions(eir)
          /\ Ends(eir, index)
          /\ eir = report[i + 1].data
        BY <1>5, AtPosition DEF EndEir, eir
    <2>2. Describes(scanned_device, report, i, index)
        BY <1>2, <1>5 DEF EndEir
    <2>3. Describes(scanned_device, report, i + 1, 0)
        BY <2>1, <2>2, DescribesEir
    <2> QED
        BY <1>5, <2>3 DEF EndEir
<1>6. CASE NoType
    BY <1>2, <1>6 DEF NoType, AtRecord
<1>7. CASE Uuids16 \/ Uuids32 \/ CompleteLocalName \/ OtherRecord
    <2>1. AtRecord
        BY <1>7 DEF Uuids16, Uuids32, CompleteLocalName, OtherRecord, AtType
    <2>2. UNCHANGED <<report, i, pc>> /\ Describes(scanned_device', report, i, index')
        BY <1>7, <2>1, ReadRecord
    <2> QED
        BY <2>1, <2>2 DEF AtRecord
<1>8. CASE Report
    BY <1>2, <1>8 DEF Report
<1>9. CASE Log
    BY <1>2, <1>9 DEF Log
<1>10. CASE UNCHANGED vars
    BY <1>2, <1>10 DEF vars
<1> QED
    BY <1>3, <1>4, <1>5, <1>6, <1>7, <1>8, <1>9, <1>10 DEF Next

\* What is shown of a class are its bits.
LEMMA NextShown ==
    ASSUME IInv, [Next]_vars, Parses'
    PROVE  ShownAsAnnounced' /\ ReportedAtEnd'
<1>1. CASE AddProperty \/ BeginEir \/ EndEir \/ NoType
    BY <1>1 DEF AddProperty, BeginEir, EndEir, NoType, AtRecord,
                IInv, ReportedAtEnd, ShownAsAnnounced
<1>2. CASE Uuids16 \/ Uuids32 \/ CompleteLocalName \/ OtherRecord
    <2>1. /\ pc = "parsing"
          /\ pc' \in {"parsing", "panic"}
          /\ shown' = shown
        BY <1>2 DEF Uuids16, Uuids32, CompleteLocalName, OtherRecord, AtType, AtRecord
    <2> QED
        BY <2>1 DEF IInv, ReportedAtEnd, ShownAsAnnounced
<1>3. CASE Report
    BY <1>3 DEF Report, IInv, ReportedAtEnd, ShownAsAnnounced
<1>4. CASE Log
    <2>1. ReportedAtEnd'
        BY <1>4 DEF Log, IInv, ReportedAtEnd
    <2>2. CASE shown' = shown
        BY <1>4, <2>2 DEF Log, IInv, ReportedAtEnd, ShownAsAnnounced
    <2>3. CASE shown' # shown
        <3> DEFINE value == scanned_device.class[1]
        <3>1. shown' = Some(Display(value)) /\ UNCHANGED scanned_device
            BY <1>4, <2>3 DEF Log
        <3>2. value \in Nat
            <4>1. scanned_device.class # None
                BY <1>4, <2>3 DEF Log
            <4> QED
                BY <4>1 DEF IInv, TypeOK, DeviceOK
        <3> HIDE DEF value
        <3>3. /\ Display(value).major = MajorDeviceClass(value)
              /\ \A b \in 0..10 : b \in Display(value).services <=>
                                     b \in BITS /\ Bit(ServiceClasses(value), b) = 1
            BY DEF Display, BITS
        <3>4. shown'[1] = Display(value)
            BY <3>1 DEF Some
        <3>5. value = scanned_device.class[1]'
            BY <3>1 DEF value
        <3> QED
            BY <2>1, <3>2, <3>3, <3>4, <3>5, MajorFromBits, ServicesFromBits
               DEF ShownAsAnnounced
    <2> QED
        BY <2>1, <2>2, <2>3
<1>5. CASE UNCHANGED vars
    BY <1>5 DEF vars, IInv, ReportedAtEnd, ShownAsAnnounced
<1> QED
    BY <1>1, <1>2, <1>3, <1>4, <1>5 DEF Next

\* Exactly bit 3 of the minor class is lost.
LEMMA NextMinor ==
    ASSUME IInv, [Next]_vars PROVE MinorLacksBit3'
<1>1. CASE Log /\ shown' # shown
    <2> DEFINE value == scanned_device.class[1]
    <2>1. /\ shown' = Some(Display(value))
          /\ scanned_device' = scanned_device
          /\ scanned_device.class # None
        BY <1>1 DEF Log
    <2>2. value \in Nat
        BY <2>1 DEF IInv, TypeOK, DeviceOK
    <2>3. shown'[1] = Display(value)
        BY <2>1 DEF Some
    <2>4. ASSUME shown'[1].minor # None PROVE shown'[1].minor[1] = MinorDeviceClass(value)
        BY <2>3, <2>4 DEF Display, Some
    <2> QED
        BY <2>1, <2>2, <2>4, MinorFromBits DEF MinorLacksBit3
<1>2. CASE Log /\ shown' = shown
    BY <1>2 DEF Log, IInv, MinorLacksBit3
<1>3. CASE pc \in {"adding", "parsing"} /\ shown' = shown
    BY <1>3 DEF IInv, ReportedAtEnd, MinorLacksBit3
<1>4. CASE UNCHANGED <<scanned_device, shown>>
    BY <1>4 DEF IInv, MinorLacksBit3
<1> QED
    BY <1>1, <1>2, <1>3, <1>4
    DEF Next, AddProperty, BeginEir, EndEir, NoType, Uuids16, Uuids32,
        CompleteLocalName, OtherRecord, AtType, AtRecord, Report, vars

-----------------------------------------------------------------------------
LEMMA InitIInv == Init => IInv
<1> SUFFICES ASSUME Init PROVE IInv
    OBVIOUS
<1>1. Parses
    BY InitParses
<1>2. AsRead
    <2> SUFFICES ASSUME AllWellFormed(report) PROVE Describes(scanned_device, report, 0, 0)
        BY DEF Init, AsRead
    <2>1. report \in Seq(Properties)
        BY <1>1 DEF Parses, TypeOK, PositionOK
    <2>2. \A f \in Fields : scanned_device[f] = None
        BY DEF Init, Fields
    <2> QED
        BY <2>1, <2>2, DescribesNothing
<1>3. ShownAsAnnounced /\ MinorLacksBit3 /\ ReportedAtEnd
    BY DEF Init, ShownAsAnnounced, MinorLacksBit3, ReportedAtEnd, None
<1> QED
    BY <1>1, <1>2, <1>3 DEF Parses, IInv

LEMMA NextIInv == IInv /\ [Next]_vars => IInv'
<1> SUFFICES ASSUME IInv, [Next]_vars PROVE IInv'
    OBVIOUS
<1>1. Parses /\ AsRead
    BY DEF IInv, Parses
<1>2. Parses'
    BY <1>1, NextParses
<1>3. AsRead'
    BY <1>1, <1>2, NextAsRead
<1>4. ShownAsAnnounced' /\ MinorLacksBit3' /\ ReportedAtEnd'
    BY <1>2, NextShown, NextMinor
<1> QED
    BY <1>2, <1>3, <1>4 DEF Parses, IInv

\* For every result, whatever bytes its EIRs are made of: parse_eir is at the
\* beginning of a record, and has not panicked, unless it came past or to a
\* record that does not fit; and as long as all fit, the device is the one
\* announced so far.
THEOREM Invariance == Spec => []IInv
BY InitIInv, NextIInv, PTL DEF Spec

\* The indexing of parse_eir panics at or behind a record that does not fit,
\* whatever the data; and so for no EIR that is made of records, of whatever
\* types and lengths.
THEOREM NoPanicOnRecords ==
    Spec => [](PanicsOnlyOnMisfit /\ (pc = "panic" => ~WellFormed(eir)))
<1>1. IInv => PanicsOnlyOnMisfit /\ (pc = "panic" => ~WellFormed(eir))
    <2>1. IInv => PanicsOnlyOnMisfit
        BY DEF IInv
    <2>2. PanicsOnlyOnMisfit /\ pc = "panic" => ~WellFormed(eir)
        BY Zenon DEF PanicsOnlyOnMisfit, WellFormed, Chain
    <2> QED
        BY <2>1, <2>2
<1> QED
    BY <1>1, Invariance, PTL

\* The device that is broadcast and logged has of every result, whatever its
\* properties and their order, the last name, class, signal strength and list
\* of services of each width that the properties and records announce, byte by
\* byte, and nothing else, as long as its EIRs are made of records; and its
\* class is shown by its bits, but for bit 3.
THEOREM AnnouncedIsReported == Spec => []AsAnnounced
<1>1. IInv => AsAnnounced
    <2> SUFFICES ASSUME IInv, pc \in {"reported", "logged"}, AllWellFormed(report)
                 PROVE  /\ Describes(scanned_device, report, Len(report), 0)
                        /\ ShownAsAnnounced
                        /\ MinorLacksBit3
        BY DEF AsAnnounced
    <2>1. i = Len(report) /\ pc \notin {"parsing", "panic"}
        BY DEF IInv, ReportedAtEnd
    <2> QED
        BY <2>1 DEF IInv, AsRead
<1> QED
    BY <1>1, Invariance, PTL

\* The minor class is logged right when bit 3 of the class is 0, and 2 too low
\* when it is 1.
THEOREM MinorShown == Spec => []MinorLacksBit3
<1>1. IInv => MinorLacksBit3
    BY DEF IInv
<1> QED
    BY Invariance, <1>1, PTL
=============================================================================
