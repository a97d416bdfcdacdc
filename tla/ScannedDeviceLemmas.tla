-------------------------- MODULE ScannedDeviceLemmas --------------------------
(***************************************************************************)
(* What ScannedDeviceProofs needs of announcements and of conversions,     *)
(* whatever the state: which announcements parse_eir comes past with a     *)
(* step, which of them is then the last, and that what is stored for a     *)
(* record or a property says what it announces.                            *)
(***************************************************************************)
EXTENDS ScannedDevice, TLAPS

\* The device e is d with the value v in the field f.
With(e, d, f, v) == e[f] = v /\ \A g \in Fields \ {f} : e[g] = d[g]

\* A well-formed EIR has positions, and its records are among them.
LEMMA PositionsChain ==
    ASSUME NEW data, WellFormed(data)
    PROVE  /\ Positions(data) \in SUBSET (0..Len(data))
           /\ Chain(data, Positions(data))
           /\ Records(data) \subseteq Positions(data)
<1>1. \E S \in SUBSET (0..Len(data)) : Chain(data, S)
    BY DEF WellFormed
<1>2. /\ Positions(data) \in SUBSET (0..Len(data))
      /\ Chain(data, Positions(data))
    BY <1>1, Zenon DEF Positions
<1>3. Records(data) \subseteq Positions(data)
    BY Zenon DEF Records
<1> QED
    BY <1>2, <1>3

\* From a record at p the next position is behind it.
LEMMA RecordsAround ==
    ASSUME NEW data, WellFormed(data), NEW p \in Positions(data)
    PROVE  /\ ~Ends(data, p) => /\ p \in Records(data)
                                /\ Fits(data, p)
                                /\ \A q \in Records(data) : q <= p \/ q >= Behind(data, p)
           /\ Ends(data, p) => \A q \in Records(data) : q < p
<1>1. /\ Positions(data) \in SUBSET (0..Len(data))
      /\ Chain(data, Positions(data))
      /\ Records(data) \subseteq Positions(data)
    BY PositionsChain
<1>2. CASE ~Ends(data, p)
    <2>1. Fits(data, p) /\ \A q \in Positions(data) : q <= p \/ q >= Behind(data, p)
        <3>1. Fits(data, p)
            BY <1>1, <1>2, Zenon DEF Chain, Misfits
        <3>2. Behind(data, p) <= Len(data)
            BY <3>1, Zenon DEF Fits
        <3> QED
            BY <1>1, <1>2, <3>1, <3>2, Zenon DEF Chain, Cut
    <2>2. p \in Records(data)
        BY <1>2, Zenon DEF Records
    <2> QED
        BY <1>1, <1>2, <2>1, <2>2, Zenon
<1>3. CASE Ends(data, p)
    <2>1. \A q \in Positions(data) : q <= p
        BY <1>1, <1>3, Zenon DEF Chain, Cut
    <2>2. p \notin Records(data)
        BY <1>3, Zenon DEF Records
    <2>3. \A q \in Records(data) : q \in Int /\ p \in Int /\ q <= p /\ q # p
        BY <1>1, <2>1, <2>2
    <2> QED
        BY <1>3, <2>3
<1> QED
    BY <1>2, <1>3

\* What the announcements are.
LEMMA IsRecord ==
    ASSUME NEW r, NEW t
    PROVE  /\ \A a \in RecordsOf(r, t) : a = <<a[1], a[2]>>
           /\ \A k, p : <<k, p>> \in RecordsOf(r, t) <=>
                           /\ k \in Ofs(r, "eir")
                           /\ p \in Records(r[k].data)
                           /\ TypeAt(r[k].data, p) = t
BY DEF RecordsOf

LEMMA IsProperty ==
    ASSUME NEW r, NEW t
    PROVE  /\ \A a \in PropertiesOf(r, t) : a = <<a[1], a[2]>>
           /\ \A k, p : <<k, p>> \in PropertiesOf(r, t) <=> k \in Ofs(r, t) /\ p = 0
BY DEF PropertiesOf

\* Announcements are pairs of numbers.
LEMMA AnnouncementsArePairs ==
    ASSUME NEW r \in Seq(Properties), AllWellFormed(r), NEW t
    PROVE  /\ RecordsOf(r, t) \subseteq Nat \X Nat
           /\ PropertiesOf(r, t) \subseteq Nat \X Nat
<1>1. \A k \in Ofs(r, t) : k \in Nat
    BY DEF Ofs
<1>2. \A k \in Ofs(r, "eir") : k \in Nat /\ Records(r[k].data) \subseteq Nat
    <2> SUFFICES ASSUME NEW k \in Ofs(r, "eir")
                 PROVE  k \in Nat /\ Records(r[k].data) \subseteq Nat
        OBVIOUS
    <2>1. WellFormed(r[k].data)
        BY DEF AllWellFormed
    <2>2. Records(r[k].data) \subseteq Positions(r[k].data)
          /\ Positions(r[k].data) \subseteq 0..Len(r[k].data)
        BY <2>1, PositionsChain
    <2> QED
        BY <2>2 DEF Ofs
<1>3. RecordsOf(r, t) \subseteq Nat \X Nat
    BY <1>2 DEF RecordsOf
<1>4. PropertiesOf(r, t) \subseteq Nat \X Nat
    BY <1>1 DEF PropertiesOf
<1> QED
    BY <1>3, <1>4

-----------------------------------------------------------------------------
\* The announcement that none comes behind is the last.
LEMMA LastIs ==
    ASSUME NEW A \in SUBSET (Nat \X Nat), NEW m \in A, \A a \in A : Before(a, m)
    PROVE  LastOf(A) = m
<1>1. \A b \in A : Before(b, LastOf(A)) /\ LastOf(A) \in A
    BY Zenon DEF LastOf
<1>2. Before(m, LastOf(A)) /\ Before(LastOf(A), m) /\ LastOf(A) \in Nat \X Nat
    BY <1>1
<1>3. m \in Nat \X Nat
    OBVIOUS
<1> QED
    BY <1>2, <1>3 DEF Before

\* When n properties were added, a property that is no EIR announces itself.
LEMMA PastProperty ==
    ASSUME NEW r \in Seq(Properties), AllWellFormed(r),
           NEW n \in Nat, n < Len(r), r[n + 1].type # "eir", NEW t
    PROVE  /\ Past(RecordsOf(r, t), n + 1, 0) = Past(RecordsOf(r, t), n, 0)
           /\ Past(PropertiesOf(r, t), n + 1, 0) =
                 Past(PropertiesOf(r, t), n, 0)
                    \cup IF r[n + 1].type = t THEN {<<n + 1, 0>>} ELSE {}
<1> DEFINE R == RecordsOf(r, t)
           P == PropertiesOf(r, t)
<1>1. R \subseteq Nat \X Nat /\ P \subseteq Nat \X Nat
    BY AnnouncementsArePairs
<1>2. \A A \in SUBSET (Nat \X Nat) :
         Past(A, n + 1, 0) = Past(A, n, 0) \cup {a \in A : a[1] = n + 1}
    BY DEF Past
<1>3. {a \in R : a[1] = n + 1} = {}
    BY <1>1, IsRecord DEF Ofs
<1>4. {a \in P : a[1] = n + 1} = IF r[n + 1].type = t THEN {<<n + 1, 0>>} ELSE {}
    BY <1>1 DEF PropertiesOf, Ofs
<1> HIDE DEF R, P
<1>5. Past(R, n + 1, 0) = Past(R, n, 0)
    BY <1>1, <1>2, <1>3
<1>6. Past(P, n + 1, 0) =
         Past(P, n, 0) \cup IF r[n + 1].type = t THEN {<<n + 1, 0>>} ELSE {}
    BY <1>1, <1>2, <1>4
<1> QED
    BY <1>5, <1>6 DEF R, P

\* An EIR announces no property, wherever in it parse_eir is.
LEMMA NoPropertyInEir ==
    ASSUME NEW r \in Seq(Properties), NEW n \in Nat, n < Len(r), r[n + 1].type = "eir",
           NEW p, NEW q
    PROVE  \A t : t # "eir" => Past(PropertiesOf(r, t), n, q) = Past(PropertiesOf(r, t), n, p)
<1> SUFFICES ASSUME NEW t, t # "eir"
             PROVE  Past(PropertiesOf(r, t), n, q) = Past(PropertiesOf(r, t), n, p)
    OBVIOUS
<1>1. \A a \in PropertiesOf(r, t) : a[1] # n + 1
    BY IsProperty DEF Ofs
<1> QED
    BY <1>1 DEF Past

\* In an EIR a record announces itself: from its beginning to the next there
\* is no other.
LEMMA PastRecord ==
    ASSUME NEW r \in Seq(Properties), AllWellFormed(r),
           NEW n \in Nat, n < Len(r), r[n + 1].type = "eir",
           NEW data, data = r[n + 1].data,
           NEW p \in Positions(data), ~Ends(data, p),
           NEW next, next = Behind(data, p), next \in Nat, next > p
    PROVE  \A t : /\ TypeAt(data, p) = t => Past(RecordsOf(r, t), n, next) =
                                               Past(RecordsOf(r, t), n, p) \cup {<<n + 1, p>>}
                  /\ TypeAt(data, p) # t => Past(RecordsOf(r, t), n, next) =
                                               Past(RecordsOf(r, t), n, p)
<1> TAKE t
<1> DEFINE R == RecordsOf(r, t)
<1>1. R \subseteq Nat \X Nat
    BY AnnouncementsArePairs
<1>2. n + 1 \in Ofs(r, "eir")
    BY DEF Ofs
<1>3. WellFormed(data) /\ p \in Nat
    <2>1. WellFormed(data)
        BY <1>2 DEF AllWellFormed
    <2> QED
        BY <2>1, PositionsChain
<1>4. p \in Records(data) /\ \A q \in Records(data) : q <= p \/ q >= next
    BY <1>3, RecordsAround
<1>5. \A a \in R : a[1] = n + 1 => a[2] \in Records(data) /\ TypeAt(data, a[2]) = t
    BY IsRecord
<1>6. <<n + 1, p>> \in R <=> TypeAt(data, p) = t
    BY <1>2, <1>4, IsRecord
<1> HIDE DEF R
<1>7. ASSUME NEW a \in R
      PROVE  a \in Past(R, n, next) <=> a \in Past(R, n, p) \/ a = <<n + 1, p>>
    <2>1. a = <<a[1], a[2]>> /\ a[1] \in Nat /\ a[2] \in Nat
        BY <1>1, <1>7
    <2>2. CASE a[1] # n + 1
        BY <2>1, <2>2 DEF Past
    <2>3. CASE a[1] = n + 1
        <3>1. a[2] <= p \/ a[2] >= next
            BY <1>4, <1>5, <1>7, <2>3
        <3>2. a \in Past(R, n, next) <=> a[2] < next
            BY <1>7, <2>1, <2>3 DEF Past
        <3>3. a \in Past(R, n, p) <=> a[2] < p
            BY <1>7, <2>1, <2>3 DEF Past
        <3>4. a = <<n + 1, p>> <=> a[2] = p
            BY <2>1, <2>3
        <3> QED
            BY <1>3, <2>1, <3>1, <3>2, <3>3, <3>4
    <2> QED
        BY <2>2, <2>3
<1>8. Past(R, n, next) \subseteq R /\ Past(R, n, p) \subseteq R
    BY DEF Past
<1>9. CASE TypeAt(data, p) = t
    <2>1. Past(R, n, next) = Past(R, n, p) \cup {<<n + 1, p>>}
        BY <1>6, <1>7, <1>8, <1>9
    <2> QED
        BY <1>9, <2>1 DEF R
<1>10. CASE TypeAt(data, p) # t
    <2>1. Past(R, n, next) = Past(R, n, p)
        BY <1>6, <1>7, <1>8, <1>10
    <2> QED
        BY <1>10, <2>1 DEF R
<1> QED
    BY <1>9, <1>10

\* Behind the last record of an EIR there is nothing to announce.
LEMMA PastEir ==
    ASSUME NEW r \in Seq(Properties), AllWellFormed(r),
           NEW n \in Nat, n < Len(r), r[n + 1].type = "eir",
           NEW data, data = r[n + 1].data,
           NEW p \in Positions(data), Ends(data, p)
    PROVE  /\ \A t : Past(RecordsOf(r, t), n + 1, 0) = Past(RecordsOf(r, t), n, p)
           /\ \A t : t # "eir" =>
                 Past(PropertiesOf(r, t), n + 1, 0) = Past(PropertiesOf(r, t), n, p)
<1> SUFFICES ASSUME NEW t
             PROVE  /\ Past(RecordsOf(r, t), n + 1, 0) = Past(RecordsOf(r, t), n, p)
                    /\ t # "eir" =>
                          Past(PropertiesOf(r, t), n + 1, 0) = Past(PropertiesOf(r, t), n, p)
    OBVIOUS
<1> DEFINE R == RecordsOf(r, t)
           P == PropertiesOf(r, t)
<1>1. R \subseteq Nat \X Nat /\ P \subseteq Nat \X Nat
    BY AnnouncementsArePairs
<1>2. n + 1 \in Ofs(r, "eir") /\ (t # "eir" => n + 1 \notin Ofs(r, t))
    BY DEF Ofs
<1>3. WellFormed(data)
    BY <1>2 DEF AllWellFormed
<1>4. \A q \in Records(data) : q < p
    BY <1>3, RecordsAround
<1>5. \A a \in R : a[1] = n + 1 => a[2] < p
    BY <1>4, IsRecord
<1>6. t # "eir" => \A a \in P : a[1] # n + 1
    BY <1>2, IsProperty
<1> HIDE DEF R, P
<1>7. Past(R, n + 1, 0) = Past(R, n, p)
    BY <1>1, <1>5 DEF Past
<1>8. t # "eir" => Past(P, n + 1, 0) = Past(P, n, p)
    BY <1>1, <1>6 DEF Past
<1> QED
    BY <1>7, <1>8 DEF R, P

-----------------------------------------------------------------------------
\* The two digits of each byte are read back.
LEMMA HexReadsBack ==
    ASSUME NEW bytes \in Seq(Byte)
    PROVE  IsHexOf(Hex(bytes), bytes)
<1>1. Len(Hex(bytes)) = 2 * Len(bytes)
    BY DEF Hex
<1>2. ASSUME NEW k \in 1..Len(bytes)
      PROVE  16 * HexValue(Hex(bytes)[2 * k - 1]) + HexValue(Hex(bytes)[2 * k]) = bytes[k]
    <2>1. bytes[k] \in Byte
        OBVIOUS
    <2>2. /\ 2 * k - 1 \in 1..(2 * Len(bytes))
          /\ 2 * k \in 1..(2 * Len(bytes))
          /\ (2 * k - 1) % 2 = 1 /\ (2 * k - 1 + 1) \div 2 = k
          /\ (2 * k) % 2 = 0 /\ (2 * k) \div 2 = k
        OBVIOUS
    <2>3. /\ Hex(bytes)[2 * k - 1] = HexDigit(bytes[k] \div 16)
          /\ Hex(bytes)[2 * k] = HexDigit(bytes[k] % 16)
        BY <2>2 DEF Hex
    <2>4. \A d \in 0..15 : HexValue(HexDigit(d)) = d
        BY DEF HexDigit, HexValue
    <2>5. PICK b \in Byte : b = bytes[k]
        BY <2>1
    <2>6. PICK q \in 0..15, r \in 0..15 : q = b \div 16 /\ r = b % 16 /\ b = 16 * q + r
        BY SMT DEF Byte
    <2>7. HexValue(HexDigit(q)) = q /\ HexValue(HexDigit(r)) = r
        BY <2>4
    <2> QED
        BY <2>3, <2>5, <2>6, <2>7
<1> QED
    BY <1>1, <1>2 DEF IsHexOf

\* The bytes of an unsigned integer are read back, by shifting it right.
LEMMA BytesReadBack ==
    ASSUME NEW a \in Byte, NEW b \in Byte, NEW c \in Byte, NEW d \in Byte,
           NEW v, v = a + 256 * b + 65536 * c + 16777216 * d
    PROVE  /\ v \in Nat
           /\ (v \div 256 ^ 0) % 256 = a
           /\ (v \div 256 ^ 1) % 256 = b
           /\ (v \div 256 ^ 2) % 256 = c
           /\ (v \div 256 ^ 3) % 256 = d
<1>1. v \in Nat /\ v % 256 = a /\ v \div 1 = v
    BY SMT DEF Byte
<1>2. v \div 256 = b + 256 * c + 65536 * d
    BY SMT DEF Byte
<1>3. (v \div 256) % 256 = b
    BY <1>2, SMT DEF Byte
<1>4. v \div 65536 = c + 256 * d
    BY SMT DEF Byte
<1>5. (v \div 65536) % 256 = c
    BY <1>4, SMT DEF Byte
<1>6. (v \div 16777216) % 256 = d
    BY SMT DEF Byte
<1>7. 256 ^ 0 = 1 /\ 256 ^ 1 = 256 /\ 256 ^ 2 = 65536 /\ 256 ^ 3 = 16777216
    BY SMT
<1> QED
    BY <1>1, <1>3, <1>5, <1>6, <1>7, SMT

\* So are those of an unsigned integer of two or four bytes in an EIR.
LEMMA LittleEndianReadsBack ==
    ASSUME NEW data, NEW width \in {2, 4}, NEW at,
           data[at + 1] \in Byte, data[at + 2] \in Byte,
           width = 4 => data[at + 3] \in Byte /\ data[at + 4] \in Byte
    PROVE  /\ (LittleEndian(data, at, width) \div 256 ^ 0) % 256 = data[at + 1]
           /\ (LittleEndian(data, at, width) \div 256 ^ 1) % 256 = data[at + 2]
           /\ width = 4 =>
                 /\ (LittleEndian(data, at, width) \div 256 ^ 2) % 256 = data[at + 3]
                 /\ (LittleEndian(data, at, width) \div 256 ^ 3) % 256 = data[at + 4]
<1> DEFINE v == LittleEndian(data, at, width)
<1>1. PICK a \in Byte, b \in Byte : a = data[at + 1] /\ b = data[at + 2]
    OBVIOUS
<1>2. PICK c \in Byte, d \in Byte :
         /\ v = a + 256 * b + 65536 * c + 16777216 * d
         /\ width = 4 => c = data[at + 3] /\ d = data[at + 4]
    <2>1. CASE width = 2
        <3>1. a + 256 * b + 0 = a + 256 * b + 65536 * 0 + 16777216 * 0 /\ 0 \in Byte
            BY SMT DEF Byte
        <3>2. v = a + 256 * b + 0
            BY <1>1, <2>1, SMT DEF LittleEndian
        <3> QED
            BY <2>1, <3>1, <3>2, SMT
    <2>2. CASE width = 4
        <3>1. PICK c \in Byte, d \in Byte : c = data[at + 3] /\ d = data[at + 4]
            BY <2>2
        <3>2. v = a + 256 * b + (65536 * c + 16777216 * d)
            BY <1>1, <2>2, <3>1, SMT DEF LittleEndian
        <3>3. v = a + 256 * b + 65536 * c + 16777216 * d
            <4> HIDE DEF v
            <4> QED
                BY <3>2, SMT DEF Byte
        <3> QED
            BY <3>1, <3>3, SMT
    <2> QED
        BY <2>1, <2>2
<1> HIDE DEF v
<1>3. /\ (v \div 256 ^ 0) % 256 = a
      /\ (v \div 256 ^ 1) % 256 = b
      /\ (v \div 256 ^ 2) % 256 = c
      /\ (v \div 256 ^ 3) % 256 = d
    BY <1>2, BytesReadBack, SMT
<1> QED
    BY <1>1, <1>2, <1>3, SMT DEF v

\* The list that is read of a record that UUIDs fill holds its bytes.
LEMMA UuidsReadBack ==
    ASSUME NEW data \in Seq(Byte), NEW width \in {2, 4}, NEW p \in Nat, NEW n \in Nat,
           n % width = 0, p + 2 + n <= Len(data)
    PROVE  IsListOf(Uuids(data, p + 2, n, width), SubSeq(data, p + 3, p + 2 + n), width)
<1> DEFINE list == Uuids(data, p + 2, n, width)
           content == SubSeq(data, p + 3, p + 2 + n)
<1>1. PICK m \in Nat : m = (n + width - 1) \div width /\ n = width * m
    <2>1. CASE width = 2
        <3>1. (n + 2 - 1) \div 2 \in Nat /\ n = 2 * ((n + 2 - 1) \div 2)
            BY <2>1, SMT
        <3> QED
            BY <2>1, <3>1
    <2>2. CASE width = 4
        <3>1. (n + 4 - 1) \div 4 \in Nat /\ n = 4 * ((n + 4 - 1) \div 4)
            BY <2>2, SMT
        <3> QED
            BY <2>2, <3>1
    <2> QED
        BY <2>1, <2>2
<1>2. Len(content) = n /\ \A k \in 1..n : content[k] = data[p + 2 + k]
    OBVIOUS
<1>3. /\ Len(list) = m
      /\ \A j \in 1..m : list[j] = LittleEndian(data, p + 2 + (j - 1) * width, width)
    BY <1>1 DEF Uuids
<1> HIDE DEF list, content
<1>4. ASSUME NEW k \in 1..n
      PROVE  (list[(k + width - 1) \div width] \div 256 ^ ((k - 1) % width)) % 256 = content[k]
    <2>1. PICK j \in 1..m, s \in 0..(width - 1) :
             /\ j = (k + width - 1) \div width
             /\ s = (k - 1) % width
             /\ k = width * (j - 1) + 1 + s
        <3>1. CASE width = 2
            <4>1. PICK x \in Nat : x = k - 1
                OBVIOUS
            <4>2. PICK q \in Nat, r \in 0..1 : q = x \div 2 /\ r = x % 2 /\ x = 2 * q + r
                BY SMT
            <4>3. (k + 2 - 1) \div 2 = q + 1 /\ q + 1 \in 1..m /\ k = 2 * (q + 1 - 1) + 1 + r
                BY <1>1, <3>1, <4>1, <4>2
            <4> QED
                BY <3>1, <4>1, <4>2, <4>3
        <3>2. CASE width = 4
            <4>1. PICK x \in Nat : x = k - 1
                OBVIOUS
            <4>2. PICK q \in Nat, r \in 0..3 : q = x \div 4 /\ r = x % 4 /\ x = 4 * q + r
                BY SMT
            <4>3. (k + 4 - 1) \div 4 = q + 1 /\ q + 1 \in 1..m /\ k = 4 * (q + 1 - 1) + 1 + r
                BY <1>1, <3>2, <4>1, <4>2
            <4> QED
                BY <3>2, <4>1, <4>2, <4>3
        <3> QED
            BY <3>1, <3>2
    <2>2. PICK at \in Nat : /\ at = p + 2 + (j - 1) * width
                            /\ at + width <= Len(data)
                            /\ p + 2 + k = at + 1 + s
        <3>1. CASE width = 2
            BY <1>1, <2>1, <3>1, SMT
        <3>2. CASE width = 4
            BY <1>1, <2>1, <3>2, SMT
        <3> QED
            BY <3>1, <3>2
    <2>3. list[j] = LittleEndian(data, at, width)
        BY <1>3, <2>2
    <2>4. (list[j] \div 256 ^ s) % 256 = data[at + 1 + s]
        <3>1. /\ data[at + 1] \in Byte
              /\ data[at + 2] \in Byte
              /\ width = 4 => data[at + 3] \in Byte /\ data[at + 4] \in Byte
            BY <2>2
        <3>2. /\ (list[j] \div 256 ^ 0) % 256 = data[at + 1]
              /\ (list[j] \div 256 ^ 1) % 256 = data[at + 2]
              /\ width = 4 => /\ (list[j] \div 256 ^ 2) % 256 = data[at + 3]
                              /\ (list[j] \div 256 ^ 3) % 256 = data[at + 4]
            <4>1. ASSUME NEW v, v = LittleEndian(data, at, width)
                  PROVE  /\ (v \div 256 ^ 0) % 256 = data[at + 1]
                         /\ (v \div 256 ^ 1) % 256 = data[at + 2]
                         /\ width = 4 => /\ (v \div 256 ^ 2) % 256 = data[at + 3]
                                         /\ (v \div 256 ^ 3) % 256 = data[at + 4]
                BY <3>1, <4>1, LittleEndianReadsBack, SMTT(30)
            <4> QED
                BY <2>3, <4>1, SMT
        <3>3. at + 1 + 0 = at + 1 /\ at + 1 + 1 = at + 2 /\ at + 1 + 2 = at + 3 /\ at + 1 + 3 = at + 4
            OBVIOUS
        <3>4. s = 0 \/ s = 1 \/ (width = 4 /\ (s = 2 \/ s = 3))
            OBVIOUS
        <3>5. CASE s = 0
            BY <3>2, <3>3, <3>5
        <3>6. CASE s = 1
            BY <3>2, <3>3, <3>6
        <3>7. CASE width = 4 /\ s = 2
            BY <3>2, <3>3, <3>7
        <3>8. CASE width = 4 /\ s = 3
            BY <3>2, <3>3, <3>8
        <3> QED
            BY <3>4, <3>5, <3>6, <3>7, <3>8
    <2>5. (list[j] \div 256 ^ s) % 256 = content[k]
        BY <1>2, <2>2, <2>4
    <2> QED
        BY <2>1, <2>5
<1>5. Len(list) * width = Len(content)
    <2>1. CASE width = 2
        BY <1>1, <1>2, <1>3, <2>1
    <2>2. CASE width = 4
        BY <1>1, <1>2, <1>3, <2>2
    <2> QED
        BY <2>1, <2>2
<1> QED
    BY <1>2, <1>4, <1>5 DEF IsListOf, list, content

\* Display takes the major class and each service from their bits.
LEMMA MajorFromBits ==
    ASSUME NEW value \in Nat
    PROVE  MajorDeviceClass(value) = Bit(value, 8) + 2 * Bit(value, 9) + 4 * Bit(value, 10)
                                        + 8 * Bit(value, 11) + 16 * Bit(value, 12)
<1>1. /\ 2 ^ 8 = 256 /\ 2 ^ 9 = 512 /\ 2 ^ 10 = 1024
      /\ 2 ^ 11 = 2048 /\ 2 ^ 12 = 4096
    BY SMT
<1>2. PICK w \in Nat : w = value \div 256
    BY SMT
<1>3. PICK w1 \in Nat, b0 \in 0..1 : w1 = w \div 2 /\ b0 = w % 2 /\ w = 2 * w1 + b0
    BY SMT
<1>4. PICK w2 \in Nat, b1 \in 0..1 : w2 = w1 \div 2 /\ b1 = w1 % 2 /\ w1 = 2 * w2 + b1
    BY SMT
<1>5. PICK w3 \in Nat, b2 \in 0..1 : w3 = w2 \div 2 /\ b2 = w2 % 2 /\ w2 = 2 * w3 + b2
    BY SMT
<1>6. PICK w4 \in Nat, b3 \in 0..1 : w4 = w3 \div 2 /\ b3 = w3 % 2 /\ w3 = 2 * w4 + b3
    BY SMT
<1>7. PICK w5 \in Nat, b4 \in 0..1 : w5 = w4 \div 2 /\ b4 = w4 % 2 /\ w4 = 2 * w5 + b4
    BY SMT
<1>8. /\ value \div 512 = w1 /\ value \div 1024 = w2
      /\ value \div 2048 = w3 /\ value \div 4096 = w4
    <2>1. value \div 512 = (value \div 256) \div 2
        BY SMT
    <2>2. value \div 1024 = (value \div 512) \div 2
        BY SMT
    <2>3. value \div 2048 = (value \div 1024) \div 2
        BY SMT
    <2>4. value \div 4096 = (value \div 2048) \div 2
        BY SMT
    <2> QED
        BY <1>2, <1>3, <1>4, <1>5, <1>6, <2>1, <2>2, <2>3, <2>4, SMT
<1>9. /\ Bit(value, 8) = b0 /\ Bit(value, 9) = b1 /\ Bit(value, 10) = b2
      /\ Bit(value, 11) = b3 /\ Bit(value, 12) = b4
    <2>1. Bit(value, 8) = b0
        BY <1>1, <1>2, <1>3, SMTT(60) DEF Bit
    <2>2. Bit(value, 9) = b1
        BY <1>1, <1>4, <1>8, SMTT(60) DEF Bit
    <2>3. Bit(value, 10) = b2
        BY <1>1, <1>5, <1>8, SMTT(60) DEF Bit
    <2>4. Bit(value, 11) = b3
        BY <1>1, <1>6, <1>8, SMTT(60) DEF Bit
    <2>5. Bit(value, 12) = b4
        BY <1>1, <1>7, <1>8, SMTT(60) DEF Bit
    <2> QED
        BY <2>1, <2>2, <2>3, <2>4, <2>5
<1>10. (w % 256) % 32 = b0 + 2 * b1 + 4 * b2 + 8 * b3 + 16 * b4
    <2>1. PICK q \in Nat, v \in 0..255 : v = w % 256 /\ w = 256 * q + v
        BY SMT
    <2>2. w = 32 * w5 + (b0 + 2 * b1 + 4 * b2 + 8 * b3 + 16 * b4)
        <3>1. /\ w = 2 * w1 + b0 /\ w1 = 2 * w2 + b1 /\ w2 = 2 * w3 + b2
              /\ w3 = 2 * w4 + b3 /\ w4 = 2 * w5 + b4
            BY <1>3, <1>4, <1>5, <1>6, <1>7, Zenon
        <3> QED
            BY <3>1, SMT
    <2>3. (b0 + 2 * b1 + 4 * b2 + 8 * b3 + 16 * b4) \in 0..31
        BY SMT
    <2>4. v % 32 = w % 32
        BY <2>1, SMT
    <2> QED
        BY <2>1, <2>2, <2>3, <2>4, SMT
<1> QED
    BY <1>2, <1>9, <1>10 DEF MajorDeviceClass

\* The mask of the minor class passes every bit of it but bit 3.
LEMMA MinorFromBits ==
    ASSUME NEW value \in Nat
    PROVE  MinorDeviceClass(value) + 2 * Bit(value, 3) = (value \div 4) % 64
<1>1. PICK a \in Nat, v \in 0..255 : v = value % 256 /\ value = 256 * a + v
    BY SMT
<1>2. PICK b \in 0..15, l \in 0..15 : b = v \div 16 /\ v = 16 * b + l
    BY SMT
<1>3. PICK c3 \in 0..1, c2 \in 0..1, r \in 0..3 : l = 8 * c3 + 4 * c2 + r
    <2>1. \E c3 \in 0..1, m \in 0..7 : l = 8 * c3 + m
        <3>1. CASE l < 8
            BY <3>1, SMT
        <3>2. CASE l >= 8
            <4>1. l - 8 \in 0..7 /\ l = 8 * 1 + (l - 8)
                BY <3>2, SMT
            <4> QED
                BY <4>1
        <3> QED
            BY <3>1, <3>2, SMT
    <2>2. PICK c3 \in 0..1, m \in 0..7 : l = 8 * c3 + m
        BY <2>1
    <2>3. \E c2 \in 0..1, r \in 0..3 : m = 4 * c2 + r
        <3>1. CASE m < 4
            BY <3>1, SMT
        <3>2. CASE m >= 4
            <4>1. m - 4 \in 0..3 /\ m = 4 * 1 + (m - 4)
                BY <3>2, SMT
            <4> QED
                BY <4>1
        <3> QED
            BY <3>1, <3>2, SMT
    <2> QED
        BY <2>2, <2>3, SMT
<1>4. value \div 4 = 64 * a + (4 * b + 2 * c3 + c2)
    BY <1>1, <1>2, <1>3, SMT
<1>5. (value \div 4) % 64 = 4 * b + 2 * c3 + c2
    <2>1. 4 * b + 2 * c3 + c2 \in 0..63
        BY SMT
    <2> QED
        BY <1>4, <2>1, SMT
<1>6. (value \div 4) % 2 = c2
    <2>1. value \div 4 = 2 * (32 * a + 2 * b + c3) + c2
        BY <1>4, SMT
    <2> QED
        BY <2>1, SMT
<1>7. Bit(value, 3) = c3
    <2>1. 2 ^ 3 = 8
        BY SMT
    <2>2. value \div 8 = 2 * (16 * a + b) + c3
        BY <1>1, <1>2, <1>3, SMT
    <2> QED
        BY <2>1, <2>2, SMT DEF Bit
<1>8. MinorDeviceClass(value) = 4 * b + c2
    BY <1>1, <1>2, <1>6 DEF MinorDeviceClass
<1> QED
    BY <1>5, <1>7, <1>8, SMT

LEMMA ServicesFromBits ==
    ASSUME NEW value \in Nat, NEW b \in 0..10
    PROVE  Bit(ServiceClasses(value), b) = Bit(value, b + 13)
<1>1. ServiceClasses(value) = ((value \div 8192) % 65536) % 2048
    BY DEF ServiceClasses
<1> DEFINE w == ((value \div 8192) % 65536) % 2048
<1>2. CASE b = 0
    <2>1. (w \div 1) % 2 = (value \div 8192) % 2
        BY SMT
    <2>2. 2 ^ b = 1 /\ 2 ^ (b + 13) = 8192
        BY <1>2, SMT
    <2> QED
        BY <1>1, <2>1, <2>2, SMT DEF Bit
<1>3. CASE b = 1
    <2>1. (w \div 2) % 2 = (value \div 16384) % 2
        BY SMT
    <2>2. 2 ^ b = 2 /\ 2 ^ (b + 13) = 16384
        BY <1>3, SMT
    <2> QED
        BY <1>1, <2>1, <2>2, SMT DEF Bit
<1>4. CASE b = 2
    <2>1. (w \div 4) % 2 = (value \div 32768) % 2
        BY SMT
    <2>2. 2 ^ b = 4 /\ 2 ^ (b + 13) = 32768
        BY <1>4, SMT
    <2> QED
        BY <1>1, <2>1, <2>2, SMT DEF Bit
<1>5. CASE b = 3
    <2>1. (w \div 8) % 2 = (value \div 65536) % 2
        BY SMT
    <2>2. 2 ^ b = 8 /\ 2 ^ (b + 13) = 65536
        BY <1>5, SMT
    <2> QED
        BY <1>1, <2>1, <2>2, SMT DEF Bit
<1>6. CASE b = 4
    <2>1. (w \div 16) % 2 = (value \div 131072) % 2
        BY SMT
    <2>2. 2 ^ b = 16 /\ 2 ^ (b + 13) = 131072
        BY <1>6, SMT
    <2> QED
        BY <1>1, <2>1, <2>2, SMT DEF Bit
<1>7. CASE b = 5
    <2>1. (w \div 32) % 2 = (value \div 262144) % 2
        BY SMT
    <2>2. 2 ^ b = 32 /\ 2 ^ (b + 13) = 262144
        BY <1>7, SMT
    <2> QED
        BY <1>1, <2>1, <2>2, SMT DEF Bit
<1>8. CASE b = 6
    <2>1. (w \div 64) % 2 = (value \div 524288) % 2
        BY SMT
    <2>2. 2 ^ b = 64 /\ 2 ^ (b + 13) = 524288
        BY <1>8, SMT
    <2> QED
        BY <1>1, <2>1, <2>2, SMT DEF Bit
<1>9. CASE b = 7
    <2>1. (w \div 128) % 2 = (value \div 1048576) % 2
        BY SMT
    <2>2. 2 ^ b = 128 /\ 2 ^ (b + 13) = 1048576
        BY <1>9, SMT
    <2> QED
        BY <1>1, <2>1, <2>2, SMT DEF Bit
<1>10. CASE b = 8
    <2>1. (w \div 256) % 2 = (value \div 2097152) % 2
        BY SMT
    <2>2. 2 ^ b = 256 /\ 2 ^ (b + 13) = 2097152
        BY <1>10, SMT
    <2> QED
        BY <1>1, <2>1, <2>2, SMT DEF Bit
<1>11. CASE b = 9
    <2>1. (w \div 512) % 2 = (value \div 4194304) % 2
        BY SMT
    <2>2. 2 ^ b = 512 /\ 2 ^ (b + 13) = 4194304
        BY <1>11, SMT
    <2> QED
        BY <1>1, <2>1, <2>2, SMT DEF Bit
<1>12. CASE b = 10
    <2>1. (w \div 1024) % 2 = (value \div 8388608) % 2
        BY SMT
    <2>2. 2 ^ b = 1024 /\ 2 ^ (b + 13) = 8388608
        BY <1>12, SMT
    <2> QED
        BY <1>1, <2>1, <2>2, SMT DEF Bit
<1> QED
    BY <1>2, <1>3, <1>4, <1>5, <1>6, <1>7, <1>8, <1>9, <1>10, <1>11, <1>12

-----------------------------------------------------------------------------
\* The names that are past are the records and properties that are.
LEMMA PastNames ==
    ASSUME NEW r, NEW n, NEW p
    PROVE  Past(NamesOf(r), n, p) =
              {a \in Past(RecordsOf(r, 9), n, p) : Content(r, a) \in Utf8}
                 \cup Past(PropertiesOf(r, "bdname"), n, p)
BY DEF Past, NamesOf

LEMMA SameNames ==
    ASSUME NEW r, NEW n, NEW p, NEW m, NEW q,
           Past(RecordsOf(r, 9), n, p) = Past(RecordsOf(r, 9), m, q),
           Past(PropertiesOf(r, "bdname"), n, p) = Past(PropertiesOf(r, "bdname"), m, q)
    PROVE  Past(NamesOf(r), n, p) = Past(NamesOf(r), m, q)
<1> DEFINE names(R, P) == {a \in R : Content(r, a) \in Utf8} \cup P
<1>1. /\ Past(NamesOf(r), n, p)
             = names(Past(RecordsOf(r, 9), n, p), Past(PropertiesOf(r, "bdname"), n, p))
      /\ Past(NamesOf(r), m, q)
             = names(Past(RecordsOf(r, 9), m, q), Past(PropertiesOf(r, "bdname"), m, q))
    BY PastNames
<1> HIDE DEF names
<1> QED
    BY <1>1

\* An announcement at p of property n + 1 comes behind all that are past it.
LEMMA LastOfPast ==
    ASSUME NEW A \in SUBSET (Nat \X Nat), NEW n \in Nat, NEW p \in Nat
    PROVE  LastOf(Past(A, n, p) \cup {<<n + 1, p>>}) = <<n + 1, p>>
<1> DEFINE C == Past(A, n, p) \cup {<<n + 1, p>>}
<1>1. C \in SUBSET (Nat \X Nat) /\ <<n + 1, p>> \in C
    BY DEF Past
<1>2. \A a \in C : Before(a, <<n + 1, p>>)
    BY DEF Past, Before
<1> HIDE DEF C
<1>3. LastOf(C) = <<n + 1, p>>
    BY <1>1, <1>2, LastIs
<1> QED
    BY <1>3 DEF C

\* A property that is added is described by what it is stored as.
LEMMA DescribesProperty ==
    ASSUME NEW r \in Seq(Properties), AllWellFormed(r),
           NEW n \in Nat, n < Len(r), r[n + 1].type # "eir",
           NEW d, Describes(d, r, n, 0),
           NEW e,
           r[n + 1].type = "bdname" => With(e, d, "name", Some(Hex(r[n + 1].data))),
           r[n + 1].type = "cod" => With(e, d, "class", Some(r[n + 1].value)),
           r[n + 1].type = "rssi" => With(e, d, "rssi", Some(r[n + 1].value))
    PROVE  Describes(e, r, n + 1, 0)
<1> DEFINE m == <<n + 1, 0>>
           type == r[n + 1].type
<1>1. \A t : Past(RecordsOf(r, t), n + 1, 0) = Past(RecordsOf(r, t), n, 0)
    BY PastProperty
<1>2. \A t : Past(PropertiesOf(r, t), n + 1, 0) =
                Past(PropertiesOf(r, t), n, 0) \cup IF type = t THEN {m} ELSE {}
    BY PastProperty
<1>3. \A t : LastOf(Past(PropertiesOf(r, t), n, 0) \cup {m}) = m
    <2> TAKE t
    <2>1. PropertiesOf(r, t) \in SUBSET (Nat \X Nat)
        BY AnnouncementsArePairs
    <2> QED
        BY <2>1, LastOfPast
<1>4. LastOf({a \in Past(RecordsOf(r, 9), n, 0) : Content(r, a) \in Utf8}
                \cup Past(PropertiesOf(r, "bdname"), n, 0) \cup {m}) = m
    <2>1. NamesOf(r) \in SUBSET (Nat \X Nat)
        BY AnnouncementsArePairs DEF NamesOf
    <2>3. LastOf(Past(NamesOf(r), n, 0) \cup {m}) = m
        BY <2>1, LastOfPast
    <2>4. Past(NamesOf(r), n, 0) =
             {a \in Past(RecordsOf(r, 9), n, 0) : Content(r, a) \in Utf8}
                \cup Past(PropertiesOf(r, "bdname"), n, 0)
        BY PastNames
    <2> QED
        BY <2>3, <2>4, Zenon
<1>5. m[1] = n + 1
    OBVIOUS
<1>6. type \in {"bdname", "cod", "rssi"} /\ (type = "bdname" => r[n + 1].data \in Seq(Byte))
    <2>1. r[n + 1] \in Properties
        OBVIOUS
    <2> QED
        BY <2>1 DEF Properties
<1> HIDE DEF m, type
<1>8. CASE type = "bdname"
    <2>1. With(e, d, "name", Some(Hex(r[n + 1].data)))
        BY <1>8 DEF type
    <2>2. /\ e.name = Some(Hex(r[n + 1].data))
          /\ e.uuids16 = d.uuids16 /\ e.uuids32 = d.uuids32
          /\ e.class = d.class /\ e.rssi = d.rssi
        BY <2>1 DEF With, Fields
    <2>3. /\ Past(PropertiesOf(r, "cod"), n + 1, 0) = Past(PropertiesOf(r, "cod"), n, 0)
          /\ Past(PropertiesOf(r, "rssi"), n + 1, 0) = Past(PropertiesOf(r, "rssi"), n, 0)
        BY <1>2, <1>8
    <2>4. Past(NamesOf(r), n + 1, 0) =
             {a \in Past(RecordsOf(r, 9), n, 0) : Content(r, a) \in Utf8}
                \cup Past(PropertiesOf(r, "bdname"), n, 0) \cup {m}
        BY <1>1, <1>2, <1>8, PastNames
    <2>5. /\ Past(NamesOf(r), n + 1, 0) # {}
          /\ LastOf(Past(NamesOf(r), n + 1, 0)) = m
        BY <1>4, <2>4
    <2>6. IsHexOf(e.name[1], r[n + 1].data) /\ e.name # None
        BY <1>6, <1>8, <2>2, HexReadsBack DEF Some, None
    <2>7. NameAsAnnounced(r, e.name, Past(NamesOf(r), n + 1, 0))
        BY <1>5, <1>8, <2>5, <2>6 DEF NameAsAnnounced, type
    <2> QED
        BY <1>1, <2>2, <2>3, <2>7 DEF Describes
<1>9. CASE type = "cod"
    <2>1. With(e, d, "class", Some(r[n + 1].value))
        BY <1>9 DEF type
    <2>2. /\ e.class = Some(r[n + 1].value)
          /\ e.uuids16 = d.uuids16 /\ e.uuids32 = d.uuids32
          /\ e.name = d.name /\ e.rssi = d.rssi
        BY <2>1 DEF With, Fields
    <2>3. /\ Past(PropertiesOf(r, "bdname"), n + 1, 0) = Past(PropertiesOf(r, "bdname"), n, 0)
          /\ Past(PropertiesOf(r, "rssi"), n + 1, 0) = Past(PropertiesOf(r, "rssi"), n, 0)
        BY <1>2, <1>9
    <2>4. Past(NamesOf(r), n + 1, 0) = Past(NamesOf(r), n, 0)
        BY <1>1, <2>3, SameNames
    <2>5. /\ Past(PropertiesOf(r, "cod"), n + 1, 0) # {}
          /\ LastOf(Past(PropertiesOf(r, "cod"), n + 1, 0)) = m
        BY <1>2, <1>3, <1>9
    <2>6. ValueAsAnnounced(r, e.class, Past(PropertiesOf(r, "cod"), n + 1, 0))
        BY <1>5, <2>2, <2>5 DEF ValueAsAnnounced
    <2> QED
        BY <1>1, <2>2, <2>3, <2>4, <2>6 DEF Describes
<1>10. CASE type = "rssi"
    <2>1. With(e, d, "rssi", Some(r[n + 1].value))
        BY <1>10 DEF type
    <2>2. /\ e.rssi = Some(r[n + 1].value)
          /\ e.uuids16 = d.uuids16 /\ e.uuids32 = d.uuids32
          /\ e.name = d.name /\ e.class = d.class
        BY <2>1 DEF With, Fields
    <2>3. /\ Past(PropertiesOf(r, "bdname"), n + 1, 0) = Past(PropertiesOf(r, "bdname"), n, 0)
          /\ Past(PropertiesOf(r, "cod"), n + 1, 0) = Past(PropertiesOf(r, "cod"), n, 0)
        BY <1>2, <1>10
    <2>4. Past(NamesOf(r), n + 1, 0) = Past(NamesOf(r), n, 0)
        BY <1>1, <2>3, SameNames
    <2>5. /\ Past(PropertiesOf(r, "rssi"), n + 1, 0) # {}
          /\ LastOf(Past(PropertiesOf(r, "rssi"), n + 1, 0)) = m
        BY <1>2, <1>3, <1>10
    <2>6. ValueAsAnnounced(r, e.rssi, Past(PropertiesOf(r, "rssi"), n + 1, 0))
        BY <1>5, <2>2, <2>5 DEF ValueAsAnnounced
    <2> QED
        BY <1>1, <2>2, <2>3, <2>4, <2>6 DEF Describes
<1> QED
    BY <1>6, <1>8, <1>9, <1>10

\* A record that is read is described by what it is stored as: e is d with
\* the content of the record, as the list x or the name, in its field.
Stores(e, d, x, type, content) ==
    /\ type = 3 => IsListOf(x, content, 2) /\ With(e, d, "uuids16", Some(x))
    /\ type = 5 => IsListOf(x, content, 4) /\ With(e, d, "uuids32", Some(x))
    /\ type = 9 => IF content \in Utf8 THEN With(e, d, "name", Some(content)) ELSE e = d
    /\ type \notin {3, 5, 9} => e = d

LEMMA DescribesRecord ==
    ASSUME NEW r \in Seq(Properties), AllWellFormed(r),
           NEW n \in Nat, n < Len(r), r[n + 1].type = "eir",
           NEW data, data = r[n + 1].data,
           NEW p \in Positions(data), ~Ends(data, p),
           NEW next, next = Behind(data, p), next \in Nat, next > p
    PROVE  \A d, e, x :
              /\ Describes(d, r, n, p)
              /\ Stores(e, d, x, TypeAt(data, p), Content(r, <<n + 1, p>>))
              => Describes(e, r, n, next)
<1> DEFINE m == <<n + 1, p>>
           type == TypeAt(data, p)
<1>1. \A t : /\ type = t => Past(RecordsOf(r, t), n, next) = Past(RecordsOf(r, t), n, p) \cup {m}
             /\ type # t => Past(RecordsOf(r, t), n, next) = Past(RecordsOf(r, t), n, p)
    BY PastRecord
<1>2. /\ Past(PropertiesOf(r, "bdname"), n, next) = Past(PropertiesOf(r, "bdname"), n, p)
      /\ Past(PropertiesOf(r, "cod"), n, next) = Past(PropertiesOf(r, "cod"), n, p)
      /\ Past(PropertiesOf(r, "rssi"), n, next) = Past(PropertiesOf(r, "rssi"), n, p)
    BY NoPropertyInEir
<1>3. p \in Nat
    <2>1. WellFormed(data)
        BY DEF AllWellFormed, Ofs
    <2> QED
        BY <2>1, PositionsChain
<1>4. \A t : LastOf(Past(RecordsOf(r, t), n, p) \cup {m}) = m
    <2> TAKE t
    <2>1. RecordsOf(r, t) \in SUBSET (Nat \X Nat)
        BY AnnouncementsArePairs
    <2> QED
        BY <1>3, <2>1, LastOfPast
<1>5. LastOf(Past(NamesOf(r), n, p) \cup {m}) = m
    <2>1. NamesOf(r) \in SUBSET (Nat \X Nat)
        BY AnnouncementsArePairs DEF NamesOf
    <2> QED
        BY <1>3, <2>1, LastOfPast
<1>6. r[m[1]].type = "eir"
    OBVIOUS
<1>8. ASSUME type # 9 PROVE Past(NamesOf(r), n, next) = Past(NamesOf(r), n, p)
    BY <1>1, <1>2, <1>8, SameNames
<1> DEFINE content == Content(r, m)
<1>7. SUFFICES ASSUME NEW d, NEW e, NEW x,
                      Describes(d, r, n, p),
                      Stores(e, d, x, type, content)
               PROVE  Describes(e, r, n, next)
    OBVIOUS
<1> HIDE DEF m, type, content
<1>9. CASE type = 3
    <2>1. IsListOf(x, content, 2) /\ With(e, d, "uuids16", Some(x))
        BY <1>7, <1>9 DEF Stores
    <2>2. /\ e.uuids16 = Some(x)
          /\ e.name = d.name /\ e.uuids32 = d.uuids32
          /\ e.class = d.class /\ e.rssi = d.rssi
        BY <2>1 DEF With, Fields
    <2>3. /\ Past(RecordsOf(r, 3), n, next) # {}
          /\ LastOf(Past(RecordsOf(r, 3), n, next)) = m
          /\ Past(RecordsOf(r, 5), n, next) = Past(RecordsOf(r, 5), n, p)
        <3>1. type = 3 /\ type # 5
            BY <1>9
        <3>2. /\ Past(RecordsOf(r, 3), n, next) = Past(RecordsOf(r, 3), n, p) \cup {m}
              /\ Past(RecordsOf(r, 5), n, next) = Past(RecordsOf(r, 5), n, p)
            BY <1>1, <3>1, Zenon
        <3>3. LastOf(Past(RecordsOf(r, 3), n, p) \cup {m}) = m
            BY <1>4
        <3> QED
            BY <3>2, <3>3
    <2>4. ListAsAnnounced(r, e.uuids16, Past(RecordsOf(r, 3), n, next), 2)
        <3>1. e.uuids16 # None /\ e.uuids16[1] = x
            BY <2>2 DEF Some, None
        <3> QED
            BY <2>1, <2>3, <3>1 DEF ListAsAnnounced, content
    <2> QED
        BY <1>2, <1>7, <1>8, <1>9, <2>2, <2>3, <2>4 DEF Describes
<1>10. CASE type = 5
    <2>1. IsListOf(x, content, 4) /\ With(e, d, "uuids32", Some(x))
        BY <1>7, <1>10 DEF Stores
    <2>2. /\ e.uuids32 = Some(x)
          /\ e.name = d.name /\ e.uuids16 = d.uuids16
          /\ e.class = d.class /\ e.rssi = d.rssi
        BY <2>1 DEF With, Fields
    <2>3. /\ Past(RecordsOf(r, 5), n, next) # {}
          /\ LastOf(Past(RecordsOf(r, 5), n, next)) = m
          /\ Past(RecordsOf(r, 3), n, next) = Past(RecordsOf(r, 3), n, p)
        <3>1. type = 5 /\ type # 3
            BY <1>10
        <3>2. /\ Past(RecordsOf(r, 5), n, next) = Past(RecordsOf(r, 5), n, p) \cup {m}
              /\ Past(RecordsOf(r, 3), n, next) = Past(RecordsOf(r, 3), n, p)
            BY <1>1, <3>1, Zenon
        <3>3. LastOf(Past(RecordsOf(r, 5), n, p) \cup {m}) = m
            BY <1>4
        <3> QED
            BY <3>2, <3>3
    <2>4. ListAsAnnounced(r, e.uuids32, Past(RecordsOf(r, 5), n, next), 4)
        <3>1. e.uuids32 # None /\ e.uuids32[1] = x
            BY <2>2 DEF Some, None
        <3> QED
            BY <2>1, <2>3, <3>1 DEF ListAsAnnounced, content
    <2> QED
        BY <1>2, <1>7, <1>8, <1>10, <2>2, <2>3, <2>4 DEF Describes
<1>11. CASE type = 9
    <2>1. /\ Past(RecordsOf(r, 3), n, next) = Past(RecordsOf(r, 3), n, p)
          /\ Past(RecordsOf(r, 5), n, next) = Past(RecordsOf(r, 5), n, p)
          /\ Past(RecordsOf(r, 9), n, next) = Past(RecordsOf(r, 9), n, p) \cup {m}
        BY <1>1, <1>11
    <2>2. IF content \in Utf8 THEN With(e, d, "name", Some(content)) ELSE e = d
        BY <1>7, <1>11 DEF Stores
    <2>3. /\ e.uuids16 = d.uuids16 /\ e.uuids32 = d.uuids32
          /\ e.class = d.class /\ e.rssi = d.rssi
        BY <2>2 DEF With, Fields
    <2>4. NameAsAnnounced(r, e.name, Past(NamesOf(r), n, next))
        <3>3. /\ Content(r, m) \in Utf8 =>
                    Past(NamesOf(r), n, next) = Past(NamesOf(r), n, p) \cup {m}
              /\ Content(r, m) \notin Utf8 => Past(NamesOf(r), n, next) = Past(NamesOf(r), n, p)
            <4>1. \A a : /\ a \in Past(NamesOf(r), n, next) <=>
                               \/ a \in Past(RecordsOf(r, 9), n, next) /\ Content(r, a) \in Utf8
                               \/ a \in Past(PropertiesOf(r, "bdname"), n, next)
                         /\ a \in Past(NamesOf(r), n, p) <=>
                               \/ a \in Past(RecordsOf(r, 9), n, p) /\ Content(r, a) \in Utf8
                               \/ a \in Past(PropertiesOf(r, "bdname"), n, p)
                BY DEF Past, NamesOf
            <4> QED
                BY <1>2, <2>1, <4>1
        <3>1. CASE content \in Utf8
            <4>1. Past(NamesOf(r), n, next) = Past(NamesOf(r), n, p) \cup {m}
                BY <3>1, <3>3 DEF content
            <4>2. /\ Past(NamesOf(r), n, next) # {}
                  /\ LastOf(Past(NamesOf(r), n, next)) = m
                BY <1>5, <4>1
            <4>3. e.name = Some(content)
                BY <2>2, <3>1 DEF With, Fields
            <4> QED
                BY <1>6, <4>2, <4>3 DEF NameAsAnnounced, content
        <3>2. CASE content \notin Utf8
            <4>1. Past(NamesOf(r), n, next) = Past(NamesOf(r), n, p)
                BY <3>2, <3>3 DEF content
            <4>2. e.name = d.name
                BY <2>2, <3>2
            <4> QED
                BY <1>7, <4>1, <4>2 DEF Describes
        <3> QED
            BY <3>1, <3>2
    <2> QED
        BY <1>2, <1>7, <2>1, <2>3, <2>4 DEF Describes
<1>12. CASE type \notin {3, 5, 9}
    <2>1. e = d
        BY <1>7, <1>12 DEF Stores
    <2>2. /\ Past(RecordsOf(r, 3), n, next) = Past(RecordsOf(r, 3), n, p)
          /\ Past(RecordsOf(r, 5), n, next) = Past(RecordsOf(r, 5), n, p)
        BY <1>1, <1>12
    <2> QED
        BY <1>2, <1>7, <1>8, <1>12, <2>1, <2>2 DEF Describes
<1> QED
    BY <1>9, <1>10, <1>11, <1>12

\* At the end of an EIR there is nothing more to describe.
LEMMA DescribesEir ==
    ASSUME NEW r \in Seq(Properties), AllWellFormed(r),
           NEW n \in Nat, n < Len(r), r[n + 1].type = "eir",
           NEW data, data = r[n + 1].data,
           NEW p \in Positions(data), Ends(data, p),
           NEW d, Describes(d, r, n, p)
    PROVE  Describes(d, r, n + 1, 0)
<1>1. /\ Past(RecordsOf(r, 3), n + 1, 0) = Past(RecordsOf(r, 3), n, p)
      /\ Past(RecordsOf(r, 5), n + 1, 0) = Past(RecordsOf(r, 5), n, p)
      /\ Past(RecordsOf(r, 9), n + 1, 0) = Past(RecordsOf(r, 9), n, p)
    BY PastEir
<1>2. /\ Past(PropertiesOf(r, "bdname"), n + 1, 0) = Past(PropertiesOf(r, "bdname"), n, p)
      /\ Past(PropertiesOf(r, "cod"), n + 1, 0) = Past(PropertiesOf(r, "cod"), n, p)
      /\ Past(PropertiesOf(r, "rssi"), n + 1, 0) = Past(PropertiesOf(r, "rssi"), n, p)
    BY PastEir
<1>3. Past(NamesOf(r), n + 1, 0) = Past(NamesOf(r), n, p)
    BY <1>1, <1>2, SameNames
<1> QED
    BY <1>1, <1>2, <1>3 DEF Describes

\* Nothing is announced before the first property, nor described by a device
\* of which nothing is known.
LEMMA DescribesNothing ==
    ASSUME NEW r \in Seq(Properties), AllWellFormed(r), NEW d,
           \A f \in Fields : d[f] = None
    PROVE  Describes(d, r, 0, 0)
<1>1. \A A \in SUBSET (Nat \X Nat) : (\A a \in A : a[1] \in Nat \ {0}) => Past(A, 0, 0) = {}
    BY DEF Past
<1>2. \A t : /\ RecordsOf(r, t) \in SUBSET (Nat \X Nat)
             /\ PropertiesOf(r, t) \in SUBSET (Nat \X Nat)
    BY AnnouncementsArePairs
<1>3. \A t : /\ \A a \in RecordsOf(r, t) : a[1] \in Nat \ {0}
             /\ \A a \in PropertiesOf(r, t) : a[1] \in Nat \ {0}
    BY IsRecord, IsProperty DEF Ofs
<1>4. \A t : Past(RecordsOf(r, t), 0, 0) = {} /\ Past(PropertiesOf(r, t), 0, 0) = {}
    BY <1>1, <1>2, <1>3
<1>5. Past(NamesOf(r), 0, 0) = {}
    BY <1>4, PastNames
<1> QED
    BY <1>4, <1>5 DEF Describes, ListAsAnnounced, NameAsAnnounced, ValueAsAnnounced, Fields
=============================================================================
