---------------------------- MODULE MCScannedDevice ----------------------------
(***************************************************************************)
(* The results ScannedDevice is checked with: every short EIR over the     *)
(* types that are read, one that is passed over and short lengths, some    *)
(* that begin with a list or a name, and mixed results.                    *)
(***************************************************************************)
EXTENDS ScannedDevice

CONSTANTS EirLength,   \* the longest of the EIRs all of which are tried
          Classes      \* the classes of device, among them a wrong major

Bytes == {0, 2, 3, 5, 9}
Eir(data) == [type |-> "eir", data |-> data]
Name == [type |-> "bdname", data |-> <<75, 16>>]
Rssi == [type |-> "rssi", value |-> -60]
Class(value) == [type |-> "cod", value |-> value]

Strings(S, n) == UNION {[1..k -> S] : k \in 0..n}

\* Lists and names that only a longer EIR has room for: a list of one UUID of
\* 32 bits, two of 16, a name that is not UTF-8.
Beginnings == {<<5, 5>>, <<3, 3, 9, 9>>, <<5, 3, 9, 2>>, <<3, 9, 200, 65>>}

Padded == <<2, 1, 6, 3, 3, 13, 17, 3, 9, 66, 97, 0, 0>>

MCReports ==
    {<<Eir(data)>> : data \in Strings(Bytes, EirLength)}
    \cup {<<Eir(b \o data)>> : b \in Beginnings, data \in Strings(Bytes, 4)}
    \cup {<<Name, Eir(data)>> : data \in Strings(Bytes, 3)}
    \cup {<<Eir(data), Name>> : data \in Strings(Bytes, 3)}
    \cup {<<Eir(<<3, 3, 13, 17>>), Eir(data)>> : data \in Strings(Bytes, 4)}
    \cup {<<Name, Class(value), Rssi, Eir(Padded)>> : value \in Classes}

MCUtf8 == Seq(0..127)

\* Every EIR has exactly one cut.
ASSUME OneCut ==
    \A r \in MCReports : \A k \in Ofs(r, "eir") :
        Cardinality({S \in SUBSET (0..Len(r[k].data)) : Cut(r[k].data, S)}) = 1
=============================================================================
