-------------------------- MODULE MCProtocolAnalyzer --------------------------
(***************************************************************************)
(* The protocol analyzer with the formats that the driver registers, and   *)
(* the bit fields of the formats that the user-space tests register.       *)
(***************************************************************************)
EXTENDS ProtocolAnalyzer, MCBitFields

F == INSTANCE ProtoFormats

MCFormats == F!pfs_set_pdt_drv_proto_format
MCNoIndex == F!Unindexed
MCLongNames == F!TenCharNames

\* No two places of a message, and no two messages in a row, carry the same
\* byte, so that a field that is read at a wrong place holds a wrong value.
MCOctet(i, k, t) == (16 + (8 * (i - 1)) + (4 * t) + (k % 4)) % 256

\* The driver's formats are what the theorems about the analyzer ask for.
ASSUME DriverFormatsAssumption ==
    /\ \A p \in DOMAIN MCFormats : WellLaid(MCFormats[p])
    /\ \A p \in {"3019", "3054"} : TailOnly(MCFormats[p])

\* Analyzers of formats of bytes and analyzers of formats of bits do not meet.
MCInit == Init /\ BitInit
MCNext == \/ phase = "idle" /\ Next /\ UNCHANGED bitVars
          \/ proto = "none" /\ BitNext /\ UNCHANGED vars

MCSpec == MCInit /\ [][MCNext]_<<vars, bitVars>>
=============================================================================
