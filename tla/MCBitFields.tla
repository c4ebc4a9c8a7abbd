----------------------------- MODULE MCBitFields -----------------------------
(* BitFields over the layout of the user-space test, and over one whose     *)
(* fields begin and end inside bytes.                                       *)
EXTENDS BitFields

BF(p, b, l) == [pos |-> p, bit |-> b, len |-> l]

\* pfs_set_pdu_format_ackd: LB, PF, CSBKO, FID, RI, ARC, RSVD, TADDR, SADDR
pfs_set_pdu_format_ackd ==
    << BF(0, 7, 1), BF(0, 6, 1), BF(0, 5, 6), BF(1, 7, 8), BF(2, 7, 7), BF(2, 0, 8),
       BF(3, 0, 1), BF(4, 7, 24), BF(7, 7, 24) >>

Crossing == << BF(0, 7, 5), BF(0, 2, 14), BF(2, 4, 4), BF(2, 0, 24), BF(5, 0, 1), BF(6, 7, 8) >>

MCLayouts == {pfs_set_pdu_format_ackd, Crossing}

Word == 0 .. 31

\* Values: nothing, everything, the bits at either end, and what is wider than the
\* field: all bits of a uint32_t, and the bit above the field alone.
Samples(len) == {{}, 0 .. len - 1, {0}, {len - 1}, {0, len - 1}, Word, {len}}

\* All fields empty or all full, but for two that are next to each other.
MCGiven(fs) ==
    {[n \in DOMAIN fs |-> IF n = v[1] THEN v[2] ELSE IF n = v[1] + 1 THEN v[3]
                          ELSE IF v[4] THEN 0 .. fs[n].len - 1 ELSE {}] :
       v \in UNION {{m} \X Samples(fs[m].len) \X Samples(fs[m + 1].len) \X BOOLEAN :
                    m \in 1 .. Len(fs) - 1}}

\* protocol_data of a new analyzer, and after a message with every field 1.
MCOldBytes(fs) == LET zero == [p \in 0 .. BitBytes - 1 |-> {}]
                  IN  {zero, WithBits(zero, fs, [n \in DOMAIN fs |-> {0}])}
=============================================================================
