------------------------------ MODULE MCHashMap ------------------------------
(***************************************************************************)
(* HashMap on a small instance.  Keys are byte strings, hashed as          *)
(* default_hash_func does it; `wild' stands for a caller's hash function   *)
(* that returns a number beyond the table for one key.                     *)
(***************************************************************************)
EXTENDS HashMap

CONSTANT wild

\* "aa" and "ad" meet in bucket 2 of 3, "ab" lies in bucket 0.
MCBytes == {<<97, 97>>, <<97, 100>>, <<97, 98>>}

MCKey == MCBytes \cup {wild}

MCHashFunc == [k \in MCKey |-> IF k = wild THEN BucketSize
                               ELSE default_hash_func(k)]
=============================================================================
