----------------------------- MODULE MCAuditLog -----------------------------
(* AuditLog for TLC.  A hash is the sequence of what it covers, so hashes of  *)
(* different chains of up to MaxEvents events never collide.                 *)
EXTENDS AuditLog, SequencesExt

MCHashes == BoundedSeq(Hashed, MaxEvents)

\* Sequences of MaxEvents elements are heads of full logs; nothing is hashed
\* on top of them, and the last case only closes Hashes under the operator.
MCHash(prev, fields) ==
    IF Len(prev) < MaxEvents THEN Append(prev, fields) ELSE <<fields>>

MCEmptyHash == <<>>

=============================================================================
