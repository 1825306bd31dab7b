------------------------------- MODULE MCBus --------------------------------
(* Bus for TLC.  A hash is the sequence of the last IDs it covers: all of      *)
(* them, as no chain has more than MaxEvents.                               *)
EXTENDS Bus, SequencesExt

MCGenesis == <<>>
MCHashes == BoundedSeq(IDs, MaxEvents)
MCDigest(prevHash, id) ==
    Append(IF Len(prevHash) < MaxEvents THEN prevHash ELSE Tail(prevHash), id)
=============================================================================
