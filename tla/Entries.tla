-------------------------------- MODULE Entries --------------------------------
(***************************************************************************)
(* The cache's list as the callers of the cache see it: a sequence of      *)
(* entries, newest first, each with the key it was stored for.             *)
(***************************************************************************)
EXTENDS Integers, Sequences

\* What is left of the list s without the entries for the keys in K.
Without(s, K) ==
    LET kept[i \in 0 .. Len(s)] ==
          IF i = 0 THEN <<>>
          ELSE IF s[i].key \in K THEN kept[i - 1] ELSE Append(kept[i - 1], s[i])
    IN  kept[Len(s)]
=============================================================================
