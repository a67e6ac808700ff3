----------------------------- MODULE ResponseCache -----------------------------
(***************************************************************************)
(* What Cache.h promises its callers, as if every call were atomic: a      *)
(* sequence of stored responses, newest first.  A lookup answers with the  *)
(* newest response stored for its key and says whether it is still valid   *)
(* by the clock of that moment; a write puts a response in front; a clear  *)
(* removes every response of its key.                                      *)
(***************************************************************************)
EXTENDS Integers, Sequences, FiniteSetsExt, Entries

CONSTANTS Workers, Keys, Responses, NoResponse

VARIABLES
    entries,  \* the stored responses, newest first
    lookup,   \* per worker: NoLookup, the key it asks for, or its answer
    now       \* the clock

NoLookup == <<>>
Asked(k) == <<k>>
Answered(k, cs, gr) == <<k, cs, gr>>

\* A response is valid for validTime seconds from its writeTime on.
Status(gr, t) ==
    IF t - gr.writeTime < gr.validTime /\ gr.validTime > 0
    THEN "CS_CACHE_VALID" ELSE "CS_CACHE_NEED_REVALIDATE"

AnswerTo(k) ==
    LET hits == {i \in DOMAIN entries : entries[i].key = k}
        gr == entries[Min(hits)].gr
    IN  IF hits = {}
        THEN Answered(k, "CS_CACHE_NOT_FOUND", NoResponse)
        ELSE Answered(k, Status(gr, now), gr)

CInit ==
    /\ entries = <<>>
    /\ lookup = [w \in Workers |-> NoLookup]
    /\ now \in Nat

Ask(w) ==
    /\ lookup[w] = NoLookup
    /\ \E k \in Keys : lookup' = [lookup EXCEPT ![w] = Asked(k)]
    /\ UNCHANGED <<entries, now>>

Answer(w) ==
    /\ \E k \in Keys : lookup[w] = Asked(k) /\ lookup' = [lookup EXCEPT ![w] = AnswerTo(k)]
    /\ UNCHANGED <<entries, now>>

Return(w) ==
    /\ Len(lookup[w]) = 3
    /\ lookup' = [lookup EXCEPT ![w] = NoLookup]
    /\ UNCHANGED <<entries, now>>

\* A write takes effect at once, also while lookups are under way.
Write ==
    /\ \E k \in Keys, gr \in Responses :
          entries' = <<[key |-> k, gr |-> gr]>> \o entries
    /\ UNCHANGED <<lookup, now>>

Clear ==
    /\ \E k \in Keys : entries' = Without(entries, {k})
    /\ UNCHANGED <<lookup, now>>

ClockStep == now' \in Nat /\ UNCHANGED <<entries, lookup>>

CNext ==
    \/ \E w \in Workers : Ask(w) \/ Answer(w) \/ Return(w)
    \/ Write
    \/ Clear
    \/ ClockStep

cvars == <<entries, lookup, now>>

CSpec == CInit /\ [][CNext]_cvars
=============================================================================
