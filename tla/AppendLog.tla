----------------------------- MODULE AppendLog -----------------------------
(* What the event log promises its callers: one append-only sequence of     *)
(* numbered events per run, from which nothing is ever removed, and an      *)
(* acknowledgement only for what the sequence holds.                        *)
EXTENDS Naturals, Sequences

CONSTANTS Runs, Events

VARIABLES
    entries,  \* entries[r]: the numbered events of run r
    acks      \* <<run, seq, event>> reported as durably written

Init == entries = [r \in Runs |-> <<>>] /\ acks = {}

Append1(r, e) ==
    /\ entries' = [entries EXCEPT ![r] = Append(@, [seq |-> Len(@) + 1, ev |-> e])]
    /\ UNCHANGED acks

Acknowledge(r, i) ==
    /\ i \in DOMAIN entries[r]
    /\ acks' = acks \cup {<<r, i, entries[r][i].ev>>}
    /\ UNCHANGED entries

Next == \E r \in Runs :
    \/ \E e \in Events : Append1(r, e)
    \/ \E i \in DOMAIN entries[r] : Acknowledge(r, i)

Spec == Init /\ [][Next]_<<entries, acks>>
=============================================================================
