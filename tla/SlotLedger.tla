----------------------------- MODULE SlotLedger -----------------------------
(* What a registration run promises about its slots, whichever threads do    *)
(* the work: a slot (one of the requested accounts) is issued once and in    *)
(* order, it ends at most once, the summary counts exactly the ends, and     *)
(* after the summary of a run nobody interrupted nothing moves any more.     *)
EXTENDS Naturals, FiniteSets

CONSTANT Limit                    \* number of slots a run may issue

VARIABLES fate,                   \* what became of each slot
          published               \* {} or {the closing summary of the run}

vars == <<fate, published>>

Slots == 1..Limit
Ends  == {"success", "fail", "dropped"}

EndedAs(e) == {s \in Slots : fate[s] = e}

Closed == \E summary \in published : summary.clean

Init == /\ fate = [s \in Slots |-> "queued"]
        /\ published = {}

Issue(s) == /\ ~Closed
            /\ fate[s] = "queued"
            /\ \A r \in 1..(s - 1) : fate[r] # "queued"
            /\ fate' = [fate EXCEPT ![s] = "held"]
            /\ UNCHANGED published

End(s, e) == /\ ~Closed
             /\ fate[s] = "held"
             /\ fate' = [fate EXCEPT ![s] = e]
             /\ UNCHANGED published

(* clean: nobody asked the run to stop, so no slot may be left in hand.      *)
Publish(clean) ==
    /\ published = {}
    /\ clean => \A s \in Slots : fate[s] # "held"
    /\ published' = {[clean   |-> clean,
                      success |-> Cardinality(EndedAs("success")),
                      fail    |-> Cardinality(EndedAs("fail"))]}
    /\ UNCHANGED fate

Next == \/ \E s \in Slots : Issue(s) \/ \E e \in Ends : End(s, e)
        \/ \E clean \in BOOLEAN : Publish(clean)

Spec == Init /\ [][Next]_vars
=============================================================================
