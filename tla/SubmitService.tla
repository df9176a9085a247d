---------------------------- MODULE SubmitService ----------------------------
(***************************************************************************)
(* What TaskStore::submit and TaskStore::submit_batch promise their        *)
(* callers, without transactions, channels or leaders: every submission    *)
(* takes effect at most once, in some order that the whole table agrees    *)
(* on, and an answer other than an error reports that effect.  An error    *)
(* promises nothing: the submission may take effect all the same, or later. *)
(***************************************************************************)
EXTENDS Naturals, FiniteSets, SequencesExt

CONSTANTS
    Requests,   \* the submissions
    KeyOf,      \* the dedup key of each
    NoRequest   \* the owner of a key no row has

VARIABLES
    owner,      \* key -> the submission whose task has the key
    effect,     \* submission -> what it did to the table
    answer      \* submission -> what its caller was told

vars == <<owner, effect, answer>>

Keys == {KeyOf[r] : r \in Requests}

\* The effects that give a submission its key, those that leave the key to its
\* owner, and those that do not look at it: a refusal, and a submission passed
\* over for a later one of its batch.
Taking == {"inserted", "kept", "superseded"}
Leaving == {"upgraded", "requeued", "duplicate", "rejected"}
Ignoring == {"refused", "passed over"}
Effects == Taking \cup Leaving \cup Ignoring

\* What a caller may be told of an effect.
Told(e) == {"error"} \cup (IF e = "passed over" THEN {"duplicate"} ELSE {e} \ {"none"})

Init ==
    /\ owner = [k \in Keys |-> NoRequest]
    /\ effect = [r \in Requests |-> "none"]
    /\ answer = [r \in Requests |-> "none"]

\* The owners after r had the effect e.
After(o, r, e) == IF e \in Taking THEN [o EXCEPT ![KeyOf[r]] = r] ELSE o

\* An insertion needs a free key, an effect on an owner's row a taken one.
Fits(o, r, e) ==
    CASE e \in {"inserted", "kept"} -> o[KeyOf[r]] = NoRequest
      [] e \in Ignoring            -> TRUE
      [] OTHER                     -> o[KeyOf[r]] # NoRequest

\* The owners before the i-th submission of the order s with the effects e.
Before(s, e, i) ==
    FoldLeft(LAMBDA o, r : After(o, r, e[r]), owner, SubSeq(s, 1, i - 1))

\* Some submissions take effect together, one after the other.
Serve ==
    LET S == {r \in Requests : effect'[r] # effect[r]}
    IN  /\ S # {}
        /\ \A r \in S : effect[r] = "none" /\ effect'[r] \in Effects
        /\ \E s \in SetToSeqs(S) :
            /\ \A i \in 1..Len(s) : Fits(Before(s, effect', i), s[i], effect'[s[i]])
            /\ owner' = Before(s, effect', Len(s) + 1)
        /\ UNCHANGED answer

\* Callers are told what their submissions did, or that something failed.
Answer ==
    /\ \A r \in Requests : answer'[r] # answer[r] =>
        /\ answer[r] = "none"
        /\ answer'[r] \in Told(effect[r])
    /\ UNCHANGED <<owner, effect>>

\* A task ends and its key is free again.
Leave ==
    /\ \E k \in Keys : owner' = [owner EXCEPT ![k] = NoRequest]
    /\ UNCHANGED <<effect, answer>>

Next == Serve \/ Answer \/ Leave

Spec == Init /\ [][Next]_vars
=============================================================================
