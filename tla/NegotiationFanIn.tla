-------------------------- MODULE NegotiationFanIn --------------------------
(***************************************************************************)
(* What the children multiplexer promises about negotiation (spec section  *)
(* 4.6, "Negotiation fan-in"): negotiate enrols a set of backends in the   *)
(* negotiate reply queue; each enrolled backend either answers with its    *)
(* option, which is merged, or is withdrawn (it failed); when the queue     *)
(* empties, one negotiate-reply carrying the merged option is emitted,     *)
(* provided some backend answered.  Options are abstracted to the set of   *)
(* backends whose option was merged.                                       *)
(***************************************************************************)
EXTENDS Sequences

CONSTANT Children

VARIABLES
    pending,    \* backends enrolled whose answer is still awaited
    merged,     \* backends whose option is part of the merged option
    replies,    \* the negotiate-reply signals emitted, each with its option
    started     \* negotiate has been called

vars == <<pending, merged, replies, started>>

Init ==
    /\ pending = {}
    /\ merged = {}
    /\ replies = <<>>
    /\ started = FALSE

\* negotiate enrols the backends S.
Start(S) ==
    /\ ~started
    /\ started' = TRUE
    /\ pending' = S
    /\ UNCHANGED <<merged, replies>>

\* An enrolled backend answers; the last answer emits the merged option.
Answer(c) ==
    /\ c \in pending
    /\ pending' = pending \ {c}
    /\ merged' = merged \cup {c}
    /\ replies' = IF pending' = {} THEN Append(replies, merged') ELSE replies
    /\ UNCHANGED started

\* An enrolled backend fails and leaves the queue; if it was the last one,
\* the option merged so far is emitted, if there is any.
Withdraw(c) ==
    /\ c \in pending
    /\ pending' = pending \ {c}
    /\ replies' = IF pending' = {} /\ merged # {}
                  THEN Append(replies, merged) ELSE replies
    /\ UNCHANGED <<merged, started>>

Next ==
    \/ \E S \in SUBSET Children : Start(S)
    \/ \E c \in Children : Answer(c) \/ Withdraw(c)

Spec == Init /\ [][Next]_vars
=============================================================================
