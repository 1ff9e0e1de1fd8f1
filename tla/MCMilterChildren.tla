------------------------- MODULE MCMilterChildren -------------------------
(***************************************************************************)
(* Instantiation of MilterChildren for TLC: two backends a1 and a2 (in     *)
(* that order), one recipient, one header, two body chunks.                *)
(***************************************************************************)
EXTENDS MilterChildren

CONSTANTS a1, a2

MCChildOrder == <<a1, a2>>

\* Neither backend opts out of a step.
MCNoStepNone == {[c \in {a1, a2} |-> {}]}

\* Each backend may opt out of the post-DATA steps, or not.
MCNoStepPostData ==
    {[c \in {a1, a2} |-> IF c = a1 THEN f1 ELSE f2] :
        f1 \in SUBSET {"EndOfHeader", "Body"},
        f2 \in SUBSET {"EndOfHeader", "Body"}}

\* a1 skips HELO and END-OF-HEADER, a2 skips the body; or neither skips.
MCNoStepMixed ==
    {[c \in {a1, a2} |-> {}],
     [c \in {a1, a2} |-> IF c = a1 THEN {"Helo", "EndOfHeader"} ELSE {"Body"}]}

\* As MCNoStepPostData, but some backend takes END-OF-HEADER or BODY.
MCNoStepSomeBody ==
    {f \in MCNoStepPostData : \E c \in {a1, a2} : f[c] # {"EndOfHeader", "Body"}}
=============================================================================
