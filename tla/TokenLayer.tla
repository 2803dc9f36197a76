----------------------------- MODULE TokenLayer -----------------------------
(***************************************************************************)
(* The token layer of a trajectory that AgentLoop.run has returned:        *)
(* build_token_arrays (protocol/serialization.py), the shape checks of     *)
(* AgentTrajectory and its labels_for_sft (schemas/trajectory.py), and     *)
(* section 4 of validate_trajectory (protocol/validate.py).  A token is    *)
(* known by its message and its place in it.                               *)
(***************************************************************************)
EXTENDS AgentLoop, FiniteSets

CONSTANTS
    SegmentLengths,  \* bound: how many tokens a message may have
    PrefixMasks,     \* bound: assistant_prefix_mask
    Ignore           \* ignore_index

ASSUME TokenConstants == SegmentLengths \subseteq Nat /\ PrefixMasks \subseteq Nat

VARIABLES
    stage,  \* "none", or the arrays are "accepted" or "refused"
    tokens  \* the arrays

tokenVars == <<stage, tokens>>

Segment(i, n) == [k \in 1 .. n |-> <<i, k>>]
Least(m, n) == IF m < n THEN m ELSE n
Repeat(value, n) == [k \in 1 .. n |-> value]

Assistants == {i \in DOMAIN messages : messages[i].role = "assistant"}
Others == DOMAIN messages \ Assistants

\* The concatenation of what the messages in which have in parts.
Joined(parts, which) ==
    FlattenSeq([i \in DOMAIN messages |-> IF i \in which THEN parts[i] ELSE << >>])

\* build_token_arrays: response_mask of one assistant segment.
MutMaskOf(n, prefix) == Repeat(0, prefix) \o Repeat(1, n - prefix)
MaskOf(n, prefix) == Repeat(0, Least(prefix, n)) \o Repeat(1, n - Least(prefix, n))

Arrays(counts, prefix) ==
    LET segments == [i \in DOMAIN messages |-> Segment(i, counts[i])]
        masks == [i \in DOMAIN messages |-> MaskOf(counts[i], prefix)] IN
    [counts |-> counts, prefix |-> prefix,
     prompt |-> Joined(segments, Others),
     response |-> Joined(segments, Assistants),
     mask |-> Joined(masks, Assistants)]

\* _verify_token_shapes: anything else is a ValueError.
Total(counts, which) == Len(Joined([i \in DOMAIN messages |-> Repeat(0, counts[i])], which))
ShapesOK(a) ==
    /\ Len(a.mask) = Len(a.response)
    /\ Len(a.counts) = Len(messages)
    /\ Total(a.counts, DOMAIN messages) = Len(a.prompt) + Len(a.response)

\* Section 4 of validate_trajectory.
Section4(a) ==
    /\ Len(a.counts) = Len(messages)
    /\ Total(a.counts, Others) = Len(a.prompt)
    /\ Total(a.counts, Assistants) = Len(a.response)
    /\ Len(a.mask) = Len(a.response)

\* labels_for_sft: response_ids is cut where the counts say; the mask is not
\* looked at.
Before(a, i) == Total(a.counts, {j \in Assistants : j < i})
LabelsForSft(a) ==
    LET labels == [i \in DOMAIN messages |->
            IF i \in Assistants
              THEN SubSeq(a.response, Before(a, i) + 1, Before(a, i) + a.counts[i])
              ELSE Repeat(Ignore, a.counts[i])] IN
    Joined(labels, DOMAIN messages)

-----------------------------------------------------------------------------
\* The tokens of each message are attached once, after the rollout.
Attach ==
    /\ outcome = "returned" /\ stage = "none"
    /\ \E counts \in [DOMAIN messages -> SegmentLengths], prefix \in PrefixMasks :
         /\ tokens' = Arrays(counts, prefix)
         /\ stage' = IF ShapesOK(tokens') THEN "accepted" ELSE "refused"
    /\ UNCHANGED vars

TokenInit == Init /\ stage = "none" /\ tokens = << >>
TokenNext == Attach \/ (Next /\ UNCHANGED tokenVars)
TokenSpec == TokenInit /\ [][TokenNext]_<<vars, tokenVars>>

-----------------------------------------------------------------------------
(* Whatever the rollout was and however its messages are cut into tokens,   *)
(* an empty message or one shorter than the masked prefix included: the     *)
(* arrays are accepted by the model and by section 4 of the validator, the  *)
(* labels run along the whole sequence and carry a token exactly where an   *)
(* assistant wrote it, and mask 0 stands on the first tokens of each        *)
(* assistant message only.                                                  *)
TokensAlign ==
    /\ stage # "refused"
    /\ stage = "accepted" =>
         LET labels == LabelsForSft(tokens)
             all == Joined([i \in DOMAIN messages |-> Segment(i, tokens.counts[i])],
                           DOMAIN messages) IN
         /\ Section4(tokens)
         /\ Len(labels) = Len(all)
         /\ \A k \in DOMAIN all : labels[k] = IF all[k][1] \in Assistants THEN all[k] ELSE Ignore
         /\ \A k \in DOMAIN tokens.response :
              tokens.mask[k] = 0 <=> tokens.response[k][2] <= tokens.prefix
=============================================================================
