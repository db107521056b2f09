------------------------------- MODULE Router -------------------------------
(***************************************************************************)
(* Which skill a request is given to, src/src/router.rs, as a function of  *)
(* the names its text mentions and of the model's reply.  A skill is its   *)
(* place in the list that load_dir returns.                                *)
(***************************************************************************)
EXTENDS Naturals

CONSTANTS
    Skill,      \* places in the list of skills
    Length,     \* bytes in the name of each
    MaxLength,  \* of the longest
    Texts,      \* what a text may mention: with a name every name inside it
    NoSkill     \* default_skill(), a plain conversation

ASSUME SkillAssumption ==
    /\ Skill \subseteq Nat /\ NoSkill \notin Skill
    /\ MaxLength \in Nat /\ Length \in [Skill -> 0 .. MaxLength]
    /\ Texts \subseteq SUBSET Skill

\* The longest name wins, of equally long ones the first.
Better(s, r) ==
    Length[s] > Length[r] \/ (Length[s] = Length[r] /\ s <= r)

\* rule_match over the candidates that the text mentions
RuleMatch(mentioned) ==
    CHOOSE s \in mentioned : \A r \in mentioned : Better(s, r)

\* parse_response: a name that was not offered counts as none. A call of the
\* model that fails, times out or answers anything else is the reply NoSkill.
Judged(reply, candidates) ==
    IF reply \in candidates THEN reply ELSE NoSkill
=============================================================================
