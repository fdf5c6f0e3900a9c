---------------------------- MODULE MCSkillCalls -----------------------------
(***************************************************************************)
(* SkillCalls with the durations (in seconds) and the retries of           *)
(* anthropic.rs.                                                           *)
(***************************************************************************)
EXTENDS SkillCalls

RetryFirstDelay   == 1
RetryLongestDelay == 30
RetryFactor       == 2
RetryLimit        == 5
=============================================================================
