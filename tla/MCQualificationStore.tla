------------------------ MODULE MCQualificationStore ------------------------
(***************************************************************************)
(* Two run keys.  Two signatures of the first profile, two raw outputs,    *)
(* cleanups and private bodies, and results of both verdicts, one of them  *)
(* signed twice.                                                           *)
(***************************************************************************)
EXTENDS QualificationStore

CONSTANTS k1, k2, raw1, raw2, clean1, clean2, body1, body2

MCProfiles ==
  {[key |-> k1, signature |-> 1], [key |-> k1, signature |-> 2], [key |-> k2, signature |-> 1]}

Result(k, verdict, signature) ==
  [key |-> k, hash |-> <<k, verdict>>, signature |-> signature]

MCResults ==
  {Result(k1, "PASSED", 1), Result(k1, "PASSED", 2), Result(k1, "UNVERIFIED", 1),
   Result(k2, "PASSED", 1)}
=============================================================================
