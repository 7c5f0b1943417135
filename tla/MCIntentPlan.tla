---------------------------- MODULE MCIntentPlan ----------------------------
(* Approved lists with an unknown preset first, alone and nowhere. *)
EXTENDS IntentPlan

MCApprovedSets ==
  {<<>>, <<"TYPO">>, <<"TYPO", "LONG_FAST", "SHORT_FAST">>, <<"LONG_SLOW">>, <<"SHORT_TURBO">>}

MCRates == {-1, 0, 1, 3, 10}
MCPayloads == {0, 1, 39, 40, 41, 100, 236, 237}
=============================================================================
