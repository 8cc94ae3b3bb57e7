------------------------- MODULE MCNoisyStatevector -------------------------
(* Instances of NoisyStatevector for TLC. *)
EXTENDS NoisyStatevector

Fresh == [resume |-> FALSE, adaptive |-> FALSE, continueOnError |-> FALSE,
          retryFailed |-> TRUE, limit |-> 0]
FreshAdaptive == [Fresh EXCEPT !.adaptive = TRUE]
Resumed == [Fresh EXCEPT !.resume = TRUE]
ResumedTolerant == [Resumed EXCEPT !.continueOnError = TRUE]
ResumedNoRetry == [ResumedTolerant EXCEPT !.retryFailed = FALSE]
ResumedAdaptive == [Resumed EXCEPT !.adaptive = TRUE]

\* Adaptive stopping on fresh starts only.
SoundOptions ==
    {Fresh, FreshAdaptive, Resumed, ResumedTolerant, ResumedNoRetry,
     [FreshAdaptive EXCEPT !.continueOnError = TRUE], [Resumed EXCEPT !.limit = 1]}
AdaptiveOptions == {FreshAdaptive, ResumedAdaptive}
=============================================================================
