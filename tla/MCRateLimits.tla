---------------------------- MODULE MCRateLimits ----------------------------
\* A general limit with every field, and two entries of the map with a few.
EXTENDS RateLimits

MCKeys == <<"codex", "other">>

MCFields ==
    (<<"rateLimits">> :> SnapshotFields)
    @@ (<<"rateLimitsByLimitId", "codex">> :> {"planType", "credits"})
    @@ (<<"rateLimitsByLimitId", "other">> :> {"limitId", "planType"})
=============================================================================
