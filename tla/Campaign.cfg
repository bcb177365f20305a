SPECIFICATION Spec
CONSTANTS
    Seeds <- MCSeeds
    Campaigns <- MCCampaigns
    Queued <- MCQueued
    Missing = Missing
    Torn = Torn
INVARIANT Comparable
PROPERTY Completes
\* The scripts of a campaign end.
CHECK_DEADLOCK FALSE
