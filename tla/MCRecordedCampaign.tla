------------------------- MODULE MCRecordedCampaign -------------------------
\* The recorded campaign on a small instance.
EXTENDS RecordedCampaign
=============================================================================
