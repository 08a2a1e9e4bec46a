-------------------------- MODULE MCReportedSteps ---------------------------
EXTENDS ReportedSteps

=============================================================================
