------------------------ MODULE MCScheduleQuarantine ------------------------
EXTENDS ScheduleQuarantine
=============================================================================
