---------------------------- MODULE MCUsageChart ----------------------------
\* No data, one day, days in a row and days far apart.
EXTENDS UsageChart

MCCharts == {<<>>, <<0>>, <<0, 1, 2, 3>>, <<0, 1, 4, 5, 9>>}
=============================================================================
