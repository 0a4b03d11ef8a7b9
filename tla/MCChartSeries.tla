--------------------------- MODULE MCChartSeries ---------------------------
\* Five buckets up to three days apart make as many as fifteen points for a
\* series of eight: it is halved up to twice.
EXTENDS ChartSeries
=============================================================================
