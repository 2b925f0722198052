----------------------------- MODULE MCMonitoring -----------------------------
EXTENDS Monitoring
===============================================================================
