---------------------------- MODULE MCSupervisor ----------------------------
EXTENDS Supervisor
CONSTANTS http, exporter
TwoKinds == <<http, exporter>>
=============================================================================
